---------------------------- MODULE ImageRenderer ----------------------------
(***************************************************************************)
(* ProtectionDisplayController::ImageRenderer: an image is selected on one *)
(* thread and drawn on another, from a texture that belongs to the drawing *)
(* thread.  mutex_ guards the selected image and the two generations; the  *)
(* texture is made between two critical sections of update_texture.        *)
(*                                                                         *)
(* An image is known by its "pick", the number of the selection that       *)
(* brought it; the texture, by the pick it was made from.                  *)
(***************************************************************************)
EXTENDS Naturals

VARIABLES
    selected,           \* selected_image_: its pick, and whether it is empty
    selectedGeneration, \* selected_generation_
    textureGeneration,  \* texture_generation_
    texture,            \* texture_
    copy,               \* the locals selected and generation of update_texture
    frame,              \* where the drawing thread is
    since               \* history: the newest pick when the frame began

NoTexture == 0

vars == <<selected, selectedGeneration, textureGeneration, texture, copy, frame,
          since>>

Init ==
    /\ selected = [pick |-> 1, empty |-> TRUE]
    /\ selectedGeneration = 1
    /\ textureGeneration = 0
    /\ texture = NoTexture
    /\ copy = [image |-> selected, generation |-> 0]
    /\ frame = "idle"
    /\ since = 0

\* Mistake: a selection is not counted.
SelectUncounted(empty) ==
    /\ selected' = [pick |-> selected.pick + 1, empty |-> empty]
    /\ UNCHANGED <<selectedGeneration, textureGeneration, texture, copy, frame,
                   since>>

\* select; clear selects an empty image.
Select(empty) ==
    /\ selected' = [pick |-> selected.pick + 1, empty |-> empty]
    /\ selectedGeneration' = selectedGeneration + 1
    /\ UNCHANGED <<textureGeneration, texture, copy, frame, since>>

\* The render callback has found that the overlay is required.
BeginFrame ==
    /\ frame = "idle"
    /\ frame' = "check"
    /\ since' = selected.pick
    /\ UNCHANGED <<selected, selectedGeneration, textureGeneration, texture, copy>>

\* Mistake: a texture that exists is taken for the right one.
TextureExists == texture # NoTexture

UpToDate == textureGeneration = selectedGeneration

\* The first critical section of update_texture.
CheckTexture ==
    /\ frame = "check"
    /\ IF UpToDate
       THEN frame' = "draw" /\ UNCHANGED copy
       ELSE /\ frame' = "upload"
            /\ copy' = [image |-> selected, generation |-> selectedGeneration]
    /\ UNCHANGED <<selected, selectedGeneration, textureGeneration, texture, since>>

\* The old texture goes; making the new one may fail.
Upload ==
    /\ frame = "upload"
    /\ frame' = "finish"
    /\ texture' \in {NoTexture} \cup
                    (IF copy.image.empty THEN {} ELSE {copy.image.pick})
    /\ UNCHANGED <<selected, selectedGeneration, textureGeneration, copy, since>>

\* Mistake: the generation is read again, and may be that of a newer image.
CurrentGeneration == selectedGeneration

CopiedGeneration == copy.generation

\* The second critical section of update_texture.
FinishUpdate ==
    /\ frame = "finish"
    /\ frame' = "draw"
    /\ textureGeneration' = CopiedGeneration
    /\ UNCHANGED <<selected, selectedGeneration, texture, copy, since>>

\* render_with_layout draws the texture, if there is one.
Draw ==
    /\ frame = "draw"
    /\ frame' = "idle"
    /\ UNCHANGED <<selected, selectedGeneration, textureGeneration, texture, copy,
                   since>>

\* shutdown: entering the graphics context waits for the frame to be over.
Shutdown ==
    /\ frame = "idle"
    /\ texture' = NoTexture
    /\ UNCHANGED <<selected, selectedGeneration, textureGeneration, copy, frame,
                   since>>

FrameStep == CheckTexture \/ Upload \/ FinishUpdate \/ Draw

Next ==
    \/ \E empty \in BOOLEAN : Select(empty)
    \/ BeginFrame
    \/ FrameStep
    \/ Shutdown

Spec == Init /\ [][Next]_vars

-----------------------------------------------------------------------------
\* The types of the fields, and that the code's generation counts the picks.
TypeOK ==
    /\ selected \in [pick : Nat \ {0}, empty : BOOLEAN]
    /\ selectedGeneration = selected.pick
    /\ textureGeneration \in 0..selectedGeneration
    /\ texture \in Nat
    /\ copy \in [image : [pick : Nat \ {0}, empty : BOOLEAN], generation : Nat]
    /\ copy.generation <= selectedGeneration
    /\ frame \in {"idle", "check", "upload", "finish", "draw"}
    /\ since \in 0..selectedGeneration

\* The texture is never taken for another image than the one it was made
\* from, though a new one may be selected while it is being made: the
\* generation stored last is that of its pick (update_texture).
TextureIsKnown ==
    frame \notin {"upload", "finish"} => texture \in {NoTexture, textureGeneration}

\* A frame never shows an image older than the newest when it began: an image
\* that was cleared because the mode changed is not drawn again.
FrameIsFresh == frame = "draw" /\ texture # NoTexture => texture >= since
=============================================================================
