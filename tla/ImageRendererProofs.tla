------------------------- MODULE ImageRendererProofs -------------------------
(***************************************************************************)
(* TextureIsKnown and FrameIsFresh for any number of selections.           *)
(*                                                                         *)
(* Neither is inductive: what the drawing thread holds between its two     *)
(* critical sections has to be known as well.  Copied says that the image  *)
(* copied is the one its generation counts, and is no older than the       *)
(* frame; Matched, that a texture taken for current is.                    *)
(***************************************************************************)
EXTENDS ImageRenderer, TLAPS

Copied ==
    frame \in {"upload", "finish"} =>
        /\ copy.image.pick = copy.generation
        /\ since <= copy.generation

Matched ==
    /\ frame = "finish" => texture \in {NoTexture, copy.generation}
    /\ frame = "draw" => since <= textureGeneration

IInv == TypeOK /\ Copied /\ Matched /\ TextureIsKnown

LEMMA InitIInv == Init => IInv
BY DEF Init, IInv, TypeOK, Copied, Matched, TextureIsKnown, NoTexture

LEMMA StepIInv == IInv /\ [Next]_vars => IInv'
<1> SUFFICES ASSUME IInv, [Next]_vars
             PROVE  IInv'
    OBVIOUS
<1> USE DEF IInv, TypeOK, Copied, Matched, TextureIsKnown, NoTexture
<1>1. CASE \E empty \in BOOLEAN : Select(empty)
    BY <1>1 DEF Select
<1>2. CASE BeginFrame
    BY <1>2 DEF BeginFrame
<1>3. CASE CheckTexture
    BY <1>3 DEF CheckTexture, UpToDate
<1>4. CASE Upload
    BY <1>4 DEF Upload
<1>5. CASE FinishUpdate
    BY <1>5 DEF FinishUpdate, CopiedGeneration
<1>6. CASE Draw
    BY <1>6 DEF Draw
<1>7. CASE Shutdown
    BY <1>7 DEF Shutdown
<1>8. CASE UNCHANGED vars
    BY <1>8 DEF vars
<1> QED
    BY <1>1, <1>2, <1>3, <1>4, <1>5, <1>6, <1>7, <1>8 DEF Next, FrameStep

LEMMA Invariance == Spec => []IInv
<1> QED
    BY InitIInv, StepIInv, PTL DEF Spec

\* update_texture never takes a texture for another image.
THEOREM KnownTexture == Spec => []TextureIsKnown
<1>1. IInv => TextureIsKnown
    BY DEF IInv
<1> QED
    BY <1>1, Invariance, PTL

\* No frame shows an image that was replaced before the frame began.
THEOREM FreshFrames == Spec => []FrameIsFresh
<1>1. IInv => FrameIsFresh
    BY DEF IInv, TypeOK, Matched, TextureIsKnown, FrameIsFresh, NoTexture
<1> QED
    BY <1>1, Invariance, PTL
=============================================================================
