---------------------------- MODULE SettingsStore ----------------------------
(***************************************************************************)
(* What the user chose for each event, how OBS keeps it in the data of a   *)
(* scene collection, and what a protection mode makes of it: the records   *)
(* and the policy of display-settings.hpp, and the two halves of           *)
(* ProtectionDisplayController::save_load.                                 *)
(*                                                                         *)
(* An image path is abstracted to whether one is set.  The file is edited  *)
(* by other versions of the plug-in and by hand: a mode is any integer or  *)
(* missing, in which case a boolean of the first version takes its place.  *)
(***************************************************************************)
EXTENDS Integers

CONSTANTS
    Scene,      \* names of OBS scenes
    NoScene,    \* the empty scene name
    NoData      \* the data of a collection the plug-in was never saved in

Modes == {"Disabled", "AwaitingConnection", "Safe", "Sensitive", "Disconnected"}

\* is_protected_mode
Protected(mode) == mode \in {"AwaitingConnection", "Sensitive", "Disconnected"}

DisplayMode == {"BuiltInImage", "CustomImage", "CustomScene"}

EventSettings == [mode : DisplayMode, image : BOOLEAN, scene : Scene \cup {NoScene}]

Settings == [sensitive : EventSettings, connection : EventSettings,
             riskAccepted : BOOLEAN]

BuiltIn == [mode |-> "BuiltInImage", image |-> FALSE, scene |-> NoScene]

DefaultSettings == [sensitive |-> BuiltIn, connection |-> BuiltIn,
                    riskAccepted |-> FALSE]

EventFor(settings, mode) == IF mode = "Sensitive" THEN settings.sensitive
                                                  ELSE settings.connection

\* resolve_display_action
Resolve(settings, mode) ==
    LET event == EventFor(settings, mode) IN
    CASE mode \in {"Safe", "Disabled"} -> "NormalOutput"
      [] /\ mode \notin {"Safe", "Disabled"}
         /\ event.mode = "CustomScene"
         /\ settings.riskAccepted /\ event.scene # NoScene -> "CustomScene"
      [] /\ mode \notin {"Safe", "Disabled"}
         /\ event.mode = "CustomImage" /\ event.image -> "CustomImage"
      [] OTHER -> "BuiltInImage"

-----------------------------------------------------------------------------
(***************************************************************************)
(* The data of a scene collection                                          *)
(***************************************************************************)
StoredEvent == [hasMode : BOOLEAN, number : Int, legacyScene : BOOLEAN,
                image : BOOLEAN, scene : Scene \cup {NoScene}]

Stored == [sensitive : StoredEvent, connection : StoredEvent,
           riskAccepted : BOOLEAN]

ASSUME NamesAssumption == NoScene \notin Scene /\ NoData \notin Stored

Data == Stored \cup {NoData}

\* The numbers of the enumeration DisplayMode.
NumberOf(mode) == CASE mode = "BuiltInImage" -> 0
                    [] mode = "CustomImage"  -> 1
                    [] mode = "CustomScene"  -> 2

\* load_display_mode: a number out of range is not trusted.
LoadDisplayMode(event) ==
    CASE event.hasMode /\ event.number = 1       -> "CustomImage"
      [] event.hasMode /\ event.number = 2       -> "CustomScene"
      [] ~event.hasMode /\ event.legacyScene     -> "CustomScene"
      [] OTHER                                   -> "BuiltInImage"

LoadEvent(event) == [mode |-> LoadDisplayMode(event), image |-> event.image,
                     scene |-> event.scene]

\* save_load(saving = false)
Loaded(data) ==
    IF data = NoData THEN DefaultSettings
    ELSE [sensitive    |-> LoadEvent(data.sensitive),
          connection   |-> LoadEvent(data.connection),
          riskAccepted |-> data.riskAccepted]

\* Mistake: the scene of an event is not written.
SaveEventWithoutScene(event) ==
    [hasMode |-> TRUE, number |-> NumberOf(event.mode), legacyScene |-> FALSE,
     image |-> event.image, scene |-> NoScene]

SaveEvent(event) == [hasMode |-> TRUE, number |-> NumberOf(event.mode),
                     legacyScene |-> FALSE, image |-> event.image,
                     scene |-> event.scene]

\* save_load(saving = true)
Saved(settings) == [sensitive    |-> SaveEvent(settings.sensitive),
                    connection   |-> SaveEvent(settings.connection),
                    riskAccepted |-> settings.riskAccepted]

-----------------------------------------------------------------------------
\* secure_defaults_are_preserved, the policy the compiler checks at every
\* build; here for any scene name and any of the protected modes.
SecureDefaultsArePreserved ==
    LET image == [DefaultSettings EXCEPT !.sensitive.mode = "CustomImage"]
        path == [image EXCEPT !.sensitive.image = TRUE]
        named(s) == [path EXCEPT !.sensitive.mode = "CustomScene",
                                 !.sensitive.scene = s]
        accepted(s) == [named(s) EXCEPT !.riskAccepted = TRUE]
    IN /\ Resolve(DefaultSettings, "Sensitive") = "BuiltInImage"
       /\ Resolve(DefaultSettings, "Disconnected") = "BuiltInImage"
       /\ Resolve(image, "Sensitive") = "BuiltInImage"
       /\ Resolve(path, "Sensitive") = "CustomImage"
       /\ \A s \in Scene :
            /\ Resolve(named(s), "Sensitive") = "BuiltInImage"
            /\ Resolve(accepted(s), "Sensitive") = "CustomScene"
            /\ Resolve(accepted(s), "Safe") = "NormalOutput"
=============================================================================
