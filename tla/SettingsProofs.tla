--------------------------- MODULE SettingsProofs ---------------------------
(***************************************************************************)
(* What holds of SettingsStore for every set of scenes, every settings     *)
(* record and every content of the file.                                   *)
(***************************************************************************)
EXTENDS SettingsStore, TLAPS

\* Whatever integer, or none, the file holds, the mode loaded is a mode.
LEMMA AnyNumberLoads ==
    ASSUME NEW event \in StoredEvent
    PROVE  LoadEvent(event) \in EventSettings
<1>1. LoadDisplayMode(event) \in DisplayMode
    BY DEF LoadDisplayMode, DisplayMode
<1>2. event.image \in BOOLEAN /\ event.scene \in Scene \cup {NoScene}
    BY DEF StoredEvent
<1> QED
    BY <1>1, <1>2 DEF LoadEvent, EventSettings

\* load_display_mode, save_load: any data of a scene collection, damaged or
\* from the first version, loads as legal settings.
THEOREM AnyFileLoads ==
    ASSUME NEW data \in Data
    PROVE  Loaded(data) \in Settings
<1>1. CASE data = NoData
    BY <1>1 DEF Loaded, Settings, DefaultSettings, BuiltIn, EventSettings,
                DisplayMode
<1>2. CASE data # NoData
    <2>1. data \in Stored
        BY <1>2 DEF Data
    <2>2. /\ LoadEvent(data.sensitive) \in EventSettings
          /\ LoadEvent(data.connection) \in EventSettings
          /\ data.riskAccepted \in BOOLEAN
        BY <2>1, AnyNumberLoads DEF Stored
    <2> QED
        BY <1>2, <2>2 DEF Loaded, Settings
<1> QED
    BY <1>1, <1>2

\* An event's choices survive the file.
LEMMA EventRoundTrip ==
    ASSUME NEW event \in EventSettings
    PROVE  /\ SaveEvent(event) \in StoredEvent
           /\ LoadEvent(SaveEvent(event)) = event
<1>1. event.mode \in DisplayMode /\ event.image \in BOOLEAN
      /\ event.scene \in Scene \cup {NoScene}
    BY DEF EventSettings
<1>2. NumberOf(event.mode) \in 0..2
    BY <1>1 DEF NumberOf, DisplayMode
<1>3. SaveEvent(event) \in StoredEvent
    BY <1>1, <1>2 DEF SaveEvent, StoredEvent
<1>4. LoadDisplayMode(SaveEvent(event)) = event.mode
    BY <1>1 DEF LoadDisplayMode, SaveEvent, NumberOf, DisplayMode
<1>5. event = [mode |-> event.mode, image |-> event.image,
               scene |-> event.scene]
    BY DEF EventSettings
<1>6. LoadEvent(SaveEvent(event)) = [mode |-> event.mode,
            image |-> event.image, scene |-> event.scene]
    BY <1>4 DEF LoadEvent, SaveEvent
<1> QED
    BY <1>3, <1>5, <1>6

\* save_load: what is saved is a legal file, and it loads as it was.
THEOREM SaveThenLoad ==
    ASSUME NEW settings \in Settings
    PROVE  /\ Saved(settings) \in Data
           /\ Loaded(Saved(settings)) = settings
<1>1. /\ settings.sensitive \in EventSettings
      /\ settings.connection \in EventSettings
      /\ settings.riskAccepted \in BOOLEAN
    BY DEF Settings
<1>2. Saved(settings) \in Stored
    BY <1>1, EventRoundTrip DEF Saved, Stored
<1>3. Saved(settings) # NoData
    BY <1>2, NamesAssumption
<1>4. settings = [sensitive |-> settings.sensitive,
                  connection |-> settings.connection,
                  riskAccepted |-> settings.riskAccepted]
    BY DEF Settings
<1>5. Loaded(Saved(settings)) =
        [sensitive |-> settings.sensitive, connection |-> settings.connection,
         riskAccepted |-> settings.riskAccepted]
    BY <1>1, <1>3, EventRoundTrip DEF Loaded, Saved
<1> QED
    BY <1>2, <1>4, <1>5 DEF Data

\* The switch statement of resolve_display_action and the list of
\* is_protected_mode, written in two files, agree: apply_on_ui_thread, which
\* asks both, never takes a protected mode for a normal output.
THEOREM PolicyAgreesWithModes ==
    ASSUME NEW settings \in Settings, NEW mode \in Modes
    PROVE  Resolve(settings, mode) = "NormalOutput" <=> ~Protected(mode)
BY DEF Resolve, Protected, Modes, EventFor

\* A file alone, whatever is in it, hands the output to a scene only where
\* it also says that the risk was accepted; a collection without our data
\* never does (resolve_display_action, save_load).
THEOREM SceneNeedsConsent ==
    ASSUME NEW data \in Data, NEW mode \in Modes,
           Resolve(Loaded(data), mode) = "CustomScene"
    PROVE  /\ data # NoData /\ data.riskAccepted
           /\ EventFor(Loaded(data), mode).scene \in Scene
<1>1. Loaded(data) \in Settings
    BY AnyFileLoads
<1>2. /\ EventFor(Loaded(data), mode).mode = "CustomScene"
      /\ Loaded(data).riskAccepted
      /\ EventFor(Loaded(data), mode).scene # NoScene
    BY DEF Resolve
<1>3. EventFor(Loaded(data), mode).scene \in Scene \cup {NoScene}
    BY <1>1 DEF EventFor, Settings, EventSettings
<1>4. data # NoData
    BY <1>2 DEF Loaded, DefaultSettings
<1>5. data.riskAccepted
    BY <1>2, <1>4 DEF Loaded
<1> QED  BY <1>2, <1>3, <1>4, <1>5

\* The static_assert of display-settings.cpp, for every scene name.
THEOREM SecureDefaults == SecureDefaultsArePreserved
<1> USE DEF Resolve, EventFor, DefaultSettings, BuiltIn
<1> DEFINE image == [DefaultSettings EXCEPT !.sensitive.mode = "CustomImage"]
           path == [image EXCEPT !.sensitive.image = TRUE]
           named(s) == [path EXCEPT !.sensitive.mode = "CustomScene",
                                    !.sensitive.scene = s]
           accepted(s) == [named(s) EXCEPT !.riskAccepted = TRUE]
<1>1. /\ Resolve(DefaultSettings, "Sensitive") = "BuiltInImage"
      /\ Resolve(DefaultSettings, "Disconnected") = "BuiltInImage"
    OBVIOUS
<1>2. /\ Resolve(image, "Sensitive") = "BuiltInImage"
      /\ Resolve(path, "Sensitive") = "CustomImage"
    OBVIOUS
<1>3. ASSUME NEW s \in Scene
      PROVE  /\ Resolve(named(s), "Sensitive") = "BuiltInImage"
             /\ Resolve(accepted(s), "Sensitive") = "CustomScene"
             /\ Resolve(accepted(s), "Safe") = "NormalOutput"
    <2>1. Resolve(named(s), "Sensitive") = "BuiltInImage"
        OBVIOUS
    <2>2. s # NoScene
        BY NamesAssumption
    <2>3. Resolve(accepted(s), "Sensitive") = "CustomScene"
        BY <2>2
    <2>4. Resolve(accepted(s), "Safe") = "NormalOutput"
        OBVIOUS
    <2> QED  BY <2>1, <2>3, <2>4
<1> HIDE DEF Resolve
<1> QED  BY <1>1, <1>2, <1>3 DEF SecureDefaultsArePreserved
=============================================================================
