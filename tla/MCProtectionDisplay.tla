------------------------ MODULE MCProtectionDisplay ------------------------
(* Small instances of ProtectionDisplay for TLC. *)
EXTENDS ProtectionDisplay

CONSTANTS Live, BreakOne, BreakTwo      \* three scenes

InScene(s) == [mode |-> "CustomScene", image |-> FALSE, scene |-> s]
InImage == [mode |-> "CustomImage", image |-> TRUE, scene |-> NoScene]

\* A scene for each event; an image for one of them.
TwoScenes == [sensitive |-> InScene(BreakOne), connection |-> InScene(BreakTwo),
              riskAccepted |-> TRUE]
ImageAndScene == [sensitive |-> InImage, connection |-> InScene(BreakOne),
                  riskAccepted |-> TRUE]

\* A file of the first version, and one with a mode of the future.
FromTheFirst(event) == [event EXCEPT !.hasMode = FALSE, !.legacyScene = TRUE]
OldAndDamaged == [Saved(TwoScenes) EXCEPT !.sensitive = FromTheFirst(@),
                                          !.connection.number = 7]

\* The display knows no difference between Disconnected and the mode at the
\* start, nor between Disabled and Safe.
ThreeModes == {"AwaitingConnection", "Safe", "Sensitive"}

NoChoice == {}
DefaultChoice == {DefaultSettings}
ImageChoice == {ImageAndScene}
NoFile == {NoData}
DamagedFile == {OldAndDamaged}
=============================================================================
