------------------------------- MODULE MCRoom -------------------------------
(* Instances of RoomSystem. Each scenario leaves some of the page's parts at rest. *)
EXTENDS RoomSystem

Line == {"cut", "answer", "skip"}
Talk == {"answer", "end", "fault"}
Pauses == {"answer", "pause", "end"}
Sound == {"sound", "avatar", "skip", "switch"}
Quieted == {"sound", "switch", "pause"}
Words == {"sound", "answer", "leave"}
Video == {"camera", "end", "leave", "logout", "cut"}

MCScenarios == {Line, Talk, Pauses, Sound, Quieted, Words, Video}
Switched == {{"sound", "switch", "answer"}}
=============================================================================
