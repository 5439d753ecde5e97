--------------------------- MODULE CameraAnalysis ---------------------------
(***************************************************************************)
(* behavior/useBehaviorAnalysis.ts with behavior/cameraFeed.ts: start opens *)
(* the camera and the face model over several awaits, stop and the unmount  *)
(* may come at any of them.                                                *)
(***************************************************************************)
EXTENDS Naturals

CONSTANT EnoughFrames   \* frames below which nothing is saved
ASSUME CameraAssumption == EnoughFrames \in Nat \ {0}

VARIABLES camera,    \* start's await and the refs of the hook
          saving     \* saveBehavior requests issued

cameraVars == <<camera, saving>>

(* at: where the one call of start is suspended; tracks: the device, "stranded" *)
(* when nobody refers to the stream any more; frames counts faces up to the     *)
(* number the payload needs.                                                    *)
CameraType ==
  /\ camera \in [at : {"none", "permission", "playing", "model", "weights", "over"},
                 runs : BOOLEAN, held : BOOLEAN, agg : BOOLEAN,
                 tracks : {"off", "live", "stranded"},
                 status : {"idle", "loading-model", "running", "failed"},
                 frames : 0..EnoughFrames]
  /\ saving \in Nat

\* The page calls start once, when it is mounted; here is start up to its first await.
CameraInit(wanted) ==
  /\ camera = [at |-> IF wanted THEN "permission" ELSE "none", runs |-> wanted,
               held |-> FALSE, agg |-> wanted, tracks |-> "off", frames |-> 0,
               status |-> IF wanted THEN "loading-model" ELSE "idle"]
  /\ saving = 0

-----------------------------------------------------------------------------
\* cleanup: stops the stream the hook holds, and only that.
Cleaned(c) ==
  [c EXCEPT !.tracks = IF c.held THEN "off" ELSE @,
            !.held = FALSE, !.agg = FALSE, !.runs = FALSE]

\* getUserMedia grants the camera; startCameraFeed still awaits video.play.
CameraGranted ==
  /\ camera.at = "permission"
  /\ camera' = [camera EXCEPT !.at = "playing", !.tracks = "live"]
  /\ UNCHANGED saving

ResumedAnyway(c, next) == next
\* After an await: go on, or release the tracks when stop came meanwhile.
Resumed(c, next) ==
  IF c.runs THEN next
  ELSE [c EXCEPT !.at = "over", !.tracks = "off", !.held = FALSE]

CameraResume ==
  /\ \/ /\ camera.at = "playing"
        /\ camera' = Resumed(camera, [camera EXCEPT !.at = "model", !.held = TRUE])
     \/ /\ camera.at = "model"
        /\ camera' = Resumed(camera, [camera EXCEPT !.at = "weights"])
     \/ /\ camera.at = "weights"
        /\ camera' = Resumed(camera, [camera EXCEPT !.at = "over", !.status = "running"])
  /\ UNCHANGED saving

\* An await of start throws: denied, no playback, no model. A stream whose
\* playback fails was not handed over yet, so cleanup does not know it.
CameraFails ==
  /\ camera.at \in {"permission", "playing", "model", "weights"}
  /\ camera' = [Cleaned(camera) EXCEPT
                  !.at = "over", !.status = "failed",
                  !.tracks = IF camera.at = "playing" THEN "stranded" ELSE @]
  /\ UNCHANGED saving

\* detect finds a face, or throws and takes the camera down.
CameraFrame ==
  /\ camera.status = "running" /\ camera.runs
  /\ camera' = [camera EXCEPT !.frames = IF @ < EnoughFrames THEN @ + 1 ELSE @]
  /\ UNCHANGED saving
DetectFails ==
  /\ camera.status = "running"
  /\ camera' = [Cleaned(camera) EXCEPT !.status = "failed"]
  /\ UNCHANGED saving

\* stop: cleanup first, then the payload of a run that saw enough is sent.
CameraStop ==
  /\ camera' = [Cleaned(camera) EXCEPT !.status = "idle"]
  /\ saving' = IF camera.runs /\ camera.agg /\ camera.frames >= EnoughFrames
               THEN saving + 1 ELSE saving

\* On unmount the hook's own effect cleans up before the page's effect stops,
\* which then finds nothing running.
CameraUnmount ==
  /\ camera' = [Cleaned(camera) EXCEPT !.status = "idle"]
  /\ UNCHANGED saving

CameraStep == CameraGranted \/ CameraResume \/ CameraFails
=============================================================================
