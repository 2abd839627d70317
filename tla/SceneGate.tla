------------------------------ MODULE SceneGate ------------------------------
(***************************************************************************)
(* The scene admission of the motion owner (SceneAdmissionGate of          *)
(* scene_admission.py): the latest structured scene, the window of         *)
(* observations that were seen, and the decision whether a goal may move   *)
(* under that scene.  Each operation runs under one lock.                  *)
(*                                                                         *)
(* The gate keeps what a scene shows; here it keeps what the policy says   *)
(* of it, which is the same for every goal: all of them name one target.   *)
(* Scenes without an observation id or a session, which are stored but     *)
(* never accepted, are left out.                                           *)
(***************************************************************************)
EXTENDS Integers, SequencesExt, Functions

CONSTANTS
  Observation,   \* observation ids that are not empty
  Session,       \* session ids that are not empty
  NoScene,       \* _snapshot before the first scene
  Picture,       \* what scenes show: [ok, frame, objects]
  NoId,          \* an object_id that is empty
  RequiredFrame, \* _required_frame_id
  Target,        \* target_group of the goals
  MinConfidence, \* _minimum_confidence, in percent
  MaxExtent,     \* _maximum_extent_m, in millimetres
  MaxAge,        \* _max_age_sec, in ticks
  ReplayWindow,  \* _replay_window
  MaxNow,        \* bound on the clock; not in the code
  MaxScenes      \* bound on the scenes that are accepted; not in the code

ASSUME GateAssumption ==
  /\ MaxAge \in Nat /\ MaxNow \in Nat /\ MaxScenes \in Nat
  /\ ReplayWindow \in Nat \ {0}

VARIABLES
  now,       \* time.monotonic(), in ticks
  snapshot,  \* _snapshot
  seen,      \* _seen_order, the ids of _seen_ids from the oldest
  taken      \* history: the ids of all the scenes accepted

gate == <<now, snapshot, seen, taken>>

GateInit ==
  /\ now = 0
  /\ snapshot = NoScene
  /\ seen = << >>
  /\ taken = << >>

(* Mutant: the window holds one id less than it should. *)
Remembered_OneShort(id) ==
  LET all == Append(seen, id)
  IN  IF Len(all) >= ReplayWindow THEN Tail(all) ELSE all

(* The window after one more id: the oldest ones fall out. *)
Remembered(id) ==
  LET all == Append(seen, id)
  IN  IF Len(all) > ReplayWindow THEN Tail(all) ELSE all

(* SceneGeometryPolicy.evaluate and the test of the status before it: the  *)
(* objects are a sequence of [id, label, numbers, confidence, axes], where *)
(* numbers says that all are finite and none negative that must not be,    *)
(* and axes is the set of the three <<centre, size>>                       *)
Sound(picture) ==
  LET object == picture.objects
      targets == {i \in DOMAIN object : object[i].label = Target}
      size(axis) == axis[2]
      reach(axis) == 2 * (IF axis[1] < 0 THEN - axis[1] ELSE axis[1]) + size(axis)
  IN  /\ picture.ok
      /\ picture.frame = RequiredFrame
      /\ \A i \in DOMAIN object : object[i].id # NoId /\ object[i].numbers
      /\ IsInjective([i \in DOMAIN object |-> object[i].id])
      /\ \E t \in targets :
           /\ targets = {t}
           /\ object[t].confidence >= MinConfidence
           /\ \A axis \in object[t].axes :
                size(axis) > 0 /\ reach(axis) <= 2 * MaxExtent

(* update, called by _on_scene_state: an observation in the window leaves  *)
(* everything as it was, its time of arrival included                      *)
Update(id, session, sound) ==
  /\ id \notin Range(seen)
  /\ Len(taken) < MaxScenes
  /\ snapshot' = [id |-> id, session |-> session, sound |-> sound, at |-> now]
  /\ seen' = Remembered(id)
  /\ taken' = Append(taken, id)
  /\ UNCHANGED now

ClockTicks ==
  /\ now < MaxNow
  /\ now' = now + 1
  /\ UNCHANGED <<snapshot, seen, taken>>

(* _evaluate_snapshot, at a time that the caller read *)
Accepted(session, time) ==
  /\ snapshot # NoScene
  /\ snapshot.sound
  /\ snapshot.session = session
  /\ snapshot.at <= time
  /\ time - snapshot.at <= MaxAge
-----------------------------------------------------------------------------
(* The gate remembers: an observation counts again only after ReplayWindow *)
(* others were accepted, so a sender that repeats its last scene, or a few *)
(* of them in turn, cannot keep an old picture of the world fresh.  The    *)
(* window is a queue and a set kept side by side by update.                *)
ReplayIsFenced ==
  \A i, j \in 1 .. Len(taken) :
    i < j /\ taken[i] = taken[j] => j - i > ReplayWindow
=============================================================================
