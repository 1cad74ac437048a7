----------------------------- MODULE FocusTask -----------------------------
(***************************************************************************)
(* What the worker of the focusing library does with the images of a       *)
(* focusing pass: process_auto_focus_task and st_cache_image               *)
(* (thread_calc_image_clarity.cpp, .h).  FocusWorker models the thread     *)
(* that calls it, one image after the other.                               *)
(*                                                                         *)
(* Each camera's first sharp image is searched for fiber ends; when every  *)
(* camera has some, each of them is a region of its own.  For a region,    *)
(* the sharpest image is looked for, and m_cache_size images on each side  *)
(* of it are kept for the separation of the background.                    *)
(*                                                                         *)
(* A clarity is a natural number, an image its camera and its number.  An  *)
(* image that is too blurred to be searched, and one that comes when the   *)
(* pass has succeeded or failed, changes nothing and is left out.          *)
(***************************************************************************)
EXTENDS Naturals, Sequences, FiniteSets, FiniteSetsExt

CONSTANTS
  CameraIds,          \* m_camera_ids, a sequence of numbers
  CacheSize,          \* m_cache_size, 15 in a pass
  AttenuationThresh,  \* m_attenuation_time_thresh, 20
  ClarityDiffThresh,  \* m_clarity_diff_thresh
  Clarity,            \* the clarities that images have
  MaxEnds,            \* bound: fiber ends of each camera, in their order
  MaxProcessed,       \* bound: images
  MaxFocusPasses      \* bound: passes

ASSUME FocusTaskAssumption ==
  /\ CameraIds \in Seq(Nat)
  /\ CacheSize \in Nat \ {0} /\ AttenuationThresh \in Nat \ {0}
  /\ ClarityDiffThresh \in Nat /\ Clarity \subseteq Nat \ {0}
  /\ MaxEnds \in Seq(Nat) /\ Len(MaxEnds) = Len(CameraIds)
  /\ MaxProcessed \in Nat /\ MaxFocusPasses \in Nat

Camera == {CameraIds[i] : i \in DOMAIN CameraIds}
\* Fiber ends that a camera may have, each with its camera.
End == UNION {{CameraIds[i]} \X (1 .. MaxEnds[i]) : i \in DOMAIN CameraIds}

NoImage == [camera |-> 0, number |-> 0]

VARIABLES
  ends,          \* m_camera_fiber_end: how many each camera has
  positionFail,  \* m_camera_position_fail
  detectFail,    \* m_object_detect_fail
  regions,       \* m_focus_image_claritys, m_attenuation_times, ...
  caches,        \* m_cache_images
  finished,      \* m_finished
  processed,     \* images processed so far
  passes,        \* passes begun
  seen           \* history: for each region, its images and their clarities

passVars == <<ends, positionFail, detectFail, regions, finished, seen>>
taskVars == <<passVars, caches, processed, passes>>

NewRegion == [best |-> 0, declines |-> 0, done |-> FALSE, focus |-> NoImage]
NewCache  == [count |-> 0, index |-> 0, images |-> <<>>]

ClearPass ==
  /\ ends' = [c \in Camera |-> 0]
  /\ positionFail' = [c \in Camera |-> FALSE]
  /\ detectFail' = FALSE
  /\ regions' = <<>>
  /\ finished' = FALSE
  /\ seen' = <<>>

TaskInit ==
  /\ ends = [c \in Camera |-> 0]
  /\ positionFail = [c \in Camera |-> FALSE]
  /\ detectFail = FALSE
  /\ regions = <<>> /\ caches = <<>> /\ seen = <<>>
  /\ finished = FALSE
  /\ processed = 0 /\ passes = 1

\* reset_auto_focus.  The cache is not cleared.
ResetAutoFocus ==
  /\ passes < MaxFocusPasses
  /\ passes' = passes + 1
  /\ ClearPass
  /\ UNCHANGED <<caches, processed>>

-----------------------------------------------------------------------------
(* st_cache_image.                                                         *)

\* Mutant: the oldest image is dropped too early.
AddShort(cache, image, hasFinished) ==
  IF cache.count >= CacheSize THEN cache
  ELSE [cache EXCEPT
    !.count  = IF hasFinished THEN @ + 1 ELSE @,
    !.images = Append(IF Len(@) >= 2 * CacheSize THEN Tail(@) ELSE @, image)]

AddCacheImage(cache, image, hasFinished) ==
  IF cache.count >= CacheSize THEN cache
  ELSE [cache EXCEPT
    !.count  = IF hasFinished THEN @ + 1 ELSE @,
    !.images = Append(IF Len(@) >= 2 * CacheSize + 1 THEN Tail(@) ELSE @,
                      image)]

\* Mutant: the count of the maximum before is kept.
SetIndexOnly(cache, count) == [cache EXCEPT !.index = Len(cache.images)]

SetFinishedCount(cache, count) ==
  [cache EXCEPT !.count = count, !.index = Len(cache.images)]

CacheFinished(cs) == \A r \in DOMAIN cs : cs[r].count >= CacheSize

-----------------------------------------------------------------------------
(* process_auto_focus_task.                                                *)

\* What the image does to a region, and to its cache.
NextRegion(region, image, value) ==
  IF region.done THEN region
  ELSE IF value > region.best
  THEN [region EXCEPT !.best = value, !.declines = 0, !.focus = image]
  ELSE [region EXCEPT
    !.declines = @ + 1,
    !.done = \/ value + ClarityDiffThresh < region.best
             \/ region.declines + 1 >= AttenuationThresh]

NextCache(region, cache, image, value) ==
  IF ~region.done /\ value > region.best
  THEN SetFinishedCount(AddCacheImage(cache, image, FALSE), 0)
  ELSE AddCacheImage(cache, image, TRUE)

\* Mutant: every camera is taken to have one fiber end.
CameraIndexAsStart(located, camera) ==
  Cardinality({c \in Camera : c < camera})

\* get_start_index: the fiber ends of the cameras before this one.
GetStartIndex(located, camera) ==
  Cardinality({e \in End : e[1] < camera /\ e[2] <= located[e[1]]})

AllLocated(located) == \A c \in Camera : located[c] > 0

Total(located) == Cardinality({e \in End : e[2] <= located[e[1]]})

\* The image is compared with what is known of each of its camera's regions.
\* For a region that is done its clarity is not calculated, and stays 0.
Evaluate(camera, located, rs, cs, history) ==
  LET image == [camera |-> camera, number |-> processed + 1]
      start == GetStartIndex(located, camera)
      own   == start + 1 .. start + located[camera]
  IN
  \E value \in [own -> Clarity \cup {0}] :
    /\ \A r \in own : value[r] = 0 <=> rs[r].done
    /\ regions' = [r \in DOMAIN rs |-> IF r \in own
         THEN NextRegion(rs[r], image, value[r]) ELSE rs[r]]
    /\ caches' = [r \in DOMAIN cs |-> IF r \in own
         THEN NextCache(rs[r], cs[r], image, value[r]) ELSE cs[r]]
    /\ seen' = [r \in DOMAIN history |-> IF r \in own
         THEN Append(history[r], [image |-> image, value |-> value[r]])
         ELSE history[r]]
    /\ finished' = CacheFinished(caches')

Takes(camera) ==
  /\ ~finished /\ ~detectFail
  /\ processed < MaxProcessed
  /\ processed' = processed + 1
  /\ UNCHANGED passes

\* Mutant: the first camera without a fiber end is the last one tried.
FailAlone(camera) ==
  /\ Takes(camera)
  /\ ends[camera] = 0 /\ ~positionFail[camera]
  /\ detectFail' = TRUE
  /\ UNCHANGED <<positionFail, ends, regions, caches, finished, seen>>

\* No object is detected in the image, and this camera is not tried again.
\* The pass fails when all of them have.
DetectFails(camera) ==
  /\ Takes(camera)
  /\ ends[camera] = 0 /\ ~positionFail[camera]
  /\ positionFail' = [positionFail EXCEPT ![camera] = TRUE]
  /\ detectFail' = \A c \in Camera : positionFail'[c]
  /\ UNCHANGED <<ends, regions, caches, finished, seen>>

\* The objects that are neither cut off nor out of range, and those predicted
\* between them.  If none is left the next image is searched again.  With the
\* fiber ends of the last camera the regions are set up.
Detect(camera) ==
  /\ Takes(camera)
  /\ ends[camera] = 0 /\ ~positionFail[camera]
  /\ \E n \in {0} \cup {e[2] : e \in {e \in End : e[1] = camera}} :
       /\ ends' = [ends EXCEPT ![camera] = n]
       /\ IF AllLocated(ends')
          THEN LET region == 1 .. Total(ends') IN
               Evaluate(camera, ends', [r \in region |-> NewRegion],
                        [r \in region |-> NewCache], [r \in region |-> <<>>])
          ELSE UNCHANGED <<regions, caches, finished, seen>>
  /\ UNCHANGED <<positionFail, detectFail>>

\* A camera that has its fiber ends waits for the others.
Focus(camera) ==
  /\ Takes(camera)
  /\ AllLocated(ends)
  /\ Evaluate(camera, ends, regions, caches, seen)
  /\ UNCHANGED <<ends, positionFail, detectFail>>

\* The pass has its result, or its images are all processed.
TaskRest ==
  /\ finished \/ detectFail \/ processed = MaxProcessed
     \/ \A c \in Camera : ends[c] > 0 \/ positionFail[c]
  /\ UNCHANGED taskVars

TaskNext ==
  \/ ResetAutoFocus
  \/ \E camera \in Camera : DetectFails(camera) \/ Detect(camera)
                            \/ Focus(camera)
  \/ TaskRest

TaskSpec == TaskInit /\ [][TaskNext]_taskVars

-----------------------------------------------------------------------------
(* The reference: what a pass looks for, said of the whole sequence of a   *)
(* region's images.                                                        *)

Value(r, k) == seen[r][k].value

\* The images that were sharper than every one before them.
Maxima(r) ==
  {k \in DOMAIN seen[r] :
     Value(r, k) > 0 /\ \A j \in 1 .. k - 1 : Value(r, j) < Value(r, k)}

Sharpest(r) == Max(Maxima(r))

\* A maximum that comes when m_cache_size images without one have passed.
LateMaximum(r) ==
  LET maxima == Maxima(r) IN
  \E k \in maxima : k > 1 /\ (k - CacheSize .. k - 1) \cap maxima = {}

\* The m_cache_size images before k and those after it, as far as there are.
Window(r, k) ==
  LET last  == IF k + CacheSize <= Len(seen[r]) THEN k + CacheSize
                                                ELSE Len(seen[r])
      first == IF last > 2 * CacheSize THEN last - 2 * CacheSize ELSE 1
  IN  [n \in 1 .. last - first + 1 |-> seen[r][first + n - 1].image]

(* thread_calc_image_clarity.h:38: the cache holds m_cache_size images     *)
(* before and after the sharpest one, which is the result of the pass (and *)
(* at first more of those before).  Not so after a maximum that came late: *)
(* the cache was closed, and this maximum is not in it.                    *)
WindowAroundFocus ==
  \A r \in DOMAIN regions :
    LET sharpest == Sharpest(r) IN
    seen[r] # <<>> =>
      /\ regions[r].focus = seen[r][sharpest].image
      /\ LateMaximum(r) \/ caches[r].images = Window(r, sharpest)

(* A pass does not succeed before each region has seen m_cache_size images *)
(* that are not sharper than its result: m_finished takes the caches of    *)
(* all regions, and a late maximum opens its cache again.                  *)
FinishedMeansPast ==
  finished =>
    /\ AllLocated(ends)
    /\ \A r \in DOMAIN regions : Len(seen[r]) >= Sharpest(r) + CacheSize

(* The pass is over only when no camera has found a fiber end; but if one  *)
(* camera fails and another does not, there are no regions and no results  *)
(* either, and the pass only ends with its images.                         *)
OneFailureIsAll ==
  /\ detectFail => \A c \in Camera : positionFail[c] /\ ends[c] = 0
  /\ (\E c \in Camera : positionFail[c]) => regions = <<>> /\ ~finished

(* The regions of the cameras share their arrays, and are told apart by    *)
(* the place of the camera's id among the others.  No region is given      *)
(* images of two cameras, and none is left without a camera.               *)
RegionsApart ==
  /\ \A r \in DOMAIN regions : \A i \in DOMAIN caches[r].images :
       caches[r].images[i].camera = caches[r].images[1].camera
  /\ finished => \A r \in DOMAIN regions : caches[r].images # <<>>
=============================================================================
