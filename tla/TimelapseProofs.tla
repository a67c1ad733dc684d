--------------------------- MODULE TimelapseProofs ---------------------------
(***************************************************************************)
(* Theorems about timelapse captures, for every number of prints, threads,  *)
(* directories and frames: while the process is up a directory of frames    *)
(* has exactly one owner, and frames that were counted are not deleted but  *)
(* in the cases that FramesKept names.                                      *)
(***************************************************************************)
EXTENDS Timelapse, FiniteSetTheorems, SequenceTheorems, NaturalsInduction, WellFoundedInduction,
        TLAPS

-----------------------------------------------------------------------------
\* Least.

LEMMA LeastIsLeast ==
  ASSUME NEW S, S \subseteq Nat, S # {}
  PROVE  Least(S) \in S /\ \A y \in S : Least(S) <= y
<1>1. \E x \in S : \A y \in S : ~(<<y, x>> \in OpToRel(<, Nat))
  BY WFMin, NatLessThanWellFounded, Zenon
<1>2. \E x \in S : \A y \in S : ~(y < x)
  BY <1>1, Zenon DEF OpToRel
<1> HIDE <1>1
<1>3. \E x \in S : \A y \in S : x <= y
  BY <1>2
<1> QED
  BY <1>3 DEF Least

-----------------------------------------------------------------------------
\* Without: what is left of a sequence, in its order.

\* How many of the first i indices are left; every number up to their count is reached.
LEMMA NthExists ==
  ASSUME NEW S, S \subseteq Nat, IsFiniteSet(S), NEW n \in 1 .. Cardinality(S)
  PROVE  \E i \in S : Cardinality({j \in S : j <= i}) = n
<1> DEFINE Upto(i) == {j \in S : j <= i}
           Reached(k) == \E i \in S : Cardinality(Upto(i)) = k
           Missed == {k \in 1 .. Cardinality(S) : ~Reached(k)}
<1>0. Cardinality(S) \in Nat
  BY FS_CardinalityType
<1>1. SUFFICES ASSUME Missed # {} PROVE FALSE
  OBVIOUS
<1>2. PICK k \in Missed : \A m \in Missed : k <= m
  <2>1. Missed \subseteq Nat
    BY <1>0
  <2> QED
    BY <1>1, <2>1, LeastIsLeast
<1>3. k \in 1 .. Cardinality(S) /\ ~Reached(k)
  BY <1>2
<1>4. PICK T : /\ T \subseteq S /\ IsFiniteSet(T) /\ Cardinality(T) = k - 1
               /\ \A x \in S \ T : \A y \in T : y <= x
  <2>1. CASE k = 1
    <3>1. IsFiniteSet({}) /\ Cardinality({}) = 0
      BY FS_EmptySet
    <3> QED
      BY <2>1, <3>1
  <2>2. CASE k # 1
    <3>1. k - 1 \in 1 .. Cardinality(S) /\ ~(k <= k - 1)
      BY <1>0, <1>3, <2>2
    <3>2. Reached(k - 1)
      BY <1>2, <3>1
    <3>3. PICK i \in S : Cardinality(Upto(i)) = k - 1
      BY <3>2
    <3>4. Upto(i) \subseteq S
      OBVIOUS
    <3>5. IsFiniteSet(Upto(i))
      BY <3>4, FS_Subset
    <3>6. ASSUME NEW x \in S \ Upto(i), NEW y \in Upto(i) PROVE y <= x
      BY <3>6
    <3> QED
      BY <3>3, <3>4, <3>5, <3>6
  <2> QED
    BY <2>1, <2>2
<1>5. S \ T # {}
  <2>1. SUFFICES ASSUME S \ T = {} PROVE FALSE
    OBVIOUS
  <2>2. S = T
    BY <2>1, <1>4
  <2> QED
    BY <2>2, <1>4, <1>3, <1>0
<1> DEFINE x == Least(S \ T)
<1>6. x \in S \ T /\ \A y \in S \ T : x <= y
  BY <1>5, LeastIsLeast
<1> HIDE DEF x
<1>7. Upto(x) = T \cup {x}
  <2>1. ASSUME NEW j \in S, j <= x, j \notin T PROVE j = x
    <3>1. x <= j /\ x \in Nat /\ j \in Nat
      BY <2>1, <1>6
    <3> QED
      BY <3>1, <2>1
  <2>2. \A j \in T \cup {x} : j \in S /\ j <= x
    BY <1>4, <1>6
  <2> QED
    BY <2>1, <2>2
<1>8. Cardinality(T \cup {x}) = k
  <2>1. Cardinality(T \cup {x}) = Cardinality(T) + 1
    BY <1>4, <1>6, FS_AddElement
  <2> QED
    BY <2>1, <1>3, <1>4, <1>0
<1> QED
  BY <1>3, <1>6, <1>7, <1>8

LEMMA WithoutType ==
  ASSUME NEW s \in Seq(Dir), NEW D
  PROVE  Without(s, D) \in Seq(Dir)
<1> DEFINE left == {i \in DOMAIN s : s[i] \notin D}
           Nth(k) == CHOOSE i \in left : Cardinality({j \in left : j <= i}) = k
<1>0. DOMAIN s = 1 .. Len(s) /\ Len(s) \in Nat
  BY LenProperties
<1>1. left \subseteq 1 .. Len(s) /\ left \subseteq Nat
  BY <1>0
<1>2. IsFiniteSet(left) /\ Cardinality(left) \in Nat
  <2>1. IsFiniteSet(1 .. Len(s))
    BY <1>0, FS_Interval
  <2> HIDE DEF left
  <2>2. IsFiniteSet(left)
    BY <1>1, <2>1, FS_Subset
  <2> QED
    BY <2>2, FS_CardinalityType
<1>3. ASSUME NEW k \in 1 .. Cardinality(left) PROVE s[Nth(k)] \in Dir
  <2> HIDE DEF left
  <2>1. \E i \in left : Cardinality({j \in left : j <= i}) = k
    BY <1>1, <1>2, NthExists
  <2>2. Nth(k) \in left
    BY <2>1, Zenon
  <2> QED
    BY <1>0, <1>1, <2>2, ElementOfSeq
<1>4. [k \in 1 .. Cardinality(left) |-> s[Nth(k)]] \in [1 .. Cardinality(left) -> Dir]
  <2> HIDE DEF left, Nth
  <2> QED
    BY <1>3
<1>5. Without(s, D) = [k \in 1 .. Cardinality(left) |-> s[Nth(k)]]
  BY DEF Without
<1> HIDE DEF left, Nth
<1> QED
  BY <1>2, <1>4, <1>5

-----------------------------------------------------------------------------
\* Newest: the last MaxVideos.

LEMMA NewestType ==
  ASSUME NEW s \in Seq(Dir)
  PROVE  Newest(s) \in Seq(Dir)
<1>1. CASE MaxVideos = 0 \/ Len(s) <= MaxVideos
  BY <1>1 DEF Newest
<1>2. CASE ~(MaxVideos = 0 \/ Len(s) <= MaxVideos)
  <2>1. Len(s) \in Nat /\ MaxVideos \in Nat /\ Len(s) > MaxVideos
    BY <1>2, TimelapseAssumption
  <2>2. \A i \in Len(s) - MaxVideos + 1 .. Len(s) : s[i] \in Dir
    BY <2>1
  <2>3. SubSeq(s, Len(s) - MaxVideos + 1, Len(s)) \in Seq(Dir)
    BY <2>1, <2>2, SubSeqProperties
  <2> QED
    BY <1>2, <2>3 DEF Newest
<1> QED
  BY <1>1, <1>2

-----------------------------------------------------------------------------
\* The types, part by part: what an action leaves alone keeps its types.

captureVars == <<capture, resume, timer>>
CaptureType ==
  /\ capture \in Captured /\ resume \in Captured
  /\ \A c \in {capture, resume} : c.dir = NoDir <=> c.file = NoFile
  /\ timer \in [state : {"off", "armed", "fired"}, dir : Dir \cup {NoDir}]
  /\ timer.state = "off" <=> timer.dir = NoDir

loopVars == <<enabled, saves, paused, ref, stop>>
LoopType ==
  /\ enabled \in BOOLEAN /\ saves \in BOOLEAN
  /\ paused \in [auto : BOOLEAN, manual : BOOLEAN]
  /\ ref \in Thread \cup {NoThread} /\ stop \in BOOLEAN

videoVars == <<owns, was, held, light>>
VideoType ==
  /\ owns \in BOOLEAN /\ was \in {"unset", "on", "off"}
  /\ held \in BOOLEAN /\ light \in {"unset", "on", "off"}

callVars == <<op, job, web, offer, up, calls, crashes>>
CallType ==
  /\ op \in [kind : {"none", "start", "finish", "fail"}, file : File \cup {NoFile},
             by : {"mqtt", "web"}, joining : BOOLEAN]
  /\ job \in [file : File \cup {NoFile}, known : BOOLEAN, mayOffer : BOOLEAN]
  /\ web \in [kind : {"none", "start", "stop", "dismiss"}, file : File \cup {NoFile}]
  /\ offer \in BOOLEAN /\ up \in BOOLEAN /\ calls \in 0..MaxCalls /\ crashes \in 0..MaxCrashes
  /\ op.kind = "start" => op.file \in File
  /\ web.kind = "start" => web.file \in File
  /\ job.known => job.file \in File

ThreadType ==
  /\ thread \in [Thread -> [pc : {"idle", "check", "shoot", "shot"}, dir : Dir \cup {NoDir}]]
  /\ \A t \in Thread : thread[t].pc \in {"shoot", "shot"} => thread[t].dir \in Dir

FinalType ==
  final \in [Worker -> [phase : {"idle", "assemble", "archive"}, dir : Dir \cup {NoDir},
                        count : 0..MaxFrames, by : {"mqtt", "web", "own"}, video : BOOLEAN]]

Contents == [where : {"none", "progress", "archived", "gone"},
             file : File \cup {NoFile}, frames : 0..MaxFrames]
DiskType ==
  /\ disk \in [Dir -> Contents]
  /\ \A d \in Dir : disk[d].where = "progress" => disk[d].file \in File

shelfVars == <<videos, newer>>
ShelfType == videos \in Seq(Dir) /\ newer \subseteq {p \in Dir \X Dir : p[1] # p[2]}

Types ==
  /\ CaptureType /\ LoopType /\ VideoType /\ CallType
  /\ ThreadType /\ FinalType /\ DiskType /\ ShelfType

LEMMA InvParts == CaptureInv <=> Types /\ OwnerInv
BY DEF CaptureInv, TypeOK, FileInv, Types, CaptureType, LoopType, VideoType, CallType, ThreadType,
       FinalType, Contents, DiskType, ShelfType

LEMMA InvPartsNext == CaptureInv' <=> Types' /\ OwnerInv'
BY DEF CaptureInv, TypeOK, FileInv, Types, CaptureType, LoopType, VideoType, CallType, ThreadType,
       FinalType, Contents, DiskType, ShelfType

LEMMA TypesStay ==
  ASSUME Types
  PROVE  /\ UNCHANGED captureVars => CaptureType'
         /\ UNCHANGED loopVars => LoopType'
         /\ UNCHANGED videoVars => VideoType'
         /\ UNCHANGED callVars => CallType'
         /\ UNCHANGED thread => ThreadType'
         /\ UNCHANGED final => FinalType'
         /\ UNCHANGED disk => DiskType'
         /\ UNCHANGED shelfVars => ShelfType'
<1>1. UNCHANGED captureVars => CaptureType'
  BY DEF Types, captureVars, CaptureType
<1>2. UNCHANGED loopVars => LoopType'
  BY DEF Types, loopVars, LoopType
<1>3. UNCHANGED videoVars => VideoType'
  BY DEF Types, videoVars, VideoType
<1>4. UNCHANGED callVars => CallType'
  BY DEF Types, callVars, CallType
<1>5. UNCHANGED thread => ThreadType'
  BY DEF Types, ThreadType
<1>6. UNCHANGED final => FinalType'
  BY DEF Types, FinalType
<1>7. UNCHANGED disk => DiskType'
  BY DEF Types, DiskType
<1>8. UNCHANGED shelfVars => ShelfType'
  BY DEF Types, shelfVars, ShelfType
<1> QED
  BY <1>1, <1>2, <1>3, <1>4, <1>5, <1>6, <1>7, <1>8

LEMMA Directories == NoDir = 0 /\ NoDir \notin Dir /\ Dir \subseteq Nat /\ Nothing \in Captured
BY TimelapseAssumption DEF NoDir, Dir, Nothing, Captured

-----------------------------------------------------------------------------
\* What the shared pieces do.

LEMMA UnpauseForgets ==
  ASSUME Types, Unpause
  PROVE  paused' \in [auto : BOOLEAN, manual : BOOLEAN]
BY DEF Unpause

LEMMA ForgetForgets ==
  ASSUME Types, Forget
  PROVE  /\ resume' = Nothing
         /\ timer' \in [state : {"off", "armed", "fired"}, dir : Dir \cup {NoDir}]
         /\ timer'.state = "off" <=> timer'.dir = NoDir
BY DEF Forget, Cancelled, Types, CaptureType

LEMMA ReleaseType ==
  ASSUME Types, Release
  PROVE  VideoType'
BY DEF Release, Types, VideoType

LEMMA PrepareType ==
  ASSUME Types, NEW source, Prepare(source)
  PROVE  VideoType'
BY DEF Prepare, Types, VideoType

LEMMA SpawnType ==
  ASSUME Types, Spawn
  PROVE  /\ ThreadType'
         /\ ref' \in Thread \cup {NoThread} /\ stop' \in BOOLEAN
<1>1. Least(IdleThreads) \in Thread
  <2>1. IdleThreads \subseteq Nat /\ IdleThreads # {} /\ IdleThreads \subseteq Thread
    BY TimelapseAssumption DEF Spawn, IdleThreads
  <2> QED
    BY <2>1, LeastIsLeast
<1> QED
  BY <1>1 DEF Spawn, Types, ThreadType

\* A thread that was idle has directory d now; the others have what they had.
LEMMA FinalisingEffect ==
  ASSUME Types, NEW d \in Dir, NEW n \in 0..MaxFrames, NEW by \in {"mqtt", "web", "own"},
         Finalising(d, n, by)
  PROVE  /\ FinalType'
         /\ \E w \in Worker : /\ ~Busy(w) /\ Busy(w)' /\ final'[w].dir = d
                              /\ \A v \in Worker \ {w} : final'[v] = final[v]
<1>1. Least(IdleWorkers) \in Worker /\ ~Busy(Least(IdleWorkers))
  <2>1. IdleWorkers \subseteq Nat /\ IdleWorkers # {}
    BY TimelapseAssumption DEF Finalising, IdleWorkers
  <2>2. Least(IdleWorkers) \in IdleWorkers
    BY <2>1, LeastIsLeast
  <2> QED
    BY <2>2 DEF IdleWorkers
<1>w. PICK w : w = Least(IdleWorkers)
  OBVIOUS
<1> DEFINE new == [phase |-> "assemble", dir |-> d, count |-> n, by |-> by, video |-> FALSE]
           Rec == [phase : {"idle", "assemble", "archive"}, dir : Dir \cup {NoDir},
                   count : 0..MaxFrames, by : {"mqtt", "web", "own"}, video : BOOLEAN]
<1>2. /\ final' = [final EXCEPT ![w] = new]
      /\ new \in Rec /\ new.dir = d /\ new.phase = "assemble"
      /\ final \in [Worker -> Rec]
  BY <1>w DEF Finalising, Types, FinalType
<1> HIDE DEF new, Rec
<1>3. w \in Worker /\ ~Busy(w)
  BY <1>1, <1>w
<1>4. FinalType'
  BY <1>2, <1>3 DEF FinalType, Rec
<1>5. Busy(w)' /\ final'[w].dir = d /\ \A v \in Worker \ {w} : final'[v] = final[v]
  BY <1>2, <1>3 DEF Busy
<1> QED
  BY <1>3, <1>4, <1>5

LEMMA GoneEffect ==
  ASSUME Types, NEW D
  PROVE  /\ Gone(D) \in [Dir -> Contents]
         /\ \A d \in Dir : /\ Gone(D)[d].file = disk[d].file
                           /\ Gone(D)[d].where = IF d \in D THEN "gone" ELSE disk[d].where
BY Directories DEF Gone, Types, DiskType, Contents

LEMMA GoneType ==
  ASSUME Types, NEW D, disk' = Gone(D)
  PROVE  /\ DiskType'
         /\ \A d \in Dir : disk'[d].where = IF d \in D THEN "gone" ELSE disk[d].where
BY GoneEffect DEF Types, DiskType

LEMMA TouchedType ==
  ASSUME Types, NEW d \in Dir
  PROVE  Touched(d) \subseteq {p \in Dir \X Dir : p[1] # p[2]}
BY DEF Touched, Types, ShelfType

LEMMA PrunedEffect ==
  ASSUME NEW on \in [Dir -> Contents], NEW order
  PROVE  /\ Pruned(on, order) \in [Dir -> Contents]
         /\ \A d \in Dir : /\ Pruned(on, order)[d].file = on[d].file
                           /\ Pruned(on, order)[d].where =
                                IF on[d].where = "archived" /\ Outnumbered(d, on, order)
                                  THEN "gone" ELSE on[d].where
BY DEF Pruned, Contents

LEMMA NewDir ==
  ASSUME Types, NewDirs # {}
  PROVE  Least(NewDirs) \in Dir /\ disk[Least(NewDirs)].where = "none"
<1>1. NewDirs \subseteq Nat
  BY Directories DEF NewDirs
<1>2. Least(NewDirs) \in NewDirs
  BY <1>1, LeastIsLeast
<1> QED
  BY <1>2 DEF NewDirs

-----------------------------------------------------------------------------
\* Who has which directory.

\* An action that moves no directory from one owner to another.
LEMMA OwnersStay ==
  ASSUME OwnerInv, up, up', capture'.dir = capture.dir, resume'.dir = resume.dir,
         \A w \in Worker : (Busy(w)' <=> Busy(w)) /\ final'[w].dir = final[w].dir,
         \A d \in Dir : disk'[d].where = "progress" <=> disk[d].where = "progress"
  PROVE  OwnerInv'
BY DEF OwnerInv, Assembled

LEMMA NobodyWhileDown ==
  ASSUME OwnerInv
  PROVE  /\ op.kind # "none" => up
         /\ timer.state # "off" => up
         /\ \A w \in Worker : Busy(w) => up
         /\ \A t \in Thread : thread[t].pc # "idle" => up
BY DEF OwnerInv, NoOp
\* Nothing that an owner has, and no directory, is touched.
Quiet == UNCHANGED <<captureVars, thread, final, disk, up>>

LEMMA QuietKeepsOwners ==
  ASSUME OwnerInv, Quiet, up \/ UNCHANGED op
  PROVE  OwnerInv'
BY DEF OwnerInv, Quiet, captureVars, Assembled, Busy

-----------------------------------------------------------------------------
\* A call takes the lock.

OpType(o) ==
  /\ o \in [kind : {"none", "start", "finish", "fail"}, file : File \cup {NoFile},
            by : {"mqtt", "web"}, joining : BOOLEAN]
  /\ o.kind = "start" => o.file \in File

LEMMA BeginEffect ==
  ASSUME Types, NEW kind \in {"start", "finish", "fail"}, NEW f \in File \cup {NoFile},
         kind = "start" => f \in File, NEW by \in {"mqtt", "web"}, Begin(kind, f, by)
  PROVE  /\ OpType(op') /\ LoopType' /\ up
         /\ UNCHANGED <<captureVars, videoVars, thread, final, disk, shelfVars>>
<1>1. op' = [kind |-> kind, file |-> f, by |-> by,
             joining |-> Alive /\ ~(kind = "start" /\ Continues(f))]
  BY DEF Begin
<1>2. (Alive /\ ~(kind = "start" /\ Continues(f))) \in BOOLEAN
  BY DEF Alive, Continues
<1>3. OpType(op')
  BY <1>1, <1>2 DEF OpType
<1>4. LoopType'
  <2>1. stop' = (stop \/ op'.joining) /\ UNCHANGED <<enabled, saves, paused, ref>>
    BY DEF Begin
  <2>2. stop' \in BOOLEAN
    BY <2>1, Zenon
  <2> QED
    BY <2>1, <2>2 DEF Types, LoopType
<1>5. UNCHANGED <<captureVars, videoVars, thread, final, disk, shelfVars>> /\ up
  BY DEF Begin, captureVars, videoVars, shelfVars, threads, world
<1> QED
  BY <1>3, <1>4, <1>5

\* A call that may take the lock, and changes nothing else.
LEMMA AskingKeepsInv ==
  ASSUME CaptureInv, Quiet, UNCHANGED <<videoVars, shelfVars>>, LoopType', CallType',
         up \/ UNCHANGED op
  PROVE  CaptureInv'
<1>0. Types /\ OwnerInv
  BY InvParts
<1>1. CaptureType' /\ VideoType' /\ ThreadType' /\ FinalType' /\ DiskType' /\ ShelfType'
  BY <1>0, TypesStay DEF Quiet
<1>2. OwnerInv'
  BY <1>0, QuietKeepsOwners
<1> QED
  BY <1>1, <1>2, InvPartsNext DEF Types

LEMMA PrintSeenKeeps ==
  ASSUME CaptureInv, NEW f \in File, PrintSeen(f)
  PROVE  CaptureInv'
<1>0. Types /\ OwnerInv
  BY InvParts
<1>1. /\ job' = [file |-> f, known |-> TRUE, mayOffer |-> FALSE] /\ offer' \in BOOLEAN
      /\ up /\ UNCHANGED <<web, up, crashes, calls>>
      /\ Begin("start", f, "mqtt") \/ UNCHANGED <<service, threads, world, op>>
  BY DEF PrintSeen
<1>2. CASE Begin("start", f, "mqtt")
  <2>1. /\ OpType(op') /\ LoopType'
        /\ UNCHANGED <<captureVars, videoVars, thread, final, disk, shelfVars>>
    BY <1>0, <1>2, BeginEffect
  <2>2. CallType'
    BY <1>0, <1>1, <2>1 DEF Types, CallType, OpType
  <2> QED
    BY <1>1, <2>1, <2>2, AskingKeepsInv DEF Quiet
<1>3. CASE UNCHANGED <<service, threads, world, op>>
  <2>1. UNCHANGED <<captureVars, loopVars, videoVars, thread, final, disk, shelfVars, op>>
    BY <1>3 DEF service, threads, world, captureVars, loopVars, videoVars, shelfVars
  <2>2. CallType'
    BY <1>0, <1>1, <2>1 DEF Types, CallType
  <2>3. LoopType'
    BY <1>0, <2>1, TypesStay
  <2> QED
    BY <1>1, <2>1, <2>2, <2>3, AskingKeepsInv DEF Quiet
<1> QED
  BY <1>1, <1>2, <1>3

LEMMA PrintEndsKeeps ==
  ASSUME CaptureInv, NEW kind \in {"finish", "fail"}, PrintEnds(kind)
  PROVE  CaptureInv'
<1>0. Types /\ OwnerInv
  BY InvParts
<1>1. /\ job' = NoJob /\ offer' = FALSE /\ up /\ UNCHANGED <<web, up, crashes, calls>>
      /\ Begin(kind, NoFile, "mqtt") \/ UNCHANGED <<service, threads, world, op>>
  BY DEF PrintEnds
<1>2. CASE Begin(kind, NoFile, "mqtt")
  <2>1. /\ OpType(op') /\ LoopType'
        /\ UNCHANGED <<captureVars, videoVars, thread, final, disk, shelfVars>>
    BY <1>0, <1>2, BeginEffect
  <2>2. CallType'
    BY <1>0, <1>1, <2>1 DEF Types, CallType, OpType, NoJob
  <2> QED
    BY <1>1, <2>1, <2>2, AskingKeepsInv DEF Quiet
<1>3. CASE UNCHANGED <<service, threads, world, op>>
  <2>1. UNCHANGED <<captureVars, loopVars, videoVars, thread, final, disk, shelfVars, op>>
    BY <1>3 DEF service, threads, world, captureVars, loopVars, videoVars, shelfVars
  <2>2. CallType'
    BY <1>0, <1>1, <2>1 DEF Types, CallType, NoJob
  <2>3. LoopType'
    BY <1>0, <2>1, TypesStay
  <2> QED
    BY <1>1, <2>1, <2>2, <2>3, AskingKeepsInv DEF Quiet
<1> QED
  BY <1>1, <1>2, <1>3

LEMMA PrintUnseenKeeps ==
  ASSUME CaptureInv, PrintUnseen
  PROVE  CaptureInv'
<1>0. Types /\ OwnerInv
  BY InvParts
<1>1. UNCHANGED <<captureVars, loopVars, videoVars, thread, final, disk, shelfVars, op, up>>
  BY DEF PrintUnseen, service, threads, world, captureVars, loopVars, videoVars, shelfVars
<1>2. CallType'
  BY <1>0 DEF PrintUnseen, Types, CallType
<1>3. LoopType'
  BY <1>0, <1>1, TypesStay
<1> QED
  BY <1>1, <1>2, <1>3, AskingKeepsInv DEF Quiet

LEMMA AutoPauseKeeps ==
  ASSUME CaptureInv, AutoPause
  PROVE  CaptureInv'
<1>0. Types /\ OwnerInv
  BY InvParts
<1>1. /\ UNCHANGED <<captureVars, videoVars, thread, final, disk, shelfVars, up>>
      /\ UNCHANGED <<enabled, saves, ref, stop, op, job, offer, web, up, crashes>>
      /\ calls < MaxCalls /\ calls' = calls + 1
      /\ paused' = [paused EXCEPT !.auto = ~paused.auto]
  BY DEF AutoPause, threads, world, mqtt, captureVars, videoVars, shelfVars
<1>2. CallType'
  BY <1>0, <1>1, TimelapseAssumption DEF Types, CallType
<1>3. LoopType'
  BY <1>0, <1>1 DEF Types, LoopType
<1> QED
  BY <1>1, <1>2, <1>3, AskingKeepsInv DEF Quiet

LEMMA ManualPauseKeeps ==
  ASSUME CaptureInv, ManualPause
  PROVE  CaptureInv'
<1>0. Types /\ OwnerInv
  BY InvParts
<1>1. /\ UNCHANGED <<captureVars, videoVars, thread, final, disk, shelfVars, up>>
      /\ UNCHANGED <<enabled, saves, ref, stop, op, job, offer, web, up, crashes>>
      /\ calls < MaxCalls /\ calls' = calls + 1
      /\ paused' = [paused EXCEPT !.manual = ~paused.manual]
  BY DEF ManualPause, threads, world, mqtt, captureVars, videoVars, shelfVars
<1>2. CallType'
  BY <1>0, <1>1, TimelapseAssumption DEF Types, CallType
<1>3. LoopType'
  BY <1>0, <1>1 DEF Types, LoopType
<1> QED
  BY <1>1, <1>2, <1>3, AskingKeepsInv DEF Quiet

LEMMA ReloadKeeps ==
  ASSUME CaptureInv, Reload
  PROVE  CaptureInv'
<1>0. Types /\ OwnerInv
  BY InvParts
<1>1. /\ UNCHANGED <<captureVars, videoVars, thread, final, disk, shelfVars, up>>
      /\ UNCHANGED <<paused, ref, stop, op, job, offer, web, up, crashes>>
      /\ calls < MaxCalls /\ calls' = calls + 1
      /\ enabled' \in BOOLEAN /\ saves' \in BOOLEAN
  BY DEF Reload, threads, world, mqtt, captureVars, videoVars, shelfVars
<1>2. CallType'
  BY <1>0, <1>1, TimelapseAssumption DEF Types, CallType
<1>3. LoopType'
  BY <1>0, <1>1 DEF Types, LoopType
<1> QED
  BY <1>1, <1>2, <1>3, AskingKeepsInv DEF Quiet

LEMMA RouteKeeps ==
  ASSUME CaptureInv, NEW kind \in {"start", "stop", "dismiss"}, Route(kind)
  PROVE  CaptureInv'
<1>0. Types /\ OwnerInv
  BY InvParts
<1>1. /\ UNCHANGED <<captureVars, loopVars, videoVars, thread, final, disk, shelfVars, up>>
      /\ UNCHANGED <<op, job, up, crashes>>
      /\ calls < MaxCalls /\ calls' = calls + 1 /\ offer' = FALSE
      /\ web' = [kind |-> kind, file |-> job.file] /\ (kind = "start" => job.known)
  BY DEF Route, service, threads, world, captureVars, loopVars, videoVars, shelfVars
<1>2. CallType'
  <2>1. /\ web' \in [kind : {"none", "start", "stop", "dismiss"}, file : File \cup {NoFile}]
        /\ web'.kind = "start" => web'.file \in File
    BY <1>0, <1>1 DEF Types, CallType
  <2>2. calls' \in 0..MaxCalls
    BY <1>0, <1>1, TimelapseAssumption DEF Types, CallType
  <2> QED
    BY <1>0, <1>1, <2>1, <2>2 DEF Types, CallType
<1>3. LoopType'
  BY <1>0, <1>1, TypesStay
<1> QED
  BY <1>1, <1>2, <1>3, AskingKeepsInv DEF Quiet

\* The join ends, or is given up: the reference to the thread goes.
LEMMA JoinKeeps ==
  ASSUME CaptureInv, JoinEnds \/ JoinTimesOut
  PROVE  CaptureInv'
<1>0. Types /\ OwnerInv
  BY InvParts
<1>1. /\ UNCHANGED <<captureVars, videoVars, thread, final, disk, shelfVars, up>>
      /\ UNCHANGED <<enabled, saves, paused, stop, job, offer, web, up, crashes>>
      /\ op.joining /\ op' = [op EXCEPT !.joining = FALSE] /\ ref' = NoThread
      /\ UNCHANGED calls \/ (calls < MaxCalls /\ calls' = calls + 1)
  <2>1. CASE JoinEnds
    BY <2>1 DEF JoinEnds, threads, world, mqtt, captureVars, videoVars, shelfVars
  <2>2. CASE JoinTimesOut
    BY <2>2 DEF JoinTimesOut, threads, world, mqtt, captureVars, videoVars, shelfVars
  <2> QED
    BY <2>1, <2>2
<1>2. CallType'
  <2>1. calls' \in 0..MaxCalls
    BY <1>0, <1>1, TimelapseAssumption DEF Types, CallType
  <2> QED
    BY <1>0, <1>1, <2>1 DEF Types, CallType
<1>3. LoopType'
  BY <1>0, <1>1 DEF Types, LoopType
<1>4. up
  BY <1>0, <1>1 DEF OwnerInv, NoOp
<1> QED
  BY <1>1, <1>2, <1>3, <1>4, AskingKeepsInv DEF Quiet
LEMMA ReconnectKeeps ==
  ASSUME CaptureInv, Reconnect
  PROVE  CaptureInv'
<1>0. Types /\ OwnerInv
  BY InvParts
<1>1. /\ UNCHANGED <<captureVars, thread, final, disk, shelfVars>>
      /\ UNCHANGED <<enabled, saves, ref, stop, op, web, up, crashes>>
      /\ up /\ calls < MaxCalls /\ calls' = calls + 1 /\ offer' = FALSE
      /\ job' = [job EXCEPT !.known = FALSE, !.mayOffer = TRUE]
      /\ paused' = [paused EXCEPT !.auto = FALSE]
      /\ Release \/ UNCHANGED videoVars
  BY DEF Reconnect, threads, captureVars, videoVars, shelfVars
<1>2. CallType'
  <2>1. calls' \in 0..MaxCalls
    BY <1>0, <1>1, TimelapseAssumption DEF Types, CallType
  <2> QED
    BY <1>0, <1>1, <2>1 DEF Types, CallType
<1>3. LoopType'
  BY <1>0, <1>1 DEF Types, LoopType
<1>4. VideoType'
  BY <1>0, <1>1, ReleaseType, TypesStay
<1>5. CaptureType' /\ ThreadType' /\ FinalType' /\ DiskType' /\ ShelfType'
  BY <1>0, <1>1, TypesStay
<1>6. OwnerInv'
  BY <1>0, <1>1, QuietKeepsOwners DEF Quiet
<1> QED
  BY <1>2, <1>3, <1>4, <1>5, <1>6, InvPartsNext DEF Types

-----------------------------------------------------------------------------
\* The capture threads, and the timer.

LEMMA LoopEndsKeeps ==
  ASSUME CaptureInv, NEW t \in Thread, LoopEnds(t)
  PROVE  CaptureInv'
<1>0. Types /\ OwnerInv
  BY InvParts
<1>1. /\ UNCHANGED <<captureVars, videoVars, callVars, final, disk, shelfVars, op, up>>
      /\ UNCHANGED <<enabled, saves, paused, stop>> /\ ref' = NoThread
      /\ thread[t].pc = "check" /\ thread' = [thread EXCEPT ![t] = Asleep]
  BY DEF LoopEnds, threadElse, mqtt, captureVars, videoVars, callVars, shelfVars
<1>2. ThreadType'
  BY <1>0, <1>1 DEF Types, ThreadType, Asleep
<1>3. LoopType'
  BY <1>0, <1>1 DEF Types, LoopType
<1>4. CaptureType' /\ VideoType' /\ CallType' /\ FinalType' /\ DiskType' /\ ShelfType'
  BY <1>0, <1>1, TypesStay
<1>5. up
  BY <1>0, <1>1, NobodyWhileDown
<1>6. OwnerInv'
  BY <1>0, <1>1, <1>5, OwnersStay DEF captureVars, Busy
<1> QED
  BY <1>2, <1>3, <1>4, <1>6, InvPartsNext DEF Types

LEMMA AimKeeps ==
  ASSUME CaptureInv, NEW t \in Thread, Aim(t) \/ ShotFails(t)
  PROVE  CaptureInv'
<1>0. Types /\ OwnerInv
  BY InvParts
<1>1. /\ UNCHANGED <<captureVars, loopVars, videoVars, callVars, final, disk, videos, op, up>>
      /\ thread[t].pc # "idle"
  BY DEF Aim, ShotFails, threadElse, mqtt, captureVars, loopVars, videoVars, callVars
<1>2. ThreadType' /\ ShelfType'
  <2>1. CASE Aim(t)
    <3>1. capture.dir \in Dir /\ Moves(t, "shoot", capture.dir) /\ UNCHANGED newer
      BY <1>0, <2>1 DEF Aim, Types, CaptureType, Captured
    <3> QED
      BY <1>0, <1>1, <3>1 DEF Types, ThreadType, ShelfType, Moves
  <2>2. CASE ShotFails(t)
    <3>1. thread[t].dir \in Dir
      BY <1>0, <2>2 DEF ShotFails, Types, ThreadType
    <3>2. Moves(t, "check", NoDir) /\ newer' \in {newer, Touched(thread[t].dir)}
      BY <2>2 DEF ShotFails
    <3>3. ThreadType'
      BY <1>0, <3>2 DEF Types, ThreadType, Moves
    <3>4. newer' \subseteq {p \in Dir \X Dir : p[1] # p[2]}
      BY <1>0, <3>1, <3>2, TouchedType DEF Types, ShelfType
    <3> QED
      BY <1>0, <1>1, <3>3, <3>4 DEF Types, ShelfType
  <2> QED
    BY <2>1, <2>2
<1>3. CaptureType' /\ LoopType' /\ VideoType' /\ CallType' /\ FinalType' /\ DiskType'
  BY <1>0, <1>1, TypesStay
<1>4. up
  BY <1>0, <1>1, NobodyWhileDown
<1>5. OwnerInv'
  BY <1>0, <1>1, <1>4, OwnersStay DEF captureVars, Busy
<1> QED
  BY <1>2, <1>3, <1>5, InvPartsNext DEF Types

LEMMA ShootKeeps ==
  ASSUME CaptureInv, NEW t \in Thread, Shoot(t)
  PROVE  CaptureInv'
<1>0. Types /\ OwnerInv
  BY InvParts
<1>d. PICK d \in Dir : d = thread[t].dir
  BY <1>0 DEF Shoot, Types, ThreadType
<1>1. /\ UNCHANGED <<captureVars, loopVars, videoVars, callVars, final, videos, op, up>>
      /\ thread[t].pc # "idle" /\ Moves(t, "shot", d) /\ newer' = Touched(d)
      /\ disk[d].frames < MaxFrames /\ disk' = [disk EXCEPT ![d].frames = disk[d].frames + 1]
  BY <1>d DEF Shoot, threadElse, mqtt, captureVars, loopVars, videoVars, callVars
<1>2. ThreadType'
  BY <1>0, <1>1 DEF Types, ThreadType, Moves
<1>3. DiskType' /\ \A x \in Dir : disk'[x].where = disk[x].where
  <2>1. disk[d].frames + 1 \in 0..MaxFrames
    BY <1>0, <1>1, TimelapseAssumption DEF Types, DiskType, Contents
  <2> QED
    BY <1>0, <1>1, <2>1 DEF Types, DiskType, Contents
<1>4. CaptureType' /\ LoopType' /\ VideoType' /\ CallType' /\ FinalType'
  BY <1>0, <1>1, TypesStay
<1>5. ShelfType'
  BY <1>0, <1>1, TouchedType DEF Types, ShelfType
<1>6. up
  BY <1>0, <1>1, NobodyWhileDown
<1>7. OwnerInv'
  BY <1>0, <1>1, <1>3, <1>6, OwnersStay DEF captureVars, Busy
<1> QED
  BY <1>2, <1>3, <1>4, <1>5, <1>7, InvPartsNext DEF Types

LEMMA CountKeeps ==
  ASSUME CaptureInv, NEW t \in Thread, Count(t)
  PROVE  CaptureInv'
<1>0. Types /\ OwnerInv
  BY InvParts
<1>1. /\ UNCHANGED <<resume, timer, loopVars, videoVars, callVars, final, disk, shelfVars, op, up>>
      /\ thread[t].pc # "idle" /\ Moves(t, "check", NoDir)
      /\ capture' = [capture EXCEPT !.count =
                       IF capture.count < MaxFrames THEN capture.count + 1 ELSE capture.count]
  BY DEF Count, threadElse, mqtt, loopVars, videoVars, callVars, shelfVars
<1>2. ThreadType'
  BY <1>0, <1>1 DEF Types, ThreadType, Moves
<1>3. CaptureType' /\ capture'.dir = capture.dir
  <2>1. (IF capture.count < MaxFrames THEN capture.count + 1 ELSE capture.count) \in 0..MaxFrames
    BY <1>0, TimelapseAssumption DEF Types, CaptureType, Captured
  <2>2. /\ capture' \in Captured /\ capture'.dir = capture.dir /\ capture'.file = capture.file
    BY <1>0, <1>1, <2>1 DEF Types, CaptureType, Captured
  <2> QED
    BY <1>0, <1>1, <2>2 DEF Types, CaptureType
<1>4. LoopType' /\ VideoType' /\ CallType' /\ FinalType' /\ DiskType' /\ ShelfType'
  BY <1>0, <1>1, TypesStay
<1>5. up
  BY <1>0, <1>1, NobodyWhileDown
<1>6. OwnerInv'
  BY <1>0, <1>1, <1>3, <1>5, OwnersStay DEF Busy
<1> QED
  BY <1>2, <1>3, <1>4, <1>6, InvPartsNext DEF Types

LEMMA TimerFiresKeeps ==
  ASSUME CaptureInv, TimerFires
  PROVE  CaptureInv'
<1>0. Types /\ OwnerInv
  BY InvParts
<1>1. /\ UNCHANGED <<capture, resume, loopVars, videoVars, callVars, thread, final, disk>>
      /\ UNCHANGED <<shelfVars, op, up>>
      /\ timer.state = "armed" /\ timer' = [timer EXCEPT !.state = "fired"]
  BY DEF TimerFires, threads, world, mqtt, loopVars, videoVars, callVars, shelfVars
<1>2. CaptureType'
  BY <1>0, <1>1 DEF Types, CaptureType
<1>3. /\ LoopType' /\ VideoType' /\ CallType' /\ ThreadType' /\ FinalType' /\ DiskType'
      /\ ShelfType'
  BY <1>0, <1>1, TypesStay
<1>4. up
  BY <1>0, <1>1, NobodyWhileDown
<1>5. OwnerInv'
  BY <1>0, <1>1, <1>4, OwnersStay DEF Busy
<1> QED
  BY <1>2, <1>3, <1>5, InvPartsNext DEF Types

-----------------------------------------------------------------------------
\* What is on the shelf: deletions by the user, a snapshot, a video.

LEMMA DeleteVideoKeeps ==
  ASSUME CaptureInv, NEW d \in Dir, DeleteVideo(d)
  PROVE  CaptureInv'
<1>0. Types /\ OwnerInv
  BY InvParts
<1>1. /\ UNCHANGED <<captureVars, loopVars, videoVars, thread, final>>
      /\ UNCHANGED <<op, job, offer, web, up, crashes>>
      /\ up /\ calls < MaxCalls /\ calls' = calls + 1
      /\ videos' = Without(videos, {d}) /\ UNCHANGED newer
      /\ disk' = IF disk[d].where = "archived" THEN Gone({d}) ELSE disk
  BY DEF DeleteVideo, service, threads, mqtt, captureVars, loopVars, videoVars
<1>2. ShelfType'
  BY <1>0, <1>1, WithoutType DEF Types, ShelfType
<1>3. DiskType' /\ \A x \in Dir : disk'[x].where = "progress" <=> disk[x].where = "progress"
  BY <1>0, <1>1, GoneType, TypesStay
<1>4. CallType'
  BY <1>0, <1>1, TimelapseAssumption DEF Types, CallType
<1>5. CaptureType' /\ LoopType' /\ VideoType' /\ ThreadType' /\ FinalType'
  BY <1>0, <1>1, TypesStay
<1>6. OwnerInv'
  BY <1>0, <1>1, <1>3, OwnersStay DEF captureVars, Busy
<1> QED
  BY <1>2, <1>3, <1>4, <1>5, <1>6, InvPartsNext DEF Types

LEMMA DeleteSnapshotKeeps ==
  ASSUME CaptureInv, NEW d \in Dir, DeleteSnapshot(d)
  PROVE  CaptureInv'
<1>0. Types /\ OwnerInv
  BY InvParts
<1>1. /\ UNCHANGED <<captureVars, loopVars, videoVars, thread, final>>
      /\ UNCHANGED <<op, job, offer, web, up, crashes>>
      /\ up /\ calls < MaxCalls /\ calls' = calls + 1
      /\ UNCHANGED videos /\ disk[d].where = "archived"
      /\ newer' \in {newer, Touched(d)}
      /\ \/ disk[d].frames > 1 /\ disk' = [disk EXCEPT ![d].frames = disk[d].frames - 1]
         \/ disk' = Gone({d})
  BY DEF DeleteSnapshot, service, threads, mqtt, captureVars, loopVars, videoVars
<1>2. ShelfType'
  BY <1>0, <1>1, TouchedType DEF Types, ShelfType
<1>3. DiskType' /\ \A x \in Dir : disk'[x].where = "progress" <=> disk[x].where = "progress"
  <2>1. CASE disk' = Gone({d})
    BY <1>0, <1>1, <2>1, GoneType
  <2>2. CASE disk[d].frames > 1 /\ disk' = [disk EXCEPT ![d].frames = disk[d].frames - 1]
    <3>1. disk[d].frames - 1 \in 0..MaxFrames
      BY <1>0, <2>2, TimelapseAssumption DEF Types, DiskType, Contents
    <3> QED
      BY <1>0, <2>2, <3>1 DEF Types, DiskType, Contents
  <2> QED
    BY <1>1, <2>1, <2>2
<1>4. CallType'
  BY <1>0, <1>1, TimelapseAssumption DEF Types, CallType
<1>5. CaptureType' /\ LoopType' /\ VideoType' /\ ThreadType' /\ FinalType'
  BY <1>0, <1>1, TypesStay
<1>6. OwnerInv'
  BY <1>0, <1>1, <1>3, OwnersStay DEF captureVars, Busy
<1> QED
  BY <1>2, <1>3, <1>4, <1>5, <1>6, InvPartsNext DEF Types

LEMMA RoomForOne == ASSUME Types, Room PROVE NewDirs # {}
<1>1. IsFiniteSet({x \in {op.kind, web.kind} : x = "start"})
  <2>1. {x \in {op.kind, web.kind} : x = "start"} \in SUBSET {"start"}
    OBVIOUS
  <2>2. IsFiniteSet({"start"})
    BY FS_Singleton
  <2> QED
    BY <2>1, <2>2, FS_Subset
<1>2. Cardinality({x \in {op.kind, web.kind} : x = "start"}) \in Nat
  BY <1>1, FS_CardinalityType
<1>3. Cardinality({}) = 0
  BY FS_EmptySet
<1> QED
  BY <1>2, <1>3 DEF Room

LEMMA ManualSnapshotKeeps ==
  ASSUME CaptureInv, ManualSnapshot
  PROVE  CaptureInv'
<1>0. Types /\ OwnerInv
  BY InvParts
<1>d. PICK d \in Dir : d = Least(NewDirs) /\ disk[d].where = "none"
  BY <1>0, RoomForOne, NewDir DEF ManualSnapshot
<1> DEFINE on == [disk EXCEPT ![d] = [where |-> "archived", file |-> NoFile, frames |-> 1]]
<1>1. /\ UNCHANGED <<captureVars, loopVars, videoVars, thread, final>>
      /\ UNCHANGED <<op, job, offer, web, up, crashes>>
      /\ up /\ calls < MaxCalls /\ calls' = calls + 1
      /\ UNCHANGED videos /\ newer' = Touched(d) /\ disk' = Pruned(on, Touched(d))
  BY <1>d DEF ManualSnapshot, service, threads, mqtt, captureVars, loopVars, videoVars
<1>2. ShelfType'
  BY <1>0, <1>1, TouchedType DEF Types, ShelfType
<1>3. DiskType' /\ \A x \in Dir : disk'[x].where = "progress" <=> disk[x].where = "progress"
  <2>1. /\ on \in [Dir -> Contents]
        /\ \A x \in Dir : on[x].where = "progress" <=> disk[x].where = "progress"
        /\ \A x \in Dir : x # d => on[x] = disk[x]
    BY <1>0, <1>d, TimelapseAssumption DEF Types, DiskType, Contents
  <2> HIDE DEF on
  <2>2. /\ disk' \in [Dir -> Contents]
        /\ \A x \in Dir : /\ disk'[x].file = on[x].file
                          /\ disk'[x].where = "progress" <=> on[x].where = "progress"
    BY <1>1, <2>1, PrunedEffect
  <2> QED
    BY <1>0, <1>d, <2>1, <2>2 DEF Types, DiskType
<1>4. CallType'
  BY <1>0, <1>1, TimelapseAssumption DEF Types, CallType
<1>5. CaptureType' /\ LoopType' /\ VideoType' /\ ThreadType' /\ FinalType'
  BY <1>0, <1>1, TypesStay
<1>6. OwnerInv'
  BY <1>0, <1>1, <1>3, OwnersStay DEF captureVars, Busy
<1> QED
  BY <1>2, <1>3, <1>4, <1>5, <1>6, InvPartsNext DEF Types

LEMMA AssembleKeeps ==
  ASSUME CaptureInv, NEW w \in Worker, Assemble(w)
  PROVE  CaptureInv'
<1>0. Types /\ OwnerInv
  BY InvParts
<1>1. /\ UNCHANGED <<captureVars, loopVars, videoVars, callVars, thread, newer, op, up>>
      /\ final[w].phase = "assemble"
  BY DEF Assemble, finalElse, service, mqtt, captureVars, loopVars, videoVars, callVars
<1>2. final[w].dir \in Dir
  BY <1>0, <1>1 DEF OwnerInv, Busy
<1>3. PICK made \in BOOLEAN :
        LET all == IF made THEN Append(videos, final[w].dir) ELSE videos
            old == ToSet(all) \ ToSet(Newest(all))
        IN  /\ Goes(w, "archive", made)
            /\ IF final[w].count < 2 THEN UNCHANGED <<videos, disk>>
               ELSE videos' = Newest(all) /\ disk' = Gone({d \in old : disk[d].where = "archived"})
  BY <1>0 DEF Assemble, Types, LoopType
<1>a. PICK all \in Seq(Dir) :
        all = IF made THEN Append(videos, final[w].dir) ELSE videos
  <2>1. videos \in Seq(Dir) /\ Append(videos, final[w].dir) \in Seq(Dir)
    BY <1>0, <1>2, AppendProperties DEF Types, ShelfType
  <2> QED
    BY <2>1
<1>4. /\ Goes(w, "archive", made)
      /\ \/ UNCHANGED <<videos, disk>>
         \/ /\ videos' = Newest(all)
            /\ \E old : disk' = Gone({d \in old : disk[d].where = "archived"})
  BY <1>3, <1>a
<1>5. Newest(all) \in Seq(Dir)
  BY NewestType
<1>7. ShelfType'
  <2>1. videos' \in Seq(Dir)
    BY <1>0, <1>4, <1>5 DEF Types, ShelfType
  <2> QED
    BY <1>0, <1>1, <2>1 DEF Types, ShelfType
<1>8. DiskType' /\ \A x \in Dir : disk'[x].where = "progress" <=> disk[x].where = "progress"
  <2>1. CASE UNCHANGED disk
    BY <1>0, <2>1, TypesStay
  <2>2. CASE \E old : disk' = Gone({d \in old : disk[d].where = "archived"})
    <3>1. PICK old : disk' = Gone({d \in old : disk[d].where = "archived"})
      BY <2>2
    <3> QED
      BY <1>0, <3>1, GoneType
  <2> QED
    BY <1>4, <2>1, <2>2
<1>9. FinalType' /\ \A v \in Worker : (Busy(v)' <=> Busy(v)) /\ final'[v].dir = final[v].dir
  <2>1. final' = [final EXCEPT ![w].phase = "archive", ![w].video = made]
    BY <1>4 DEF Goes
  <2>2. FinalType'
    BY <1>0, <2>1 DEF Types, FinalType
  <2>3. \A v \in Worker : (Busy(v)' <=> Busy(v)) /\ final'[v].dir = final[v].dir
    BY <1>0, <1>1, <2>1 DEF Types, FinalType, Busy
  <2> QED
    BY <2>2, <2>3
<1>10. CaptureType' /\ LoopType' /\ VideoType' /\ CallType' /\ ThreadType'
  BY <1>0, <1>1, TypesStay
<1>11. up
  BY <1>0, <1>1, NobodyWhileDown DEF Busy
<1>12. OwnerInv'
  BY <1>0, <1>1, <1>8, <1>9, <1>11, OwnersStay DEF captureVars
<1> QED
  BY <1>7, <1>8, <1>9, <1>10, <1>12, InvPartsNext DEF Types
-----------------------------------------------------------------------------
\* Directories change hands.  What an owner has handed over, or let go, it has no longer; only
\* a directory that was there for nobody is taken anew.

\* The capture's directory goes to a thread, and the pending one is deleted.
LEMMA HandOver ==
  ASSUME Types, OwnerInv, up, up', resume'.dir = NoDir, capture.dir \in Dir,
         capture'.dir = NoDir \/ (capture'.dir \in Dir /\ disk[capture'.dir].where = "none"),
         \E w \in Worker : /\ ~Busy(w) /\ Busy(w)' /\ final'[w].dir = capture.dir
                           /\ \A v \in Worker \ {w} : final'[v] = final[v],
         \A d \in Dir : disk'[d].where = "progress" <=>
           d = capture'.dir \/ (d # resume.dir /\ disk[d].where = "progress")
  PROVE  OwnerInv'
<1>w. PICK w \in Worker : /\ ~Busy(w) /\ Busy(w)' /\ final'[w].dir = capture.dir
                           /\ \A v \in Worker \ {w} : final'[v] = final[v]
  OBVIOUS
<1>1. \A v \in Worker \ {w} : (Busy(v)' <=> Busy(v)) /\ final'[v].dir = final[v].dir
  BY <1>w DEF Busy
<1>2. \A d \in Dir : Assembled(d)' <=> d = capture.dir \/ Assembled(d)
  BY <1>w, <1>1 DEF Assembled
<1>3. /\ \A d \in Dir : disk[d].where = "progress" <=>
           capture.dir = d \/ resume.dir = d \/ Assembled(d)
      /\ capture.dir = NoDir \/ resume.dir = NoDir
      /\ \A d \in Dir : Assembled(d) => d \notin {capture.dir, resume.dir}
  BY DEF OwnerInv
<1>4. \A d \in Dir : disk'[d].where = "progress" <=>
        capture'.dir = d \/ resume'.dir = d \/ Assembled(d)'
  <2> SUFFICES ASSUME NEW d \in Dir
               PROVE  disk'[d].where = "progress" <=>
                        capture'.dir = d \/ resume'.dir = d \/ Assembled(d)'
    OBVIOUS
  <2>1. resume'.dir # d /\ (d = capture.dir => d # resume.dir)
    BY <1>3, Directories
  <2>2. disk[d].where = "progress" <=> capture.dir = d \/ resume.dir = d \/ Assembled(d)
    BY <1>3
  <2>3. Assembled(d)' <=> d = capture.dir \/ Assembled(d)
    BY <1>2
  <2>4. Assembled(d) => d # resume.dir
    BY <1>3
  <2> QED
    BY <2>1, <2>2, <2>3, <2>4
<1>5. \A d \in Dir : Assembled(d)' => d \notin {capture'.dir, resume'.dir}
  BY <1>2, <1>3, Directories
<1>6. \A v \in Worker : Busy(v)' => final'[v].dir \in Dir
  BY <1>w, <1>1 DEF OwnerInv
<1>7. \A u, v \in Worker : Busy(u)' /\ Busy(v)' /\ final'[u].dir = final'[v].dir => u = v
  <2>1. \A v \in Worker : Busy(v) => final[v].dir # capture.dir
    BY <1>3 DEF Assembled
  <2>2. \A u, v \in Worker : Busy(u) /\ Busy(v) /\ final[u].dir = final[v].dir => u = v
    BY DEF OwnerInv
  <2> QED
    BY <1>w, <1>1, <2>1, <2>2
<1> QED
  BY <1>4, <1>5, <1>6, <1>7 DEF OwnerInv

\* The capture's directory is deleted, if there is one, and so is the pending one.
LEMMA LetGo ==
  ASSUME Types, OwnerInv, up, up', resume'.dir = NoDir, UNCHANGED final,
         capture'.dir = NoDir \/ (capture'.dir \in Dir /\ disk[capture'.dir].where = "none"),
         \A d \in Dir : disk'[d].where = "progress" <=>
           d = capture'.dir \/ (d \notin {resume.dir, capture.dir} /\ disk[d].where = "progress")
  PROVE  OwnerInv'
BY Directories DEF OwnerInv, Assembled, Busy

\* The pending directory is deleted; a capture goes on.
LEMMA DropResume ==
  ASSUME Types, OwnerInv, up, up', resume'.dir = NoDir, UNCHANGED <<capture, final>>,
         \A d \in Dir : disk'[d].where = "progress" <=>
           d # resume.dir /\ disk[d].where = "progress"
  PROVE  OwnerInv'
BY Directories DEF OwnerInv, Assembled, Busy

LEMMA NothingIsNoDir == Nothing.dir = NoDir /\ Nothing.file = NoFile
BY DEF Nothing

\* A call that held the lock returns.
LEMMA ReturnType ==
  ASSUME Types, op' = NoOp, UNCHANGED <<mqtt, web, up, crashes, calls>>
  PROVE  CallType'
BY DEF Types, CallType, NoOp, mqtt

LEMMA StartNewEffect ==
  ASSUME Types, OwnerInv, up, up', NewDirs # {}, op.file \in File, StartNew(op.file),
         resume' = Nothing
  PROVE  /\ capture' \in Captured /\ capture'.dir # NoDir /\ capture'.file \in File
         /\ FinalType' /\ DiskType' /\ OwnerInv'
         /\ newer' \subseteq {p \in Dir \X Dir : p[1] # p[2]}
<1>1. PICK d \in Dir :
        /\ disk[d].where = "none"
        /\ capture' = [dir |-> d, file |-> op.file, count |-> 0] /\ newer' = Touched(d)
        /\ IF capture.dir # NoDir /\ capture.count > 0
             THEN /\ Finalising(capture.dir, capture.count, op.by)
                  /\ disk' = [Gone({resume.dir}) EXCEPT ![d] =
                                [where |-> "progress", file |-> op.file, frames |-> 0]]
             ELSE /\ UNCHANGED final
                  /\ disk' = [Gone({resume.dir, capture.dir}) EXCEPT ![d] =
                                [where |-> "progress", file |-> op.file, frames |-> 0]]
  BY NewDir DEF StartNew
<1>2. capture' \in Captured /\ capture'.dir = d /\ d # NoDir /\ capture'.file \in File
  BY <1>1, Directories, TimelapseAssumption DEF Captured
<1>n. /\ capture'.dir = NoDir \/ (capture'.dir \in Dir /\ disk[capture'.dir].where = "none")
      /\ resume'.dir = NoDir
  BY <1>1, <1>2, NothingIsNoDir
<1>3. /\ capture.dir \in Dir \cup {NoDir} /\ capture.count \in 0..MaxFrames
      /\ op.by \in {"mqtt", "web"}
  BY DEF Types, CaptureType, Captured, CallType
<1> DEFINE new == [where |-> "progress", file |-> op.file, frames |-> 0]
<1>4. new \in Contents /\ new.where = "progress" /\ new.file \in File
  BY TimelapseAssumption DEF Contents
<1> HIDE DEF new
<1>5. ASSUME NEW D, disk' = [Gone(D) EXCEPT ![d] = new]
      PROVE  /\ DiskType'
             /\ \A x \in Dir : disk'[x].where = "progress" <=>
                  x = d \/ (x \notin D /\ disk[x].where = "progress")
  BY <1>4, <1>5, GoneEffect DEF Types, DiskType
<1>o. newer' \subseteq {p \in Dir \X Dir : p[1] # p[2]}
  BY <1>1, TouchedType
<1>6. CASE capture.dir # NoDir /\ capture.count > 0
  <2>1. capture.dir \in Dir /\ Finalising(capture.dir, capture.count, op.by)
    BY <1>1, <1>3, <1>6
  <2>2. /\ FinalType'
        /\ \E w \in Worker : /\ ~Busy(w) /\ Busy(w)' /\ final'[w].dir = capture.dir
                             /\ \A v \in Worker \ {w} : final'[v] = final[v]
    BY <1>3, <2>1, FinalisingEffect
  <2>3. /\ DiskType'
        /\ \A x \in Dir : disk'[x].where = "progress" <=>
             x = d \/ (x \notin {resume.dir} /\ disk[x].where = "progress")
    BY <1>1, <1>5, <1>6 DEF new
  <2>4. OwnerInv'
    <3>1. \A x \in Dir : disk'[x].where = "progress" <=>
            x = capture'.dir \/ (x # resume.dir /\ disk[x].where = "progress")
      BY <1>2, <2>3
    <3> QED
      BY <1>n, <2>1, <2>2, <3>1, HandOver
  <2> QED
    BY <1>2, <1>o, <2>2, <2>3, <2>4
<1>7. CASE ~(capture.dir # NoDir /\ capture.count > 0)
  <2>1. FinalType' /\ UNCHANGED final
    BY <1>1, <1>7, TypesStay
  <2>2. /\ DiskType'
        /\ \A x \in Dir : disk'[x].where = "progress" <=>
             x = d \/ (x \notin {resume.dir, capture.dir} /\ disk[x].where = "progress")
    BY <1>1, <1>5, <1>7 DEF new
  <2>3. OwnerInv'
    <3>1. \A x \in Dir : disk'[x].where = "progress" <=>
            x = capture'.dir \/ (x \notin {resume.dir, capture.dir} /\ disk[x].where = "progress")
      BY <1>2, <2>2
    <3> QED
      BY <1>n, <2>1, <3>1, LetGo
  <2> QED
    BY <1>2, <1>o, <2>1, <2>2, <2>3
<1> QED
  BY <1>6, <1>7

LEMMA StartBodyKeeps ==
  ASSUME CaptureInv, StartBody
  PROVE  CaptureInv'
<1>0. Types /\ OwnerInv
  BY InvParts
<1>s. PICK source \in Sources :
        /\ Prepare(source)
        /\ IF Continues(op.file)
             THEN /\ IF Alive THEN UNCHANGED <<ref, thread, stop>> ELSE Spawn
                  /\ UNCHANGED <<capture, resume, timer, disk, newer, final>>
             ELSE /\ Spawn /\ Forget
                  /\ IF resume.dir # NoDir /\ resume.file = op.file
                       THEN capture' = resume /\ UNCHANGED <<disk, newer, final>>
                       ELSE NewDirs # {} /\ StartNew(op.file)
  BY DEF StartBody
<1>1. /\ op.kind = "start" /\ op' = NoOp /\ Unpause
      /\ UNCHANGED <<enabled, saves, videos, mqtt, web, up, crashes, calls>>
  BY DEF StartBody, Working
<1>2. up /\ op.file \in File
  BY <1>0, <1>1, NobodyWhileDown DEF Types, CallType
<1>3. CallType' /\ VideoType'
  BY <1>0, <1>1, <1>s, ReturnType, PrepareType
<1>4. ThreadType' /\ LoopType'
  <2>1. Spawn \/ UNCHANGED <<ref, thread, stop>>
    BY <1>s
  <2>2. ThreadType' /\ ref' \in Thread \cup {NoThread} /\ stop' \in BOOLEAN
    BY <1>0, <2>1, SpawnType, TypesStay DEF Types, LoopType
  <2>3. paused' \in [auto : BOOLEAN, manual : BOOLEAN]
    BY <1>0, <1>1, UnpauseForgets
  <2> QED
    BY <1>0, <1>1, <2>2, <2>3 DEF Types, LoopType
<1>5. CaptureType' /\ FinalType' /\ DiskType' /\ OwnerInv' /\ ShelfType'
  <2>1. CASE Continues(op.file)
    <3>1. UNCHANGED <<capture, resume, timer, disk, newer, final>>
      BY <1>s, <2>1
    <3>2. CaptureType' /\ FinalType' /\ DiskType' /\ ShelfType'
      BY <1>0, <1>1, <3>1, TypesStay DEF captureVars, shelfVars
    <3>3. OwnerInv'
      BY <1>0, <1>1, <1>2, <3>1, OwnersStay DEF Busy
    <3> QED
      BY <3>2, <3>3
  <2>2. CASE ~Continues(op.file) /\ resume.dir # NoDir /\ resume.file = op.file
    <3>1. capture' = resume /\ Forget /\ UNCHANGED <<disk, newer, final>>
      BY <1>s, <2>2
    <3>2. resume' = Nothing
      BY <3>1 DEF Forget
    <3>3. CaptureType'
      BY <1>0, <3>1, ForgetForgets, NothingIsNoDir, Directories DEF Types, CaptureType
    <3>4. FinalType' /\ DiskType' /\ ShelfType'
      BY <1>0, <1>1, <3>1, TypesStay DEF shelfVars
    <3>5. OwnerInv'
      BY <1>0, <1>1, <1>2, <2>2, <3>1, <3>2, NothingIsNoDir, Directories
         DEF OwnerInv, Assembled, Busy
    <3> QED
      BY <3>3, <3>4, <3>5
  <2>3. CASE ~Continues(op.file) /\ ~(resume.dir # NoDir /\ resume.file = op.file)
    <3>1. NewDirs # {} /\ StartNew(op.file) /\ Forget
      BY <1>s, <2>3
    <3>2. resume' = Nothing
      BY <3>1 DEF Forget
    <3>3. /\ capture' \in Captured /\ capture'.dir # NoDir /\ capture'.file \in File
          /\ FinalType' /\ DiskType' /\ OwnerInv'
          /\ newer' \subseteq {p \in Dir \X Dir : p[1] # p[2]}
      BY <1>0, <1>1, <1>2, <3>1, <3>2, StartNewEffect
    <3>4. CaptureType'
      BY <1>0, <3>1, <3>3, ForgetForgets, NothingIsNoDir, Directories, TimelapseAssumption
         DEF CaptureType
    <3>5. ShelfType'
      BY <1>0, <1>1, <3>3 DEF Types, ShelfType
    <3> QED
      BY <3>3, <3>4, <3>5
  <2> QED
    BY <2>1, <2>2, <2>3
<1> QED
  BY <1>3, <1>4, <1>5, InvPartsNext DEF Types

\* The end of a capture: handed over if it has frames, deleted if not.
LEMMA EndEffect ==
  ASSUME Types, OwnerInv, up, up', NEW by \in {"mqtt", "web", "own"},
         capture' = Nothing, Forget,
         \/ /\ capture.dir # NoDir /\ capture.count > 0
            /\ Finalising(capture.dir, capture.count, by) /\ disk' = Gone({resume.dir})
         \/ UNCHANGED final /\ disk' = Gone({resume.dir, capture.dir})
  PROVE  CaptureType' /\ FinalType' /\ DiskType' /\ OwnerInv'
<1>1. capture'.dir = NoDir /\ resume' = Nothing /\ resume'.dir = NoDir
  BY NothingIsNoDir DEF Forget
<1>2. CaptureType'
  BY <1>1, ForgetForgets, NothingIsNoDir, Directories DEF CaptureType
<1>3. CASE /\ capture.dir # NoDir /\ capture.count > 0
           /\ Finalising(capture.dir, capture.count, by) /\ disk' = Gone({resume.dir})
  <2>1. capture.dir \in Dir /\ capture.count \in 0..MaxFrames
    BY <1>3 DEF Types, CaptureType, Captured
  <2>2. /\ FinalType'
        /\ \E w \in Worker : /\ ~Busy(w) /\ Busy(w)' /\ final'[w].dir = capture.dir
                             /\ \A v \in Worker \ {w} : final'[v] = final[v]
    BY <1>3, <2>1, FinalisingEffect
  <2>3. /\ DiskType'
        /\ \A d \in Dir : disk'[d].where = IF d \in {resume.dir} THEN "gone" ELSE disk[d].where
    BY <1>3, GoneType
  <2>4. OwnerInv'
    BY <1>1, <2>1, <2>2, <2>3, HandOver, Directories
  <2> QED
    BY <1>2, <2>2, <2>3, <2>4
<1>4. CASE UNCHANGED final /\ disk' = Gone({resume.dir, capture.dir})
  <2>1. FinalType'
    BY <1>4, TypesStay
  <2>2. /\ DiskType'
        /\ \A d \in Dir : disk'[d].where =
             IF d \in {resume.dir, capture.dir} THEN "gone" ELSE disk[d].where
    BY <1>4, GoneType
  <2>3. OwnerInv'
    BY <1>1, <1>4, <2>2, LetGo, Directories
  <2> QED
    BY <1>2, <2>1, <2>2, <2>3
<1> QED
  BY <1>3, <1>4

LEMMA FinishBodyKeeps ==
  ASSUME CaptureInv, FinishBody
  PROVE  CaptureInv'
<1>0. Types /\ OwnerInv
  BY InvParts
<1>1. /\ op.kind = "finish" /\ op' = NoOp /\ Unpause
      /\ UNCHANGED <<enabled, saves, ref, stop, thread, videos, newer>>
      /\ UNCHANGED <<mqtt, web, up, crashes, calls>>
  BY DEF FinishBody, Working
<1>2. up
  BY <1>0, <1>1, NobodyWhileDown
<1>3. CallType' /\ ShelfType' /\ ThreadType'
  BY <1>0, <1>1, ReturnType, TypesStay DEF shelfVars
<1>4. LoopType'
  BY <1>0, <1>1, UnpauseForgets DEF Types, LoopType
<1>5. \/ /\ Forget /\ Release /\ capture' = Nothing
         /\ \/ /\ capture.dir # NoDir /\ capture.count > 0
               /\ Finalising(capture.dir, capture.count, "own") /\ disk' = Gone({resume.dir})
            \/ UNCHANGED final /\ disk' = Gone({resume.dir, capture.dir})
      \/ /\ Release \/ UNCHANGED <<held, light, owns, was>>
         /\ UNCHANGED <<capture, resume, timer, final, disk>>
  BY DEF FinishBody
<1>6. VideoType'
  BY <1>0, <1>5, ReleaseType, TypesStay DEF videoVars
<1>7. CaptureType' /\ FinalType' /\ DiskType' /\ OwnerInv'
  <2>1. CASE UNCHANGED <<capture, resume, timer, final, disk>>
    <3>1. CaptureType' /\ FinalType' /\ DiskType'
      BY <1>0, <2>1, TypesStay DEF captureVars
    <3>2. OwnerInv'
      BY <1>0, <1>1, <1>2, <2>1, OwnersStay DEF Busy
    <3> QED
      BY <3>1, <3>2
  <2>2. CASE ~(UNCHANGED <<capture, resume, timer, final, disk>>)
    BY <1>0, <1>1, <1>2, <1>5, <2>2, EndEffect
  <2> QED
    BY <2>1, <2>2
<1> QED
  BY <1>3, <1>4, <1>6, <1>7, InvPartsNext DEF Types

LEMMA FailBodyKeeps ==
  ASSUME CaptureInv, FailBody
  PROVE  CaptureInv'
<1>0. Types /\ OwnerInv
  BY InvParts
<1>1. /\ op.kind = "fail" /\ op' = NoOp /\ Unpause /\ Forget /\ Release /\ capture' = Nothing
      /\ UNCHANGED <<enabled, saves, ref, stop, thread, videos, newer>>
      /\ UNCHANGED <<mqtt, web, up, crashes, calls>>
      /\ \/ /\ capture.dir # NoDir /\ capture.count > 0
            /\ Finalising(capture.dir, capture.count, op.by) /\ disk' = Gone({resume.dir})
         \/ UNCHANGED final /\ disk' = Gone({resume.dir, capture.dir})
  BY DEF FailBody, Working
<1>2. up /\ op.by \in {"mqtt", "web", "own"}
  BY <1>0, <1>1, NobodyWhileDown DEF Types, CallType
<1>3. CallType' /\ ShelfType' /\ ThreadType' /\ VideoType'
  BY <1>0, <1>1, ReturnType, ReleaseType, TypesStay DEF shelfVars
<1>4. LoopType'
  BY <1>0, <1>1, UnpauseForgets DEF Types, LoopType
<1>5. CaptureType' /\ FinalType' /\ DiskType' /\ OwnerInv'
  BY <1>0, <1>1, <1>2, EndEffect
<1> QED
  BY <1>3, <1>4, <1>5, InvPartsNext DEF Types
-----------------------------------------------------------------------------
\* A pending capture is assembled, discarded or deleted.

LEMMA TimerRunsKeeps ==
  ASSUME CaptureInv, TimerRuns
  PROVE  CaptureInv'
<1>0. Types /\ OwnerInv
  BY InvParts
<1>1. /\ timer.state = "fired" /\ up /\ timer' = [state |-> "off", dir |-> NoDir]
      /\ \/ UNCHANGED <<resume, final>>
         \/ /\ resume.dir = timer.dir /\ resume' = Nothing
            /\ Finalising(resume.dir, resume.count, "own")
      /\ UNCHANGED <<capture, loopVars, videoVars, callVars, thread, disk, shelfVars, op, up>>
  BY DEF TimerRuns, world, mqtt, loopVars, videoVars, callVars, shelfVars
<1>2. CaptureType'
  BY <1>0, <1>1, NothingIsNoDir, Directories DEF Types, CaptureType
<1>3. LoopType' /\ VideoType' /\ CallType' /\ ThreadType' /\ DiskType' /\ ShelfType'
  BY <1>0, <1>1, TypesStay
<1>4. CASE UNCHANGED <<resume, final>>
  <2>1. FinalType'
    BY <1>0, <1>4, TypesStay
  <2>2. OwnerInv'
    BY <1>0, <1>1, <1>4, OwnersStay DEF Busy
  <2> QED
    BY <1>2, <1>3, <2>1, <2>2, InvPartsNext DEF Types
<1>5. CASE /\ resume.dir = timer.dir /\ resume' = Nothing
           /\ Finalising(resume.dir, resume.count, "own")
  <2>1. resume.dir \in Dir /\ resume.count \in 0..MaxFrames
    BY <1>0, <1>1, <1>5 DEF Types, CaptureType, Captured
  <2>2. /\ FinalType'
        /\ \E w \in Worker : /\ ~Busy(w) /\ Busy(w)' /\ final'[w].dir = resume.dir
                             /\ \A v \in Worker \ {w} : final'[v] = final[v]
    BY <1>0, <1>5, <2>1, FinalisingEffect
  <2>3. PICK w \in Worker : /\ ~Busy(w) /\ Busy(w)' /\ final'[w].dir = resume.dir
                             /\ \A v \in Worker \ {w} : final'[v] = final[v]
    BY <2>2
  <2>4. \A v \in Worker \ {w} : (Busy(v)' <=> Busy(v)) /\ final'[v].dir = final[v].dir
    BY <2>3 DEF Busy
  <2>5. \A d \in Dir : Assembled(d)' <=> d = resume.dir \/ Assembled(d)
    BY <2>3, <2>4 DEF Assembled
  <2>6. /\ \A d \in Dir : disk[d].where = "progress" <=>
             capture.dir = d \/ resume.dir = d \/ Assembled(d)
        /\ capture.dir = NoDir \/ resume.dir = NoDir
        /\ \A d \in Dir : Assembled(d) => d \notin {capture.dir, resume.dir}
    BY <1>0, <1>1 DEF OwnerInv
  <2>7. capture'.dir = NoDir /\ resume'.dir = NoDir /\ UNCHANGED disk
    BY <1>1, <1>5, <2>1, <2>6, NothingIsNoDir, Directories
  <2>8. /\ \A d \in Dir : disk'[d].where = "progress" <=>
             capture'.dir = d \/ resume'.dir = d \/ Assembled(d)'
        /\ \A d \in Dir : Assembled(d)' => d \notin {capture'.dir, resume'.dir}
    BY <2>1, <2>5, <2>6, <2>7, Directories
  <2>9. \A v \in Worker : Busy(v)' => final'[v].dir \in Dir
    BY <1>0, <2>1, <2>3, <2>4 DEF OwnerInv
  <2>10. \A u, v \in Worker : Busy(u)' /\ Busy(v)' /\ final'[u].dir = final'[v].dir => u = v
    <3>1. \A v \in Worker : Busy(v) => final[v].dir # resume.dir
      BY <2>1, <2>6 DEF Assembled
    <3>2. \A u, v \in Worker : Busy(u) /\ Busy(v) /\ final[u].dir = final[v].dir => u = v
      BY <1>0 DEF OwnerInv
    <3> QED
      BY <2>3, <2>4, <3>1, <3>2
  <2>11. OwnerInv'
    BY <1>1, <2>7, <2>8, <2>9, <2>10 DEF OwnerInv
  <2> QED
    BY <1>2, <1>3, <2>2, <2>11, InvPartsNext DEF Types
<1> QED
  BY <1>1, <1>4, <1>5

\* The pending capture is given up.
LEMMA GivenUpEffect ==
  ASSUME Types, OwnerInv, up, up', Unpause, Forget, Release, disk' = Gone({resume.dir}),
         UNCHANGED <<enabled, saves, capture, ref, stop, threads>>
  PROVE  /\ CaptureType' /\ LoopType' /\ VideoType' /\ ThreadType' /\ FinalType' /\ DiskType'
         /\ OwnerInv'
<1>1. resume' = Nothing /\ resume'.dir = NoDir /\ UNCHANGED <<thread, final>>
  BY NothingIsNoDir DEF Forget, threads
<1>2. CaptureType'
  BY <1>1, ForgetForgets, NothingIsNoDir, Directories DEF Types, CaptureType
<1>3. LoopType'
  BY UnpauseForgets DEF Types, LoopType
<1>4. VideoType' /\ ThreadType' /\ FinalType'
  BY <1>1, ReleaseType, TypesStay
<1>5. /\ DiskType'
      /\ \A d \in Dir : disk'[d].where = IF d \in {resume.dir} THEN "gone" ELSE disk[d].where
  BY GoneType
<1>6. OwnerInv'
  BY <1>1, <1>5, DropResume
<1> QED
  BY <1>2, <1>3, <1>4, <1>5, <1>6

LEMMA DeleteCollectionKeeps ==
  ASSUME CaptureInv, NEW d \in Dir, DeleteCollection(d)
  PROVE  CaptureInv'
<1>0. Types /\ OwnerInv
  BY InvParts
<1>1. /\ up /\ calls < MaxCalls /\ calls' = calls + 1
      /\ UNCHANGED <<mqtt, op, web, up, crashes>>
  BY DEF DeleteCollection
<1>2. CallType'
  <2>1. calls' \in 0..MaxCalls
    BY <1>0, <1>1, TimelapseAssumption DEF Types, CallType
  <2> QED
    BY <1>0, <1>1, <2>1 DEF Types, CallType, mqtt
<1>3. CASE /\ resume.dir = d /\ Unpause /\ Forget /\ Release /\ disk' = Gone({d})
           /\ UNCHANGED <<enabled, saves, capture, ref, stop, threads, videos, newer>>
  <2>1. /\ CaptureType' /\ LoopType' /\ VideoType' /\ ThreadType' /\ FinalType' /\ DiskType'
        /\ OwnerInv'
    BY <1>0, <1>1, <1>3, GivenUpEffect
  <2>2. ShelfType'
    BY <1>0, <1>3, TypesStay DEF shelfVars
  <2> QED
    BY <1>2, <2>1, <2>2, InvPartsNext DEF Types
<1>4. CASE /\ disk[d].where = "archived"
           /\ disk' = Gone({d})
           /\ UNCHANGED <<service, threads, newer, videos, held, light>>
  <2>1. UNCHANGED <<captureVars, loopVars, videoVars, thread, final>>
    BY <1>4 DEF service, threads, captureVars, loopVars, videoVars
  <2>2. CaptureType' /\ LoopType' /\ VideoType' /\ ThreadType' /\ FinalType'
    BY <1>0, <2>1, TypesStay
  <2>3. ShelfType'
    BY <1>0, <1>4, TypesStay DEF shelfVars
  <2>4. DiskType' /\ \A x \in Dir : disk'[x].where = "progress" <=> disk[x].where = "progress"
    BY <1>0, <1>4, GoneType
  <2>5. OwnerInv'
    BY <1>0, <1>1, <2>1, <2>4, OwnersStay DEF captureVars, Busy
  <2> QED
    BY <1>2, <2>2, <2>3, <2>4, <2>5, InvPartsNext DEF Types
<1> QED
  BY <1>3, <1>4 DEF DeleteCollection

LEMMA RouteCallsKeeps ==
  ASSUME CaptureInv, RouteCalls
  PROVE  CaptureInv'
<1>0. Types /\ OwnerInv
  BY InvParts
<1>1. /\ up /\ web.kind # "none" /\ web' = NoWeb /\ UNCHANGED <<job, offer, up, crashes, calls>>
      /\ \/ web.kind = "start" /\ Begin("start", web.file, "web")
         \/ web.kind = "stop" /\ Begin("finish", NoFile, "web")
         \/ UNCHANGED <<service, threads, world, op>>
         \/ /\ Unpause /\ Forget /\ Release /\ disk' = Gone({resume.dir})
            /\ UNCHANGED <<enabled, saves, capture, ref, stop, threads, videos, newer, op>>
  BY DEF RouteCalls, Discard, mqtt
<1>2. ASSUME OpType(op') PROVE CallType'
  BY <1>0, <1>1, <1>2 DEF Types, CallType, OpType, NoWeb
<1>3. OpType(op)
  BY <1>0 DEF Types, CallType, OpType
<1>4. CASE \/ web.kind = "start" /\ Begin("start", web.file, "web")
           \/ web.kind = "stop" /\ Begin("finish", NoFile, "web")
  <2>1. /\ OpType(op') /\ LoopType'
        /\ UNCHANGED <<captureVars, videoVars, thread, final, disk, shelfVars>>
    <3>1. web.file \in File \cup {NoFile} /\ (web.kind = "start" => web.file \in File)
      BY <1>0 DEF Types, CallType
    <3> QED
      BY <1>0, <1>4, <3>1, BeginEffect
  <2> QED
    BY <1>1, <1>2, <2>1, AskingKeepsInv DEF Quiet
<1>5. CASE UNCHANGED <<service, threads, world, op>>
  <2>1. UNCHANGED <<captureVars, loopVars, videoVars, thread, final, disk, shelfVars, op>>
    BY <1>5 DEF service, threads, world, captureVars, loopVars, videoVars, shelfVars
  <2>2. LoopType'
    BY <1>0, <2>1, TypesStay
  <2> QED
    BY <1>1, <1>2, <1>3, <2>1, <2>2, AskingKeepsInv DEF Quiet
<1>6. CASE /\ Unpause /\ Forget /\ Release /\ disk' = Gone({resume.dir})
           /\ UNCHANGED <<enabled, saves, capture, ref, stop, threads, videos, newer, op>>
  <2>1. /\ CaptureType' /\ LoopType' /\ VideoType' /\ ThreadType' /\ FinalType' /\ DiskType'
        /\ OwnerInv'
    BY <1>0, <1>1, <1>6, GivenUpEffect
  <2>2. ShelfType'
    BY <1>0, <1>6, TypesStay DEF shelfVars
  <2> QED
    BY <1>2, <1>3, <1>6, <2>1, <2>2, InvPartsNext DEF Types
<1> QED
  BY <1>1, <1>4, <1>5, <1>6

-----------------------------------------------------------------------------
\* The frames are archived, or deleted: either way their directory is no longer in progress.

LEMMA ArchiveEffect ==
  ASSUME Types, OwnerInv, NEW w \in Worker, Archive(w)
  PROVE  /\ DiskType'
         /\ \A d \in Dir : disk'[d].where = "progress" <=>
                             d # final[w].dir /\ disk[d].where = "progress"
         /\ \A d \in Dir : disk[d].where = "progress" /\ disk'[d].where = "gone" =>
                             ~saves \/ (d = final[w].dir /\ Outnumbered(d, disk, newer))
<1>d. PICK d \in Dir : d = final[w].dir
  BY DEF Archive, OwnerInv, Busy
<1> DEFINE on == [disk EXCEPT ![d].where = "archived"]
<1>1. IF saves THEN disk' = Pruned(on, newer) ELSE disk' = Gone({d})
  BY <1>d DEF Archive, ArchivedNow
<1>2. CASE ~saves
  BY <1>d, <1>1, <1>2, GoneType
<1>3. CASE saves
  <2>1. /\ on \in [Dir -> Contents]
        /\ \A x \in Dir : /\ on[x].file = disk[x].file
                          /\ on[x].where = IF x = d THEN "archived" ELSE disk[x].where
    BY DEF Types, DiskType, Contents
  <2>2. Outnumbered(d, on, newer) => Outnumbered(d, disk, newer)
    <3>1. <<d, d>> \notin newer
      BY DEF Types, ShelfType
    <3>2. {e \in Dir : on[e].where = "archived" /\ <<e, d>> \in newer}
            = {e \in Dir : disk[e].where = "archived" /\ <<e, d>> \in newer}
      BY <2>1, <3>1
    <3> QED
      BY <3>2 DEF Outnumbered
  <2> HIDE DEF on
  <2>3. /\ disk' \in [Dir -> Contents]
        /\ \A x \in Dir : /\ disk'[x].file = on[x].file
                          /\ disk'[x].where =
                               IF on[x].where = "archived" /\ Outnumbered(x, on, newer)
                                 THEN "gone" ELSE on[x].where
    BY <1>1, <1>3, <2>1, PrunedEffect
  <2>4. DiskType'
    BY <2>1, <2>3 DEF Types, DiskType
  <2> QED
    BY <1>d, <2>1, <2>2, <2>3, <2>4
<1> QED
  BY <1>2, <1>3

LEMMA ArchiveKeeps ==
  ASSUME CaptureInv, NEW w \in Worker, Archive(w) \/ ArchiveFails(w)
  PROVE  CaptureInv'
<1>0. Types /\ OwnerInv
  BY InvParts
<1>1. /\ UNCHANGED <<captureVars, loopVars, videoVars, thread, shelfVars, op, up>> /\ Busy(w)
      /\ final' = [final EXCEPT ![w] = NoFinal]
      /\ UNCHANGED <<job, offer, web, crashes>>
      /\ UNCHANGED calls \/ (calls < MaxCalls /\ calls' = calls + 1)
  BY DEF Archive, ArchiveFails, finalElse, service, mqtt, captureVars, loopVars, videoVars,
         shelfVars, Busy
<1>2. /\ final[w].dir \in Dir /\ up
      /\ DiskType'
      /\ \A d \in Dir : disk'[d].where = "progress" <=>
                          d # final[w].dir /\ disk[d].where = "progress"
  <2>1. final[w].dir \in Dir /\ up
    BY <1>0, <1>1, NobodyWhileDown DEF OwnerInv
  <2>2. CASE Archive(w)
    BY <1>0, <2>1, <2>2, ArchiveEffect
  <2>3. CASE ArchiveFails(w)
    BY <1>0, <2>1, <2>3, GoneType DEF ArchiveFails
  <2> QED
    BY <2>2, <2>3
<1>3. FinalType'
  BY <1>0, <1>1, TimelapseAssumption DEF Types, FinalType, NoFinal
<1>4. /\ ~Busy(w)'
      /\ \A v \in Worker \ {w} : (Busy(v)' <=> Busy(v)) /\ final'[v].dir = final[v].dir
  BY <1>0, <1>1 DEF Types, FinalType, NoFinal, Busy
<1>5. CaptureType' /\ LoopType' /\ VideoType' /\ ThreadType' /\ ShelfType'
  BY <1>0, <1>1, TypesStay
<1>c. CallType'
  BY <1>0, <1>1, TimelapseAssumption DEF Types, CallType
<1>6. OwnerInv'
  <2>1. \A v \in Worker \ {w} : Busy(v) => final[v].dir # final[w].dir
    BY <1>0, <1>1 DEF OwnerInv
  <2>2. \A d \in Dir : Assembled(d)' <=> d # final[w].dir /\ Assembled(d)
    BY <1>1, <1>4, <2>1 DEF Assembled
  <2>3. /\ \A d \in Dir : disk[d].where = "progress" <=>
             capture.dir = d \/ resume.dir = d \/ Assembled(d)
        /\ capture.dir = NoDir \/ resume.dir = NoDir
        /\ \A d \in Dir : Assembled(d) => d \notin {capture.dir, resume.dir}
    BY <1>0, <1>2 DEF OwnerInv
  <2>4. UNCHANGED <<capture, resume>> /\ Assembled(final[w].dir)
    BY <1>1 DEF captureVars, Assembled
  <2>5. /\ \A d \in Dir : disk'[d].where = "progress" <=>
             capture'.dir = d \/ resume'.dir = d \/ Assembled(d)'
        /\ capture'.dir = NoDir \/ resume'.dir = NoDir
        /\ \A d \in Dir : Assembled(d)' => d \notin {capture'.dir, resume'.dir}
    BY <1>2, <2>2, <2>3, <2>4
  <2>6. /\ \A v \in Worker : Busy(v)' => final'[v].dir \in Dir
        /\ \A u, v \in Worker : Busy(u)' /\ Busy(v)' /\ final'[u].dir = final'[v].dir => u = v
    BY <1>0, <1>4 DEF OwnerInv
  <2> QED
    BY <1>1, <1>2, <2>5, <2>6 DEF OwnerInv
<1> QED
  BY <1>2, <1>3, <1>5, <1>6, <1>c, InvPartsNext DEF Types
-----------------------------------------------------------------------------
\* The process ends, and is started again.

LEMMA CrashKeeps ==
  ASSUME CaptureInv, Crash
  PROVE  CaptureInv'
<1>0. Types /\ OwnerInv
  BY InvParts
<1>1. /\ crashes < MaxCrashes /\ crashes' = crashes + 1 /\ up' = FALSE
      /\ capture' = Nothing /\ resume' = Nothing /\ paused' = [auto |-> FALSE, manual |-> FALSE]
      /\ ref' = NoThread /\ stop' = FALSE /\ timer' = [state |-> "off", dir |-> NoDir]
      /\ owns' = FALSE /\ was' = "unset" /\ op' = NoOp
      /\ thread' = [t \in Thread |-> Asleep] /\ final' = [w \in Worker |-> NoFinal]
      /\ held' = FALSE /\ light' = "unset"
      /\ job' = [job EXCEPT !.known = FALSE, !.mayOffer = TRUE] /\ offer' = FALSE /\ web' = NoWeb
      /\ UNCHANGED <<enabled, saves, disk, shelfVars, calls>>
  BY DEF Crash, shelfVars
<1>2. CaptureType'
  BY <1>1, NothingIsNoDir, Directories DEF CaptureType
<1>3. LoopType'
  BY <1>0, <1>1 DEF Types, LoopType
<1>4. VideoType'
  BY <1>1 DEF VideoType
<1>5. CallType'
  <2>1. crashes' \in 0..MaxCrashes
    BY <1>0, <1>1, TimelapseAssumption DEF Types, CallType
  <2>2. /\ job' \in [file : File \cup {NoFile}, known : BOOLEAN, mayOffer : BOOLEAN]
        /\ ~job'.known
    BY <1>0, <1>1 DEF Types, CallType
  <2> QED
    BY <1>0, <1>1, <2>1, <2>2 DEF Types, CallType, NoOp, NoWeb
<1>6. ThreadType' /\ \A t \in Thread : thread'[t].pc = "idle"
  BY <1>1 DEF ThreadType, Asleep
<1>7. FinalType' /\ \A w \in Worker : ~Busy(w)'
  BY <1>1, TimelapseAssumption DEF FinalType, NoFinal, Busy
<1>8. DiskType' /\ ShelfType'
  BY <1>0, <1>1, TypesStay
<1>9. OwnerInv'
  BY <1>1, <1>6, <1>7, NothingIsNoDir, Directories DEF OwnerInv, Assembled
<1> QED
  BY <1>2, <1>3, <1>4, <1>5, <1>6, <1>7, <1>8, <1>9, InvPartsNext DEF Types

\* Every directory with frames has one owner again: the pending resume, or a thread of its own.
LEMMA AdoptEffect ==
  ASSUME Types, OwnerInv, ~up, up', UNCHANGED capture, NEW d \in Leftover, Adopt(d)
  PROVE  /\ CaptureType' /\ FinalType'
         /\ \A x \in Dir : x \in Leftover <=> resume'.dir = x \/ Assembled(x)'
         /\ \A x \in Dir : Assembled(x)' => resume'.dir # x
         /\ \A w \in Worker : Busy(w)' => final'[w].dir \in Dir
         /\ \A v, w \in Worker : Busy(v)' /\ Busy(w)' /\ final'[v].dir = final'[w].dir => v = w
<1>0. capture = Nothing /\ resume = Nothing /\ timer.state = "off"
  BY DEF OwnerInv
<1>1. PICK young \in BOOLEAN :
        LET rest == IF young THEN Leftover \ {d} ELSE Leftover
        IN  /\ IF young
                 THEN /\ resume' = [dir |-> d, file |-> disk[d].file, count |-> disk[d].frames]
                      /\ timer' = [state |-> "armed", dir |-> d]
                 ELSE UNCHANGED <<resume, timer>>
            /\ \E dirOf \in [rest -> Worker] :
                 /\ \A x, y \in rest : dirOf[x] = dirOf[y] => x = y
                 /\ final' = [w \in Worker |->
                      IF \E x \in rest : dirOf[x] = w
                        THEN LET x == CHOOSE y \in rest : dirOf[y] = w
                             IN  [phase |-> "assemble", dir |-> x, count |-> disk[x].frames,
                                  by |-> "own", video |-> FALSE]
                        ELSE NoFinal]
  BY DEF Adopt
<1> DEFINE rest == IF young THEN Leftover \ {d} ELSE Leftover
           Of(dirOf, w) == CHOOSE y \in rest : dirOf[y] = w
<1>2. PICK dirOf \in [rest -> Worker] :
        /\ \A x, y \in rest : dirOf[x] = dirOf[y] => x = y
        /\ final' = [w \in Worker |->
             IF \E x \in rest : dirOf[x] = w
               THEN [phase |-> "assemble", dir |-> Of(dirOf, w),
                     count |-> disk[Of(dirOf, w)].frames, by |-> "own", video |-> FALSE]
               ELSE NoFinal]
  BY <1>1
<1>3. Leftover \subseteq Dir /\ rest \subseteq Leftover
  BY DEF Leftover
<1>4. \A x \in Leftover : disk[x].frames \in 0..MaxFrames /\ disk[x].file \in File
  BY DEF Leftover, Types, DiskType, Contents
<1> HIDE DEF rest, Of
<1>5. \A w \in Worker : (\E x \in rest : dirOf[x] = w) =>
        Of(dirOf, w) \in rest /\ dirOf[Of(dirOf, w)] = w
  BY DEF Of
<1>6. ASSUME NEW w \in Worker
      PROVE  \/ /\ Busy(w)' /\ final'[w].dir \in rest /\ dirOf[final'[w].dir] = w
                /\ final'[w] \in [phase : {"idle", "assemble", "archive"}, dir : Dir \cup {NoDir},
                                  count : 0..MaxFrames, by : {"mqtt", "web", "own"}, video : BOOLEAN]
             \/ /\ ~Busy(w)' /\ final'[w] = NoFinal /\ ~\E x \in rest : dirOf[x] = w
  <2>1. CASE \E x \in rest : dirOf[x] = w
    <3>1. PICK x \in rest : x = Of(dirOf, w) /\ dirOf[x] = w
      BY <1>5, <2>1
    <3>2. final'[w] = [phase |-> "assemble", dir |-> x, count |-> disk[x].frames,
                       by |-> "own", video |-> FALSE]
      BY <1>2, <2>1, <3>1
    <3>3. x \in Dir /\ disk[x].frames \in 0..MaxFrames
      BY <1>3, <1>4
    <3> QED
      BY <3>1, <3>2, <3>3 DEF Busy
  <2>2. CASE ~\E x \in rest : dirOf[x] = w
    BY <1>2, <2>2 DEF Busy, NoFinal
  <2> QED
    BY <2>1, <2>2
<1>7. FinalType'
  <2>1. NoFinal \in [phase : {"idle", "assemble", "archive"}, dir : Dir \cup {NoDir},
                     count : 0..MaxFrames, by : {"mqtt", "web", "own"}, video : BOOLEAN]
    BY TimelapseAssumption DEF NoFinal
  <2>2. final' = [w \in Worker |-> final'[w]]
    BY <1>2
  <2> QED
    BY <1>6, <2>1, <2>2 DEF FinalType
<1>8. \A x \in Dir : Assembled(x)' <=> x \in rest
  <2>1. ASSUME NEW x \in rest PROVE Assembled(x)'
    <3>1. dirOf[x] \in Worker
      BY <1>2
    <3>2. Busy(dirOf[x])' /\ final'[dirOf[x]].dir \in rest /\ dirOf[final'[dirOf[x]].dir] = dirOf[x]
      BY <1>6, <3>1
    <3> QED
      BY <1>2, <3>1, <3>2 DEF Assembled
  <2>2. ASSUME NEW x \in Dir, Assembled(x)' PROVE x \in rest
    BY <1>6, <2>2 DEF Assembled
  <2> QED
    BY <2>1, <2>2
<1>9. /\ \A w \in Worker : Busy(w)' => final'[w].dir \in Dir
      /\ \A v, w \in Worker : Busy(v)' /\ Busy(w)' /\ final'[v].dir = final'[w].dir => v = w
  BY <1>3, <1>6
<1>10. CASE young
  <2>1. /\ resume' = [dir |-> d, file |-> disk[d].file, count |-> disk[d].frames]
        /\ timer' = [state |-> "armed", dir |-> d]
    BY <1>1, <1>10
  <2>2. d \in Dir /\ disk[d].frames \in 0..MaxFrames /\ disk[d].file \in File
    BY <1>3, <1>4
  <2>3. CaptureType'
    BY <1>0, <2>1, <2>2, NothingIsNoDir, Directories, TimelapseAssumption DEF CaptureType, Captured
  <2>4. rest = Leftover \ {d}
    BY <1>10 DEF rest
  <2> QED
    BY <1>7, <1>8, <1>9, <2>1, <2>3, <2>4
<1>11. CASE ~young
  <2>1. UNCHANGED <<resume, timer>> /\ rest = Leftover
    BY <1>1, <1>11 DEF rest
  <2>2. CaptureType'
    BY <2>1, TypesStay DEF captureVars
  <2>3. \A x \in Dir : resume'.dir # x
    BY <1>0, <2>1, NothingIsNoDir, Directories
  <2> QED
    BY <1>7, <1>8, <1>9, <2>1, <2>2, <2>3
<1> QED
  BY <1>10, <1>11

LEMMA RestartKeeps ==
  ASSUME CaptureInv, Restart
  PROVE  CaptureInv'
<1>0. Types /\ OwnerInv
  BY InvParts
<1>1. /\ ~up /\ up' = TRUE
      /\ Leftover = {} => UNCHANGED <<resume, timer, final>>
      /\ Leftover # {} => \E d \in Leftover : Adopt(d)
      /\ disk' = Gone({d \in Dir : disk[d].where = "progress" /\ disk[d].frames = 0})
      /\ UNCHANGED <<loopVars, videoVars, thread, shelfVars, capture>>
      /\ UNCHANGED <<mqtt, op, web, crashes, calls>>
  BY DEF Restart, loopVars, videoVars, shelfVars
<1>2. /\ capture = Nothing /\ resume = Nothing /\ \A w \in Worker : ~Busy(w)
  BY <1>0, <1>1 DEF OwnerInv
<1>3. /\ DiskType'
      /\ \A d \in Dir : disk'[d].where = "progress" <=> d \in Leftover
  <2>1. /\ DiskType'
        /\ \A d \in Dir : disk'[d].where =
             IF d \in {x \in Dir : disk[x].where = "progress" /\ disk[x].frames = 0}
               THEN "gone" ELSE disk[d].where
    BY <1>0, <1>1, GoneType
  <2>2. \A d \in Dir : disk[d].frames \in Nat
    BY <1>0, TimelapseAssumption DEF Types, DiskType, Contents
  <2> QED
    BY <2>1, <2>2 DEF Leftover
<1>4. LoopType' /\ VideoType' /\ ThreadType' /\ ShelfType'
  BY <1>0, <1>1, TypesStay
<1>5. CallType'
  BY <1>0, <1>1 DEF Types, CallType, mqtt
<1>6. /\ CaptureType' /\ FinalType'
      /\ \A x \in Dir : x \in Leftover <=> resume'.dir = x \/ Assembled(x)'
      /\ \A x \in Dir : Assembled(x)' => resume'.dir # x
      /\ \A w \in Worker : Busy(w)' => final'[w].dir \in Dir
      /\ \A v, w \in Worker : Busy(v)' /\ Busy(w)' /\ final'[v].dir = final'[w].dir => v = w
  <2>1. CASE Leftover = {}
    <3>1. UNCHANGED <<captureVars, final>>
      BY <1>1, <2>1 DEF captureVars
    <3>2. CaptureType' /\ FinalType'
      BY <1>0, <3>1, TypesStay
    <3>3. resume'.dir = NoDir /\ \A w \in Worker : ~Busy(w)'
      BY <1>2, <3>1, NothingIsNoDir DEF captureVars, Busy
    <3> QED
      BY <2>1, <3>2, <3>3, Directories DEF Assembled
  <2>2. CASE Leftover # {}
    <3>1. PICK d \in Leftover : Adopt(d)
      BY <1>1, <2>2
    <3> QED
      BY <1>0, <1>1, <3>1, AdoptEffect
  <2> QED
    BY <2>1, <2>2
<1>7. capture'.dir = NoDir
  BY <1>1, <1>2, NothingIsNoDir
<1>8. OwnerInv'
  BY <1>1, <1>3, <1>6, <1>7, Directories DEF OwnerInv
<1> QED
  BY <1>3, <1>4, <1>5, <1>6, <1>8, InvPartsNext DEF Types

-----------------------------------------------------------------------------
\* The theorems.

LEMMA InitCaptureInv == Init => CaptureInv
<1> SUFFICES ASSUME Init PROVE CaptureInv
  OBVIOUS
<1>1. CaptureType
  BY NothingIsNoDir, Directories DEF Init, CaptureType
<1>2. LoopType
  BY DEF Init, LoopType
<1>3. VideoType
  BY DEF Init, VideoType
<1>4. CallType
  <2>1. /\ op = NoOp /\ job = NoJob /\ web = NoWeb /\ offer = FALSE /\ up = TRUE
        /\ calls = 0 /\ crashes = 0
    BY DEF Init
  <2>2. 0 \in 0..MaxCalls /\ 0 \in 0..MaxCrashes
    BY TimelapseAssumption
  <2>3. /\ NoOp \in [kind : {"none", "start", "finish", "fail"}, file : File \cup {NoFile},
                     by : {"mqtt", "web"}, joining : BOOLEAN]
        /\ NoJob \in [file : File \cup {NoFile}, known : BOOLEAN, mayOffer : BOOLEAN]
        /\ NoWeb \in [kind : {"none", "start", "stop", "dismiss"}, file : File \cup {NoFile}]
        /\ NoOp.kind = "none" /\ NoWeb.kind = "none" /\ NoJob.known = FALSE
    BY DEF NoOp, NoJob, NoWeb
  <2> QED
    BY <2>1, <2>2, <2>3 DEF CallType
<1>5. ThreadType
  BY DEF Init, ThreadType, Asleep
<1>6. FinalType /\ \A w \in Worker : ~Busy(w)
  BY TimelapseAssumption DEF Init, FinalType, NoFinal, Busy
<1>7. DiskType /\ \A d \in Dir : disk[d].where = "none"
  BY TimelapseAssumption DEF Init, DiskType, Contents, Fresh
<1>8. ShelfType
  BY DEF Init, ShelfType
<1>9. OwnerInv
  BY <1>6, <1>7, NothingIsNoDir, Directories DEF Init, OwnerInv, Assembled
<1> QED
  BY <1>1, <1>2, <1>3, <1>4, <1>5, <1>6, <1>7, <1>8, <1>9, InvParts DEF Types

LEMMA StutterKeeps == ASSUME CaptureInv, UNCHANGED vars PROVE CaptureInv'
BY DEF vars, service, threads, world, mqtt, CaptureInv, TypeOK, OwnerInv, FileInv, Assembled, Busy

LEMMA NextKeeps == CaptureInv /\ [Next]_vars => CaptureInv'
<1> SUFFICES ASSUME CaptureInv, [Next]_vars PROVE CaptureInv'
  OBVIOUS
<1>1. CASE Bodies
  BY <1>1, JoinKeeps, StartBodyKeeps, FinishBodyKeeps, FailBodyKeeps DEF Bodies
<1>2. CASE Users
  BY <1>2, RouteKeeps, RouteCallsKeeps, ManualPauseKeeps, ReloadKeeps, ManualSnapshotKeeps,
     DeleteCollectionKeeps, DeleteVideoKeeps, DeleteSnapshotKeeps DEF Users
<1>3. CASE Printer
  BY <1>3, PrintSeenKeeps, PrintEndsKeeps, PrintUnseenKeeps, AutoPauseKeeps, ReconnectKeeps
     DEF Printer
<1>4. CASE \E t \in Thread : CaptureThread(t)
  BY <1>4, LoopEndsKeeps, AimKeeps, ShootKeeps, CountKeeps DEF CaptureThread
<1>5. CASE \E w \in Worker : Finaliser(w) \/ ArchiveFails(w)
  BY <1>5, AssembleKeeps, ArchiveKeeps DEF Finaliser
<1>6. CASE TimerFires \/ TimerRuns \/ Crash \/ Restart
  BY <1>6, TimerFiresKeeps, TimerRunsKeeps, CrashKeeps, RestartKeeps
<1>7. CASE UNCHANGED vars
  BY <1>7, StutterKeeps
<1> QED
  BY <1>1, <1>2, <1>3, <1>4, <1>5, <1>6, <1>7 DEF Next

\* Whatever prints, users, crashes and restarts do, and whichever thread outlives its join,
\* the state is typed and a directory in progress is had by somebody.
THEOREM CapturesAreOwned == Spec => []CaptureInv
<1> QED
  BY InitCaptureInv, NextKeeps, PTL DEF Spec

LEMMA InvMeansOneOwner == CaptureInv => OneOwner
<1> SUFFICES ASSUME CaptureInv, up, NEW d \in Dir, disk[d].where = "progress"
             PROVE  Cardinality(Owners(d)) = 1
  BY DEF OneOwner
<1>0. Types /\ OwnerInv
  BY InvParts
<1> DEFINE Workers == {w \in Worker : Busy(w) /\ final[w].dir = d}
<1>1. /\ capture.dir = d \/ resume.dir = d \/ Assembled(d)
      /\ ~(capture.dir = d /\ resume.dir = d)
      /\ Assembled(d) => capture.dir # d /\ resume.dir # d
  BY <1>0, Directories DEF OwnerInv
<1>2. Assembled(d) => \E w : Workers = {w}
  BY <1>0 DEF OwnerInv, Assembled
<1>3. ~Assembled(d) => Workers = {}
  BY DEF Assembled
<1>4. \E x : Owners(d) = {x}
  <2> HIDE DEF Workers
  <2>1. Owners(d) = (IF capture.dir = d THEN {"capture"} ELSE {})
                      \cup (IF resume.dir = d THEN {"resume"} ELSE {}) \cup Workers
    BY DEF Owners, Workers
  <2> QED
    BY <1>1, <1>2, <1>3, <2>1
<1> QED
  BY <1>4, FS_Singleton

\* While the process is up every directory of frames has exactly one owner: no capture is
\* orphaned, assembled twice, or assembled under a print that still adds to it.
THEOREM OwnedByOne == Spec => []OneOwner
<1> QED
  BY CapturesAreOwned, InvMeansOneOwner, PTL
-----------------------------------------------------------------------------
\* What may be deleted.

MayGo(d) ==
  resume.dir = d \/ (capture.dir = d /\ capture.count = 0) \/ ~saves \/ disk[d].frames = 0
LostArchiving(d) ==
  \/ \E w \in Worker : final[w].dir = d /\ ArchiveFails(w)
  \/ \E w \in Worker : final[w].dir = d /\ Archive(w) /\ Outnumbered(d, disk, newer)
Deleted(d) == disk[d].where = "progress" /\ disk'[d].where = "gone"

\* A step that keeps what is in progress in progress, or deletes the pending directory only.
LEMMA DeletesOnly ==
  ASSUME Types, NEW D, disk' = Gone(D),
         \A d \in D : d \in Dir => MayGo(d) \/ disk[d].where # "progress"
  PROVE  \A d \in Dir : Deleted(d) => MayGo(d)
BY GoneType DEF Deleted

\* A capture without counted frames.
LEMMA CountIsNatural ==
  ASSUME Types, ~(capture.dir # NoDir /\ capture.count > 0)
  PROVE  \A d \in {resume.dir, capture.dir} : d \in Dir => MayGo(d)
<1>1. capture.count \in Nat
  BY TimelapseAssumption DEF Types, CaptureType, Captured
<1> QED
  BY <1>1, Directories DEF MayGo

LEMMA BodiesDelete ==
  ASSUME Types, Bodies, NEW d \in Dir, Deleted(d)
  PROVE  MayGo(d)
<1>1. CASE JoinEnds \/ JoinTimesOut
  BY <1>1 DEF JoinEnds, JoinTimesOut, world, Deleted
<1>2. CASE StartBody
  <2>1. CASE UNCHANGED disk
    BY <2>1 DEF Deleted
  <2>2. CASE NewDirs # {} /\ StartNew(op.file)
    <3>1. PICK n \in Dir :
            /\ disk[n].where = "none"
            /\ \E new : \/ /\ capture.dir # NoDir /\ capture.count > 0
                           /\ disk' = [Gone({resume.dir}) EXCEPT ![n] = new]
                        \/ /\ ~(capture.dir # NoDir /\ capture.count > 0)
                           /\ disk' = [Gone({resume.dir, capture.dir}) EXCEPT ![n] = new]
      BY <2>2, NewDir DEF StartNew
    <3>2. d # n
      BY <3>1 DEF Deleted
    <3>3. CASE \E new : disk' = [Gone({resume.dir}) EXCEPT ![n] = new]
      <4>1. d = resume.dir
        BY <3>2, <3>3, GoneEffect DEF Deleted
      <4> QED
        BY <4>1 DEF MayGo
    <3>4. CASE /\ ~(capture.dir # NoDir /\ capture.count > 0)
               /\ \E new : disk' = [Gone({resume.dir, capture.dir}) EXCEPT ![n] = new]
      <4>1. d \in {resume.dir, capture.dir}
        BY <3>2, <3>4, GoneEffect DEF Deleted
      <4> QED
        BY <3>4, <4>1, CountIsNatural
    <3> QED
      BY <3>1, <3>3, <3>4
  <2> QED
    BY <1>2, <2>1, <2>2 DEF StartBody
<1>3. CASE FinishBody \/ FailBody
  <2>1. \/ UNCHANGED disk
        \/ disk' = Gone({resume.dir})
        \/ /\ ~(capture.dir # NoDir /\ capture.count > 0)
           /\ disk' = Gone({resume.dir, capture.dir})
    BY <1>3 DEF FinishBody, FailBody
  <2>2. CASE UNCHANGED disk
    BY <2>2 DEF Deleted
  <2>3. CASE disk' = Gone({resume.dir})
    BY <2>3, DeletesOnly DEF MayGo
  <2>4. CASE /\ ~(capture.dir # NoDir /\ capture.count > 0)
             /\ disk' = Gone({resume.dir, capture.dir})
    BY <2>4, CountIsNatural, DeletesOnly
  <2> QED
    BY <2>1, <2>2, <2>3, <2>4
<1> QED
  BY <1>1, <1>2, <1>3 DEF Bodies

LEMMA UsersDelete ==
  ASSUME Types, Users, NEW d \in Dir, Deleted(d)
  PROVE  MayGo(d)
<1>1. CASE \E kind \in {"start", "stop", "dismiss"} : Route(kind)
  BY <1>1 DEF Route, world, Deleted
<1>2. CASE RouteCalls
  <2>1. UNCHANGED disk \/ disk' = Gone({resume.dir})
    BY <1>2 DEF RouteCalls, Begin, Discard, world
  <2>2. CASE disk' = Gone({resume.dir})
    BY <2>2, DeletesOnly DEF MayGo
  <2> QED
    BY <2>1, <2>2 DEF Deleted
<1>3. CASE ManualPause \/ Reload
  BY <1>3 DEF ManualPause, Reload, world, Deleted
<1>4. CASE ManualSnapshot
  <2>1. PICK n \in Dir : n = Least(NewDirs) /\ disk[n].where = "none"
    BY <1>4, RoomForOne, NewDir DEF ManualSnapshot
  <2> DEFINE on == [disk EXCEPT ![n] = [where |-> "archived", file |-> NoFile, frames |-> 1]]
  <2>2. disk' = Pruned(on, Touched(n))
    BY <1>4, <2>1 DEF ManualSnapshot
  <2>3. on \in [Dir -> Contents] /\ (disk[d].where = "progress" => on[d].where = "progress")
    BY <2>1, TimelapseAssumption DEF Types, DiskType, Contents
  <2> HIDE DEF on
  <2> QED
    BY <2>2, <2>3, PrunedEffect DEF Deleted
<1>5. CASE \E x \in Dir : DeleteCollection(x)
  <2>1. PICK x \in Dir : /\ disk' = Gone({x})
                         /\ resume.dir = x \/ disk[x].where = "archived"
    BY <1>5 DEF DeleteCollection
  <2> QED
    BY <2>1, DeletesOnly DEF MayGo
<1>6. CASE \E x \in Dir : DeleteVideo(x)
  <2>1. PICK x \in Dir : disk' = IF disk[x].where = "archived" THEN Gone({x}) ELSE disk
    BY <1>6 DEF DeleteVideo
  <2>2. CASE disk[x].where = "archived"
    BY <2>1, <2>2, DeletesOnly
  <2> QED
    BY <2>1, <2>2 DEF Deleted
<1>7. CASE \E x \in Dir : DeleteSnapshot(x)
  <2>1. PICK x \in Dir : /\ disk[x].where = "archived"
                         /\ \/ disk' = [disk EXCEPT ![x].frames = disk[x].frames - 1]
                            \/ disk' = Gone({x})
    BY <1>7 DEF DeleteSnapshot
  <2>2. CASE disk' = Gone({x})
    BY <2>1, <2>2, DeletesOnly
  <2>3. CASE disk' = [disk EXCEPT ![x].frames = disk[x].frames - 1]
    BY <2>3 DEF Types, DiskType, Contents, Deleted
  <2> QED
    BY <2>1, <2>2, <2>3
<1> QED
  BY <1>1, <1>2, <1>3, <1>4, <1>5, <1>6, <1>7 DEF Users

LEMMA OthersDelete ==
  ASSUME Types, OwnerInv, NEW d \in Dir, Deleted(d),
         \/ Printer \/ (\E t \in Thread : CaptureThread(t)) \/ (\E w \in Worker : Finaliser(w) \/ ArchiveFails(w))
         \/ TimerFires \/ TimerRuns \/ Crash \/ Restart
  PROVE  MayGo(d) \/ LostArchiving(d)
<1>1. CASE Printer
  <2>1. CASE \E f \in File : PrintSeen(f)
    BY <2>1 DEF PrintSeen, Begin, world, Deleted
  <2>2. CASE \E kind \in {"finish", "fail"} : PrintEnds(kind)
    BY <2>2 DEF PrintEnds, Begin, world, Deleted
  <2>3. CASE PrintUnseen \/ AutoPause \/ Reconnect
    BY <2>3 DEF PrintUnseen, AutoPause, Reconnect, world, Deleted
  <2> QED
    BY <1>1, <2>1, <2>2, <2>3 DEF Printer
<1>2. CASE \E t \in Thread : CaptureThread(t)
  <2>1. PICK t \in Thread : CaptureThread(t)
    BY <1>2
  <2>2. CASE LoopEnds(t) \/ Aim(t) \/ ShotFails(t) \/ Count(t)
    BY <2>2 DEF LoopEnds, Aim, ShotFails, Count, Deleted
  <2>3. CASE Shoot(t)
    <3>1. PICK x : disk' = [disk EXCEPT ![x].frames = disk[x].frames + 1]
      BY <2>3 DEF Shoot
    <3> QED
      BY <3>1 DEF Types, DiskType, Contents, Deleted
  <2> QED
    BY <2>1, <2>2, <2>3 DEF CaptureThread
<1>3. CASE \E w \in Worker : Finaliser(w) \/ ArchiveFails(w)
  <2>1. PICK w \in Worker : Assemble(w) \/ Archive(w) \/ ArchiveFails(w)
    BY <1>3 DEF Finaliser
  <2>2. CASE Assemble(w)
    <3>1. \/ UNCHANGED disk
          \/ \E old : disk' = Gone({x \in old : disk[x].where = "archived"})
      BY <2>2 DEF Assemble
    <3> QED
      BY <3>1, GoneType DEF Deleted
  <2>3. CASE Archive(w)
    BY <2>3, ArchiveEffect DEF Deleted, MayGo, LostArchiving
  <2>4. CASE ArchiveFails(w)
    <3>1. d = final[w].dir
      BY <2>4, GoneType DEF ArchiveFails, Deleted
    <3> QED
      BY <2>4, <3>1 DEF LostArchiving
  <2> QED
    BY <2>1, <2>2, <2>3, <2>4
<1>4. CASE TimerFires \/ TimerRuns \/ Crash
  BY <1>4 DEF TimerFires, TimerRuns, Crash, world, Deleted
<1>5. CASE Restart
  <2>1. disk' = Gone({x \in Dir : disk[x].where = "progress" /\ disk[x].frames = 0})
    BY <1>5 DEF Restart
  <2> QED
    BY <2>1, DeletesOnly DEF MayGo
<1> QED
  BY <1>1, <1>2, <1>3, <1>4, <1>5

\* No step deletes frames that were counted, unless they waited for a resume that was given
\* up, nothing is to be kept, or they are lost as they are archived: the move fails, or enough
\* newer collections are there.
THEOREM DeletesNoFrames == Spec => FramesKept
<1>1. CaptureInv /\ [Next]_vars =>
        [\A d \in Dir : disk[d].where = "progress" /\ disk'[d].where = "gone" =>
           \/ resume.dir = d
           \/ capture.dir = d /\ capture.count = 0
           \/ ~saves
           \/ disk[d].frames = 0
           \/ \E w \in Worker : final[w].dir = d /\ ArchiveFails(w)
           \/ \E w \in Worker : final[w].dir = d /\ Archive(w) /\ Outnumbered(d, disk, newer) ]_vars
  <2> SUFFICES ASSUME CaptureInv, Next, NEW d \in Dir, Deleted(d)
               PROVE  MayGo(d) \/ LostArchiving(d)
    BY DEF MayGo, Deleted, LostArchiving
  <2>1. Types /\ OwnerInv
    BY InvParts
  <2>2. CASE Bodies
    BY <2>1, <2>2, BodiesDelete
  <2>3. CASE Users
    BY <2>1, <2>3, UsersDelete
  <2>4. CASE ~Bodies /\ ~Users
    BY <2>1, <2>4, OthersDelete DEF Next
  <2> QED
    BY <2>2, <2>3, <2>4
<1> QED
  BY <1>1, CapturesAreOwned, PTL DEF Spec, FramesKept
=============================================================================
