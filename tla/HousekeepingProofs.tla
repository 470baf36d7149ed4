-------------------------- MODULE HousekeepingProofs --------------------------
(***************************************************************************)
(* Theorems about Retention and SourceMaps for every number of projects,   *)
(* rows, uploads, readers and directories, and every plan.                 *)
(***************************************************************************)
EXTENDS Retention, WellFoundedInduction, TLAPS

-----------------------------------------------------------------------------
(* Days and windows.                                                       *)

\* Rounding a time down to its day.
LEMMA DaysRound ==
    ASSUME NEW a \in Nat
    PROVE  /\ DayOf(a) \in Nat
           /\ DayOf(a) * TicksPerDay \in Nat /\ DayOf(a) * TicksPerDay <= a
           /\ a < DayOf(a) * TicksPerDay + TicksPerDay
<1>1. TicksPerDay \in Nat /\ TicksPerDay > 0  BY MapsAssumption
<1>2. QED  BY <1>1 DEF DayOf

LEMMA ProductsGrow ==
    ASSUME NEW m \in Int, NEW n \in Int, m <= n
    PROVE  m * TicksPerDay \in Int /\ n * TicksPerDay \in Int
           /\ m * TicksPerDay <= n * TicksPerDay
<1>1. TicksPerDay \in Nat /\ TicksPerDay > 0  BY MapsAssumption
<1>2. QED  BY <1>1

\* A day further back by n days is more than n days of ticks back.
LEMMA DaysBack ==
    ASSUME NEW a \in Nat, NEW b \in Nat, NEW n \in Int, DayOf(a) < DayOf(b) - n
    PROVE  a + n * TicksPerDay < b
<1>0. TicksPerDay \in Nat /\ TicksPerDay > 0  BY MapsAssumption
<1>1. DayOf(a) \in Nat /\ DayOf(b) \in Nat  BY DaysRound
<1>2. (DayOf(a) + 1 + n) * TicksPerDay <= DayOf(b) * TicksPerDay
  BY <1>1, ProductsGrow
<1>3. (DayOf(a) + 1 + n) * TicksPerDay
        = DayOf(a) * TicksPerDay + TicksPerDay + n * TicksPerDay
  BY <1>0, <1>1
<1>4. n * TicksPerDay \in Int  BY <1>0
<1>5. QED  BY <1>0, <1>2, <1>3, <1>4, DaysRound

\* Days pass one at a time.
LEMMA DaysPass ==
    ASSUME NEW a \in Nat, NEW b \in Nat
    PROVE  /\ a <= b => DayOf(a) <= DayOf(b)
           /\ b <= a + 1 => DayOf(b) <= DayOf(a) + 1
<1>0. TicksPerDay \in Nat /\ TicksPerDay > 0  BY MapsAssumption
<1>1. DayOf(a) \in Nat /\ DayOf(b) \in Nat  BY DaysRound
<1>2. a <= b => DayOf(a) <= DayOf(b)
  <2> SUFFICES ASSUME DayOf(b) < DayOf(a) - 0  PROVE b < a  BY <1>1
  <2>1. b + 0 * TicksPerDay < a  BY DaysBack
  <2>2. QED  BY <1>0, <2>1
<1>3. b <= a + 1 => DayOf(b) <= DayOf(a) + 1
  <2> SUFFICES ASSUME DayOf(a) < DayOf(b) - 1  PROVE a + 1 < b  BY <1>1
  <2>1. a + 1 * TicksPerDay < b  BY DaysBack
  <2>2. QED  BY <1>0, <2>1
<1>4. QED  BY <1>2, <1>3

\* A set of windows has a longest one, which the fold finds.
LEMMA LongestWindow ==
    ASSUME NEW values, values \subseteq RetentionDays, values # {}
    PROVE  LET longest == fold_global_max_retention_days(values)
           IN  longest \in values /\ \A w \in values : w <= longest
<1> DEFINE spare == {MaxInteger - v : v \in values}
           Less == OpToRel(<, Nat)
<1>0. MaxInteger \in Nat  BY SMT DEF MaxInteger
<1>1. \A v \in values : v \in Nat /\ v <= MaxInteger
  BY <1>0, RetentionAssumption
<1>2. spare \subseteq Nat /\ spare # {}
  BY <1>0, <1>1
<1>3. PICK x \in spare : \A y \in spare : ~ (<<y, x>> \in Less)
  <2>1. IsWellFoundedOn(Less, Nat)  BY NatLessThanWellFounded
  <2> HIDE DEF spare, Less
  <2>2. QED  BY <1>2, <2>1, WFMin
<1>4. PICK v \in values : x = MaxInteger - v  BY <1>3
<1>5. \A w \in values : w <= v
  <2> SUFFICES ASSUME NEW w \in values  PROVE w <= v  OBVIOUS
  <2>1. MaxInteger - w \in spare  OBVIOUS
  <2>2. ~ (MaxInteger - w < x)
    BY <1>2, <1>3, <2>1 DEF OpToRel
  <2>3. QED  BY <1>0, <1>1, <1>4, <2>2
<1>6. QED  BY <1>5 DEF fold_global_max_retention_days

-----------------------------------------------------------------------------
(* Types.                                                                  *)

\* The parts of a plan that never change keep their type, and the changes and runs left
\* are numbers.
PlanType == [retention : [Projects -> RetentionDays \cup {0}],
             uploads : SUBSET Uploads, readers : SUBSET Readers,
             rows : Nat, edits : Nat, runs : Nat, ticks : Nat]


\* What a step of the system is to the source maps: one of their own, the walk or the
\* end of a run of the retention job, or nothing but the clock.
EndOfSweep ==
    sweep' = NoSweep /\ UNCHANGED <<now, files, upload, cache, reading, history>>

MapsMove ==
    \/ MapsNext /\ UNCHANGED now
    \/ \E cutoff \in Int : WalkReleaseDirs(cutoff) /\ UNCHANGED now
    \/ EndOfSweep
    \/ UNCHANGED mapVars /\ now' \in {now, now + 1}

LEMMA StepIsMapsMove == TypeOK /\ [Next]_vars => MapsMove
<1> SUFFICES ASSUME TypeOK, [Next]_vars  PROVE MapsMove  OBVIOUS
<1>1. CASE MapStep  BY <1>1 DEF MapStep, MapsMove
<1>2. CASE StartPrune
  <2>1. run.cutoff * TicksPerDay \in Int  BY MapsAssumption DEF TypeOK
  <2>2. QED  BY <1>2, <2>1 DEF StartPrune, MapsMove
<1>3. CASE Crash  BY <1>3 DEF Crash, MapsMove, EndOfSweep
<1>4. CASE Environment
  BY <1>4 DEF Environment, Tick, InsertEvent, SetRetention, CreateProject, DeleteProject,
              Edit, MapsMove
<1>5. CASE maintain_event_partitions  BY <1>5 DEF maintain_event_partitions, MapsMove
<1>6. CASE StartRun \/ DropPartitions \/ FinishRun
  BY <1>6 DEF StartRun, DropPartitions, FinishRun, MapsMove
<1>7. ASSUME NEW o \in Orgs, LoadProjects(o) \/ TrimOrg(o)  PROVE MapsMove
  BY <1>7 DEF LoadProjects, TrimOrg, MapsMove
<1>8. CASE UNCHANGED vars  BY <1>8 DEF vars, MapsMove
<1>9. QED
  BY <1>1, <1>2, <1>3, <1>4, <1>5, <1>6, <1>7, <1>8 DEF Next, enforce_retention

\* The maps keep their types.
LEMMA MapsInitTyped == MapsInit => MapsTypeOK
<1> SUFFICES ASSUME MapsInit  PROVE MapsTypeOK  OBVIOUS
<1>0. Chunks \in Nat  BY MapsAssumption
<1>1. content \in [Uploads -> [1..Chunks -> Inodes]]  BY DEF MapsInit, Blank, Inodes
<1>2. upload \in [Uploads -> [pc : {"idle", "made", "streaming", "stored", "failed", "killed"},
                              handle : Inodes, sent : 0..Chunks]]
  BY <1>0 DEF MapsInit, Closed, Inodes
<1>3. reading \in [Readers -> [dir : Dirs \cup {Nobody}, key : Keys]]
  BY DEF MapsInit, AtRest, Inodes, Keys
<1>4. sweep \in [dir : Dirs \cup {Nobody}, expired : SUBSET Dirs, cutoff : Int]
  BY DEF MapsInit, NoSweep
<1>5. /\ dir \in [Dirs -> [exists : BOOLEAN, mtime : Nat]]
      /\ dest \in [Dirs -> Inodes] /\ tmp \in [Dirs -> Inodes]
      /\ mtime \in [Uploads -> Keys]
      /\ stamps \in [Dirs -> SUBSET Keys] /\ repeats \in [Dirs -> BOOLEAN]
      /\ cache \subseteq [dir : Dirs, key : Keys, map : Inodes]
      /\ latest \in [Dirs -> Inodes] /\ storedAt \in [Dirs -> Nat]
      /\ fresh \in [Dirs -> BOOLEAN] /\ clash \in [Dirs -> BOOLEAN]
      /\ pruned \subseteq [storedAt : Nat, fresh : BOOLEAN, cutoff : Int]
  BY DEF MapsInit, Inodes, Keys
<1>6. QED  BY <1>1, <1>2, <1>3, <1>4, <1>5 DEF MapsTypeOK

\* What a name has shown stays a set of stamps.
LEMMA ShowsTyped ==
    ASSUME MapsTypeOK, NEW d, NEW t \in Keys, Shows(d, t)
    PROVE  stamps' \in [Dirs -> SUBSET Keys] /\ repeats' \in [Dirs -> BOOLEAN]
<1>1. stamps' \in [Dirs -> SUBSET Keys]  BY DEF Shows, MapsTypeOK
<1>2. repeats' \in [Dirs -> BOOLEAN]  BY DEF Shows, MapsTypeOK
<1>3. QED  BY <1>1, <1>2

LEMMA UploadStepTyped ==
    ASSUME MapsTypeOK, now \in Nat, NEW u \in Uploads, UploadStep(u)
    PROVE  MapsTypeOK'
<1> DEFINE d == Target[u]
<1>0. /\ d \in Dirs /\ Chunks \in Nat
      /\ Touched(d) \in [Dirs -> [exists : BOOLEAN, mtime : Nat]]
  <2>1. d \in Dirs /\ Chunks \in Nat  BY MapsAssumption
  <2>2. dir \in [Dirs -> [exists : BOOLEAN, mtime : Nat]]  BY DEF MapsTypeOK
  <2> HIDE DEF d
  <2>3. Touched(d) \in [Dirs -> [exists : BOOLEAN, mtime : Nat]]
    BY <2>1, <2>2 DEF Touched
  <2>4. QED  BY <2>1, <2>3
<1>1. ASSUME NEW o \in {"stored", "failed"}, Reply(u, o)
      PROVE  upload' \in [Uploads -> [pc : {"idle", "made", "streaming", "stored", "failed",
                                            "killed"},
                                      handle : Inodes, sent : 0..Chunks]]
  <2> DEFINE Requests == [pc : {"idle", "made", "streaming", "stored", "failed", "killed"},
                          handle : Inodes, sent : 0..Chunks]
  <2>1. [Closed EXCEPT !.pc = o] \in Requests  BY <1>0 DEF Closed, Inodes
  <2>2. upload \in [Uploads -> Requests]  BY DEF MapsTypeOK
  <2> HIDE DEF Requests
  <2>3. upload' \in [Uploads -> Requests]  BY <1>1, <2>1, <2>2 DEF Reply
  <2>4. QED  BY <2>3 DEF Requests
<1>2. CASE MakeDir(u)
  <2> USE <1>0, <1>2 DEF MakeDir, MapsTypeOK
  <2>1. dir' \in [Dirs -> [exists : BOOLEAN, mtime : Nat]]  OBVIOUS
  <2>2. upload' \in [Uploads -> [pc : {"idle", "made", "streaming", "stored", "failed", "killed"},
                                handle : Inodes, sent : 0..Chunks]]
    BY ZenonT(40)
  <2>3. QED  BY <2>1, <2>2 DEF history
<1>3. CASE OpenTmp(u)
  <2> DEFINE i == Temporary(u)
  <2>1. i \in Uploads  BY <1>0 DEF Temporary, MapsTypeOK, Inodes
  <2> HIDE DEF i
  <2>2. Blank \in [1..Chunks -> Inodes]  BY DEF Blank, Inodes
  <2>3. upload' \in [Uploads -> [pc : {"idle", "made", "streaming", "stored", "failed", "killed"},
                                handle : Inodes, sent : 0..Chunks]]
    BY <1>0, <1>3, <2>1 DEF OpenTmp, MapsTypeOK, Inodes, i
  <2>4. tmp' \in [Dirs -> Inodes]
    BY <1>0, <1>3, <2>1 DEF OpenTmp, MapsTypeOK, Inodes, i
  <2>5. content' \in [Uploads -> [1..Chunks -> Inodes]]
    BY <1>3, <2>1, <2>2 DEF OpenTmp, MapsTypeOK, i
  <2>6. mtime' \in [Uploads -> Keys]
    <3>1. PICK t \in Stamps : mtime' = [mtime EXCEPT ![i] = t]  BY <1>3 DEF OpenTmp, i
    <3>2. QED  BY <2>1, <3>1 DEF MapsTypeOK, Keys
  <2>7. clash' \in [Dirs -> BOOLEAN]  BY <1>3 DEF OpenTmp, MapsTypeOK
  <2>8. QED
    BY <1>0, <1>3, <2>3, <2>4, <2>5, <2>6, <2>7 DEF OpenTmp, MapsTypeOK
<1>4. CASE NoDir(u)
  BY <1>0, <1>1, <1>4 DEF NoDir, MapsTypeOK, files, history
<1>5. CASE WriteChunk(u)
  <2> DEFINE i == upload[u].handle
             k == upload[u].sent + 1
  <2>1. k \in 1..Chunks /\ i \in Inodes /\ u \in Inodes
    BY <1>0, <1>5 DEF WriteChunk, MapsTypeOK, Inodes
  <2>2. upload' \in [Uploads -> [pc : {"idle", "made", "streaming", "stored", "failed", "killed"},
                                handle : Inodes, sent : 0..Chunks]]
    <3>1. upload' = [upload EXCEPT ![u].sent = upload[u].sent + 1]  BY <1>5 DEF WriteChunk
    <3>2. upload \in [Uploads -> [pc : {"idle", "made", "streaming", "stored", "failed",
                                        "killed"},
                                  handle : Inodes, sent : 0..Chunks]]
      BY DEF MapsTypeOK
    <3>3. upload[u].sent + 1 \in 0..Chunks  BY <1>0, <2>1, <3>2
    <3>4. QED  BY <3>1, <3>2, <3>3
  <2>3. content' \in [Uploads -> [1..Chunks -> Inodes]]
    <3>1. content' = [content EXCEPT ![i][k] = u]  BY <1>5 DEF WriteChunk
    <3>2. content \in [Uploads -> [1..Chunks -> Inodes]]  BY DEF MapsTypeOK
    <3> HIDE DEF i, k
    <3>3. QED  BY <2>1, <3>1, <3>2
  <2>4. PICK t \in Stamps :
            /\ mtime' = [mtime EXCEPT ![i] = t]
            /\ Shows(d, t) \/ UNCHANGED <<stamps, repeats>>
    BY <1>5 DEF WriteChunk
  <2>5. mtime' \in [Uploads -> Keys]  BY <2>4 DEF MapsTypeOK, Keys
  <2>6. stamps' \in [Dirs -> SUBSET Keys] /\ repeats' \in [Dirs -> BOOLEAN]
    BY <2>4, ShowsTyped DEF Keys, MapsTypeOK
  <2>7. QED  BY <1>5, <2>2, <2>3, <2>5, <2>6 DEF WriteChunk, MapsTypeOK
<1>6. CASE Replace(u)
  <2>1. dest' \in [Dirs -> Inodes] /\ tmp' \in [Dirs -> Inodes]
    BY <1>0, <1>6 DEF Replace, MapsTypeOK, Inodes
  <2>2. Reply(u, "stored")  BY <1>6 DEF Replace
  <2>3. /\ latest' \in [Dirs -> Inodes] /\ storedAt' \in [Dirs -> Nat]
        /\ fresh' \in [Dirs -> BOOLEAN]
    BY <1>6 DEF Replace, MapsTypeOK, Inodes
  <2>4. stamps' \in [Dirs -> SUBSET Keys] /\ repeats' \in [Dirs -> BOOLEAN]
    <3>1. tmp[d] \in Uploads  BY <1>0, <1>6 DEF Replace, MapsTypeOK, Inodes
    <3>2. mtime[tmp[d]] \in Keys  BY <3>1 DEF MapsTypeOK
    <3>3. Shows(d, mtime[tmp[d]])  BY <1>6 DEF Replace
    <3>4. QED  BY <3>2, <3>3, ShowsTyped
  <2>5. QED  BY <1>0, <1>1, <1>6, <2>1, <2>2, <2>3, <2>4 DEF Replace, MapsTypeOK
<1>7. CASE Abort(u)
  <2>1. tmp' \in [Dirs -> Inodes]  BY <1>0, <1>7 DEF Abort, MapsTypeOK, Inodes
  <2>2. Reply(u, "failed")  BY <1>7 DEF Abort
  <2>3. dir' \in [Dirs -> [exists : BOOLEAN, mtime : Nat]]
    BY <1>0, <1>7 DEF Abort, MapsTypeOK
  <2>4. QED  BY <1>1, <1>7, <2>1, <2>2, <2>3 DEF Abort, MapsTypeOK, history
<1>8. QED  BY <1>2, <1>3, <1>4, <1>5, <1>6, <1>7 DEF UploadStep

LEMMA MapsStayTyped == MapsTypeOK /\ now \in Nat /\ MapsMove => MapsTypeOK'
<1> SUFFICES ASSUME MapsTypeOK, now \in Nat, MapsMove  PROVE MapsTypeOK'  OBVIOUS
<1>0. Chunks \in Nat  BY MapsAssumption
<1>1. ASSUME NEW u \in Uploads, UploadStep(u)  PROVE MapsTypeOK'
  BY <1>1, UploadStepTyped
<1>2. CASE Kill
  <2>1. upload' \in [Uploads -> [pc : {"idle", "made", "streaming", "stored", "failed", "killed"},
                                handle : Inodes, sent : 0..Chunks]]
    <3> DEFINE Requests == [pc : {"idle", "made", "streaming", "stored", "failed", "killed"},
                            handle : Inodes, sent : 0..Chunks]
    <3>1. [Closed EXCEPT !.pc = "killed"] \in Requests  BY <1>0 DEF Closed, Inodes
    <3>2. upload \in [Uploads -> Requests]  BY DEF MapsTypeOK
    <3> HIDE DEF Requests
    <3>3. upload' \in [Uploads -> Requests]  BY <1>2, <3>1, <3>2 DEF Kill
    <3>4. QED  BY <3>3 DEF Requests
  <2>2. QED  BY <1>2, <2>1 DEF Kill, MapsTypeOK, files, history
<1>3. ASSUME NEW d \in Dirs, delete_release_maps(d)  PROVE MapsTypeOK'
  <2>1. dest' \in [Dirs -> Inodes] /\ tmp' \in [Dirs -> Inodes] /\ latest' \in [Dirs -> Inodes]
    BY <1>3 DEF delete_release_maps, MapsTypeOK, Inodes
  <2>2. QED  BY <1>3, <2>1 DEF delete_release_maps, MapsTypeOK
<1>4. ASSUME NEW d \in Dirs, Unlink(d)  PROVE MapsTypeOK'
  <2>1. Touched(d) \in [Dirs -> [exists : BOOLEAN, mtime : Nat]]
    BY ZenonT(40) DEF MapsTypeOK, Touched
  <2>2. dest' \in [Dirs -> Inodes] /\ tmp' \in [Dirs -> Inodes] /\ latest' \in [Dirs -> Inodes]
    BY <1>4 DEF Unlink, MapsTypeOK, Inodes
  <2>3. sweep' \in [dir : Dirs \cup {Nobody}, expired : SUBSET Dirs, cutoff : Int]
    BY <1>4 DEF Unlink, MapsTypeOK
  <2>4. pruned' \subseteq [storedAt : Nat, fresh : BOOLEAN, cutoff : Int]
    BY <1>4 DEF Unlink, MapsTypeOK
  <2>5. QED  BY <1>4, <2>1, <2>2, <2>3, <2>4 DEF Unlink, MapsTypeOK
<1>5. ASSUME NEW r \in Readers, ParseCached(r)  PROVE MapsTypeOK'
  <2> DEFINE d == reading[r].dir
             entry == [dir |-> d, key |-> reading[r].key, map |-> OnDisk(d)]
  <2>1. d \in Dirs /\ reading[r].key \in Keys  BY <1>5 DEF ParseCached, MapsTypeOK
  <2>2. OnDisk(d) \in Inodes
    <3>1. CASE dest[d] = Nobody  BY <3>1 DEF OnDisk, Inodes
    <3>2. CASE dest[d] # Nobody
      <4>1. dest[d] \in Uploads  BY <2>1, <3>2 DEF MapsTypeOK, Inodes
      <4> DEFINE c == content[dest[d]]
      <4>2. c \in [1..Chunks -> Inodes]  BY <4>1 DEF MapsTypeOK
      <4>3. 1 \in 1..Chunks  BY MapsAssumption
      <4>4. c[1] \in Inodes /\ Nobody \in Inodes  BY <4>2, <4>3 DEF Inodes
      <4> HIDE DEF c
      <4>5. Parse(c) \in Inodes  BY <4>4 DEF Parse
      <4>6. QED  BY <3>2, <4>5 DEF OnDisk, c
    <3>3. QED  BY <3>1, <3>2
  <2>3. entry \in [dir : Dirs, key : Keys, map : Inodes]  BY <2>1, <2>2
  <2>4. cache' \subseteq [dir : Dirs, key : Keys, map : Inodes]
    <3>1. cache' \subseteq cache \cup {entry}  BY <1>5 DEF ParseCached
    <3> HIDE DEF entry
    <3>2. QED  BY <2>3, <3>1 DEF MapsTypeOK
  <2>5. AtRest \in [dir : Dirs \cup {Nobody}, key : Keys]  BY DEF AtRest, Keys
  <2>6. reading' \in [Readers -> [dir : Dirs \cup {Nobody}, key : Keys]]
    BY <1>5, <2>5 DEF ParseCached, MapsTypeOK
  <2>7. QED  BY <1>5, <2>4, <2>6 DEF ParseCached, MapsTypeOK, files, history
<1>6. ASSUME NEW r \in Readers, NEW d \in Dirs, Stat(r, d)  PROVE MapsTypeOK'
  <2>1. dest[d] \in Uploads  BY <1>6 DEF Stat, MapsTypeOK, Inodes
  <2>2. CacheKey(dest[d]) \in Keys  BY <2>1 DEF CacheKey, MapsTypeOK
  <2>3. reading' \in [Readers -> [dir : Dirs \cup {Nobody}, key : Keys]]
    BY <1>6, <2>2 DEF Stat, MapsTypeOK
  <2>4. QED  BY <1>6, <2>3 DEF Stat, MapsTypeOK, files, history
<1>7. CASE Rmdir
  <2>1. sweep' \in [dir : Dirs \cup {Nobody}, expired : SUBSET Dirs, cutoff : Int]
    BY <1>7 DEF Rmdir, MapsTypeOK
  <2>2. dir' \in [Dirs -> [exists : BOOLEAN, mtime : Nat]]  BY <1>7 DEF Rmdir, MapsTypeOK
  <2>3. QED  BY <1>7, <2>1, <2>2 DEF Rmdir, MapsTypeOK, history
<1>8. ASSUME NEW cutoff \in Int, WalkReleaseDirs(cutoff)  PROVE MapsTypeOK'
  <2>1. sweep' \in [dir : Dirs \cup {Nobody}, expired : SUBSET Dirs, cutoff : Int]
    BY <1>8 DEF WalkReleaseDirs, release_dirs_older_than, NoSweep
  <2>2. QED  BY <1>8, <2>1 DEF WalkReleaseDirs, MapsTypeOK, files
<1>9. CASE EndOfSweep
  BY <1>9 DEF EndOfSweep, MapsTypeOK, files, history, NoSweep
<1>10. CASE UNCHANGED mapVars
  BY <1>10 DEF mapVars, MapsTypeOK, files, history
<1>11. QED
  BY <1>1, <1>2, <1>3, <1>4, <1>5, <1>6, <1>7, <1>8, <1>9, <1>10 DEF MapsMove, MapsNext

-----------------------------------------------------------------------------
(* Source maps: which inode has which name.                                *)

\* An upload that has not opened its file yet has left no inode behind.
Unopened(u) == upload[u].pc \in {"idle", "made"}

\* What most steps do: no file is opened, written or renamed; names go and requests end.
Quiet ==
    /\ content' = content /\ mtime' = mtime
    /\ clash' = clash /\ storedAt' = storedAt /\ stamps' = stamps /\ repeats' = repeats
    /\ \A d \in Dirs :
        /\ tmp'[d] \in {tmp[d], Nobody}
        /\ \/ dest'[d] = dest[d] /\ latest'[d] = latest[d]
           \/ dest'[d] = Nobody /\ latest'[d] = Nobody
        /\ dest'[d] # Nobody => dir'[d].mtime \in {dir[d].mtime, now}
    /\ \A u \in Uploads :
        /\ Unopened(u)' => Unopened(u)
        /\ u \in Streaming' => u \in Streaming /\ upload'[u] = upload[u]

LEMMA QuietOrLoud ==
    ASSUME MapsTypeOK, MapsMove
    PROVE  Quiet \/ \E u \in Uploads : OpenTmp(u) \/ WriteChunk(u) \/ Replace(u)
<1> USE DEF Quiet, Unopened, Streaming
<1>1. ASSUME NEW u \in Uploads, MakeDir(u)  PROVE Quiet
  <2>0. Target[u] \in Dirs  BY MapsAssumption
  <2>1. \A d \in Dirs : dir'[d].mtime \in {dir[d].mtime, now}
    BY <1>1, <2>0 DEF MakeDir, MapsTypeOK
  <2>2. \A v \in Uploads :
            /\ Unopened(v)' => Unopened(v)
            /\ v \in Streaming' => v \in Streaming /\ upload'[v] = upload[v]
    BY <1>1 DEF MakeDir, MapsTypeOK
  <2>3. QED  BY <1>1, <2>1, <2>2 DEF MakeDir, history
<1>2. ASSUME NEW u \in Uploads, NoDir(u)  PROVE Quiet
  BY <1>2 DEF NoDir, Reply, Closed, MapsTypeOK, files, history
<1>3. ASSUME NEW u \in Uploads, Abort(u)  PROVE Quiet
  <2>0. Target[u] \in Dirs  BY MapsAssumption
  <2>1. \A d \in Dirs : dir'[d].mtime \in {dir[d].mtime, now}
    BY <1>3, <2>0 DEF Abort, Touched, MapsTypeOK
  <2>2. \A v \in Uploads :
            /\ Unopened(v)' => Unopened(v)
            /\ v \in Streaming' => v \in Streaming /\ upload'[v] = upload[v]
    BY <1>3 DEF Abort, Reply, Closed, MapsTypeOK
  <2>3. \A d \in Dirs : tmp'[d] \in {tmp[d], Nobody}
    BY <1>3 DEF Abort, MapsTypeOK
  <2>4. QED  BY <1>3, <2>1, <2>2, <2>3 DEF Abort, history
<1>4. CASE Kill
  BY <1>4 DEF Kill, Closed, MapsTypeOK, files, history
<1>5. ASSUME NEW d \in Dirs, delete_release_maps(d)  PROVE Quiet
  <2>1. ASSUME NEW e \in Dirs
        PROVE  /\ tmp'[e] \in {tmp[e], Nobody}
               /\ \/ dest'[e] = dest[e] /\ latest'[e] = latest[e]
                  \/ dest'[e] = Nobody /\ latest'[e] = Nobody
               /\ dest'[e] # Nobody => dir'[e].mtime \in {dir[e].mtime, now}
    <3>1. e # d => /\ dest'[e] = dest[e] /\ tmp'[e] = tmp[e] /\ dir'[e] = dir[e]
                   /\ latest'[e] = latest[e]
      BY <1>5 DEF delete_release_maps
    <3>2. e = d => dest'[e] = Nobody /\ tmp'[e] = Nobody /\ latest'[e] = Nobody
      BY <1>5 DEF delete_release_maps, MapsTypeOK
    <3>3. QED  BY <3>1, <3>2
  <2>2. QED  BY <1>5, <2>1 DEF delete_release_maps
<1>6. ASSUME NEW d \in Dirs, Unlink(d)  PROVE Quiet
  <2>1. ASSUME NEW e \in Dirs
        PROVE  /\ tmp'[e] \in {tmp[e], Nobody}
               /\ \/ dest'[e] = dest[e] /\ latest'[e] = latest[e]
                  \/ dest'[e] = Nobody /\ latest'[e] = Nobody
               /\ dest'[e] # Nobody => dir'[e].mtime \in {dir[e].mtime, now}
    <3>1. e # d => /\ dest'[e] = dest[e] /\ tmp'[e] = tmp[e] /\ dir'[e] = dir[e]
                   /\ latest'[e] = latest[e]
      BY <1>6 DEF Unlink, Touched
    <3>2. e = d => dest'[e] = Nobody /\ tmp'[e] = Nobody /\ latest'[e] = Nobody
      BY <1>6 DEF Unlink, MapsTypeOK
    <3>3. QED  BY <3>1, <3>2
  <2>2. QED  BY <1>6, <2>1 DEF Unlink
<1>7. CASE Rmdir
  BY <1>7 DEF Rmdir, MapsTypeOK, history
<1>8. ASSUME NEW r \in Readers, ParseCached(r) \/ \E d \in Dirs : Stat(r, d)  PROVE Quiet
  BY <1>8 DEF ParseCached, Stat, files, history
<1>9. ASSUME NEW cutoff \in Int, WalkReleaseDirs(cutoff)  PROVE Quiet
  BY <1>9 DEF WalkReleaseDirs, files
<1>10. CASE EndOfSweep \/ UNCHANGED mapVars
  BY <1>10 DEF EndOfSweep, mapVars, files, history
<1>11. QED
  BY <1>1, <1>2, <1>3, <1>4, <1>5, <1>6, <1>7, <1>8, <1>9, <1>10
     DEF MapsMove, MapsNext, UploadStep

\* Where inodes are: a name of a directory is an inode opened by an upload to it, never
\* under both names, and an open handle is of the same directory.
InodesPlaced ==
    /\ \A d \in Dirs :
        /\ tmp[d] # Nobody => Target[tmp[d]] = d /\ ~Unopened(tmp[d]) /\ tmp[d] # dest[d]
        /\ dest[d] # Nobody => Target[dest[d]] = d /\ ~Unopened(dest[d])
    /\ \A u \in Streaming :
        LET i == upload[u].handle
        IN  i \in Uploads /\ Target[i] = Target[u] /\ ~Unopened(i)

LEMMA InodesStayPlaced ==
    ASSUME MapsTypeOK, InodesPlaced, MapsMove
    PROVE  InodesPlaced'
<1>1. CASE Quiet
  <2>1. ASSUME NEW d \in Dirs
        PROVE  /\ tmp'[d] # Nobody => /\ Target[tmp'[d]] = d /\ ~Unopened(tmp[d])'
                                      /\ tmp'[d] # dest'[d]
               /\ dest'[d] # Nobody => Target[dest'[d]] = d /\ ~Unopened(dest[d])'
    <3>1. tmp'[d] # Nobody => tmp'[d] = tmp[d] /\ tmp[d] \in Uploads
      BY <1>1 DEF Quiet, MapsTypeOK, Inodes
    <3>2. dest'[d] # Nobody => dest'[d] = dest[d] /\ dest[d] \in Uploads
      BY <1>1 DEF Quiet, MapsTypeOK, Inodes
    <3>3. QED  BY <1>1, <3>1, <3>2 DEF Quiet, InodesPlaced, Unopened
  <2>2. ASSUME NEW v \in Streaming'
        PROVE  LET h == upload'[v].handle
               IN  h \in Uploads /\ Target[h] = Target[v] /\ ~Unopened(upload[v].handle)'
    BY <1>1 DEF Quiet, InodesPlaced, Unopened, Streaming
  <2>3. QED  BY <2>1, <2>2 DEF InodesPlaced
<1>2. ASSUME NEW u \in Uploads, WriteChunk(u)  PROVE InodesPlaced'
  <2>1. UNCHANGED <<tmp, dest>>  BY <1>2 DEF WriteChunk
  <2>2. \A v \in Uploads : upload'[v].pc = upload[v].pc /\ upload'[v].handle = upload[v].handle
    BY <1>2 DEF WriteChunk, MapsTypeOK
  <2>3. QED  BY <2>1, <2>2 DEF InodesPlaced, Unopened, Streaming, MapsTypeOK, Inodes
<1>3. ASSUME NEW u \in Uploads, Replace(u)  PROVE InodesPlaced'
  <2> DEFINE d == Target[u]
  <2>1. d \in Dirs /\ tmp[d] \in Uploads  BY <1>3, MapsAssumption DEF Replace, MapsTypeOK, Inodes
  <2>2. \A v \in Uploads :
            /\ Unopened(v)' => Unopened(v)
            /\ v \in Streaming' => v \in Streaming /\ upload'[v] = upload[v]
    BY <1>3 DEF Replace, Reply, Closed, MapsTypeOK, Unopened, Streaming
  <2>3. \A e \in Dirs : /\ dest'[e] = IF e = d THEN tmp[e] ELSE dest[e]
                        /\ tmp'[e] = IF e = d THEN Nobody ELSE tmp[e]
    BY <1>3 DEF Replace, MapsTypeOK
  <2>4. ASSUME NEW e \in Dirs
        PROVE  /\ tmp'[e] # Nobody => /\ Target[tmp'[e]] = e /\ ~Unopened(tmp[e])'
                                      /\ tmp'[e] # dest'[e]
               /\ dest'[e] # Nobody => Target[dest'[e]] = e /\ ~Unopened(dest[e])'
    <3>1. tmp[e] \in Uploads \cup {Nobody} /\ dest[e] \in Uploads \cup {Nobody}
      BY DEF MapsTypeOK, Inodes
    <3>2. QED  BY <2>1, <2>2, <2>3, <3>1 DEF InodesPlaced, Unopened
  <2>5. ASSUME NEW v \in Streaming'
        PROVE  LET h == upload'[v].handle
               IN  h \in Uploads /\ Target[h] = Target[v] /\ ~Unopened(upload[v].handle)'
    BY <2>2 DEF InodesPlaced, Unopened, Streaming
  <2>6. QED  BY <2>4, <2>5 DEF InodesPlaced
<1>4. ASSUME NEW u \in Uploads, OpenTmp(u)  PROVE InodesPlaced'
  <2> DEFINE d == Target[u]
             i == Temporary(u)
  <2>1. d \in Dirs /\ Unopened(u)  BY <1>4, MapsAssumption DEF OpenTmp, Unopened
  <2>2. i \in Uploads /\ Target[i] = d /\ (~Unopened(i) \/ i = u) /\ i # dest[d]
    <3>1. tmp[d] \in Uploads \cup {Nobody} /\ dest[d] \in Uploads \cup {Nobody}
      BY <2>1 DEF MapsTypeOK, Inodes
    <3>2. dest[d] # u  BY <2>1, MapsAssumption DEF InodesPlaced
    <3>3. QED  BY <2>1, <3>1, <3>2 DEF Temporary, InodesPlaced
  <2> HIDE DEF i
  <2>3. \A v \in Uploads :
            upload'[v] = IF v = u THEN [pc |-> "streaming", handle |-> i, sent |-> 0]
                         ELSE upload[v]
    BY <1>4 DEF OpenTmp, MapsTypeOK, i
  <2>4. \A v \in Uploads : /\ Unopened(v)' => Unopened(v) /\ v # u
                           /\ ~Unopened(v) => ~Unopened(v)'
                           /\ v \in Streaming' => v = u \/ v \in Streaming
    BY <2>3 DEF Unopened, Streaming
  <2>5. /\ dest' = dest
        /\ \A e \in Dirs : tmp'[e] = IF e = d THEN i ELSE tmp[e]
    BY <1>4 DEF OpenTmp, MapsTypeOK, i
  <2>6. ASSUME NEW e \in Dirs
        PROVE  /\ tmp'[e] # Nobody => /\ Target[tmp'[e]] = e /\ ~Unopened(tmp[e])'
                                      /\ tmp'[e] # dest'[e]
               /\ dest'[e] # Nobody => Target[dest'[e]] = e /\ ~Unopened(dest[e])'
    <3>1. tmp[e] \in Uploads \cup {Nobody} /\ dest[e] \in Uploads \cup {Nobody}
      BY DEF MapsTypeOK, Inodes
    <3>2. upload'[i].pc \notin {"idle", "made"}
      BY <2>2, <2>3 DEF Unopened
    <3>3. QED  BY <2>1, <2>2, <2>3, <2>4, <2>5, <3>1, <3>2 DEF InodesPlaced, Unopened
  <2>7. ASSUME NEW v \in Streaming'
        PROVE  LET h == upload'[v].handle
               IN  h \in Uploads /\ Target[h] = Target[v] /\ ~Unopened(upload[v].handle)'
    BY <2>1, <2>2, <2>3, <2>4 DEF InodesPlaced, Streaming
  <2>8. QED  BY <2>6, <2>7 DEF InodesPlaced
<1>5. QED  BY <1>1, <1>2, <1>3, <1>4, QuietOrLoud

-----------------------------------------------------------------------------
(* The file in place is the one last acknowledged.                         *)

\* One upload at a time writes to a directory ...
OneWriter(d) == \A u, v \in Streaming : Target[u] = d /\ Target[v] = d => u = v

\* ... the file that has the temporary name, alone and from its start ...
WriterOwns(d) ==
    \A u \in Streaming : Target[u] = d =>
        /\ upload[u].handle # dest[d]
        /\ tmp[d] \in {upload[u].handle, Nobody}
        /\ \A k \in 1 .. upload[u].sent : content[upload[u].handle][k] = u

\* ... and the file in place is whole.
WholeInPlace(d) ==
    /\ dest[d] = Nobody => latest[d] = Nobody
    /\ dest[d] # Nobody => /\ latest[d] \in Uploads
                           /\ content[dest[d]] = [k \in 1 .. Chunks |-> latest[d]]

\* So it is as long as no two uploads of the name were open together.
NamesApart ==
    \A d \in Dirs : ~clash[d] => OneWriter(d) /\ WriterOwns(d) /\ WholeInPlace(d)

LEMMA NamesStayApart ==
    ASSUME MapsTypeOK, MapsTypeOK', InodesPlaced, NamesApart, MapsMove
    PROVE  NamesApart'
<1>0. ASSUME NEW d \in Dirs
      PROVE  dest[d] \in Uploads \cup {Nobody} /\ tmp[d] \in Uploads \cup {Nobody}
  BY DEF MapsTypeOK, Inodes
<1> SUFFICES ASSUME NEW d \in Dirs, ~clash'[d]
             PROVE  OneWriter(d)' /\ WriterOwns(d)' /\ WholeInPlace(d)'
  BY DEF NamesApart
<1>1. CASE Quiet
  <2>1. \A u \in Streaming' : u \in Streaming /\ upload'[u] = upload[u]
    BY <1>1 DEF Quiet, Streaming
  <2>2. \A u \in Streaming : upload[u].handle # Nobody
    BY MapsAssumption DEF InodesPlaced
  <2>3. ~clash[d] /\ content' = content /\ tmp'[d] \in {tmp[d], Nobody}
    BY <1>1 DEF Quiet
  <2>4. \/ dest'[d] = dest[d] /\ latest'[d] = latest[d]
        \/ dest'[d] = Nobody /\ latest'[d] = Nobody
    BY <1>1 DEF Quiet
  <2>5. OneWriter(d) /\ WriterOwns(d) /\ WholeInPlace(d)  BY <2>3 DEF NamesApart
  <2>6. OneWriter(d)'  BY <2>1, <2>5 DEF OneWriter
  <2>7. WriterOwns(d)'  BY <2>1, <2>2, <2>3, <2>4, <2>5 DEF WriterOwns
  <2>8. WholeInPlace(d)'  BY <2>3, <2>4, <2>5, MapsAssumption DEF WholeInPlace
  <2>9. QED  BY <2>6, <2>7, <2>8
<1>2. ASSUME NEW u \in Uploads, WriteChunk(u)
      PROVE  OneWriter(d)' /\ WriterOwns(d)' /\ WholeInPlace(d)'
  <2> DEFINE i == upload[u].handle
  <2>1. /\ dest' = dest /\ tmp' = tmp /\ latest' = latest /\ ~clash[d]
        /\ u \in Streaming
    BY <1>2 DEF WriteChunk, Streaming
  <2>2. i \in Uploads /\ Target[i] = Target[u] /\ Target[u] \in Dirs
    BY <2>1, MapsAssumption DEF InodesPlaced
  <2>3. content' = [content EXCEPT ![i][upload[u].sent + 1] = u]
    BY <1>2 DEF WriteChunk
  <2>4. /\ upload' = [upload EXCEPT ![u].sent = upload[u].sent + 1]
        /\ upload[u].sent + 1 \in 1..Chunks
    BY <1>2, MapsAssumption DEF WriteChunk, MapsTypeOK
  <2>5. /\ \A v \in Uploads : v # u => upload'[v] = upload[v]
        /\ upload'[u].handle = i /\ upload'[u].pc = "streaming"
        /\ upload'[u].sent = upload[u].sent + 1
    BY <2>1, <2>4 DEF MapsTypeOK, Streaming
  <2>6. Streaming' = Streaming  BY <2>1, <2>5 DEF Streaming
  <2>7. /\ \A x \in Uploads : x # i => content'[x] = content[x]
        /\ \A k \in 1..Chunks : content'[i][k] = IF k = upload[u].sent + 1 THEN u
                                                 ELSE content[i][k]
    BY <2>2, <2>3, <2>4 DEF MapsTypeOK
  <2> HIDE DEF i
  <2>8. OneWriter(d) /\ WriterOwns(d) /\ WholeInPlace(d)  BY <2>1 DEF NamesApart
  <2>9. ASSUME NEW v \in Streaming, Target[v] = d
        PROVE  /\ upload'[v].handle # dest[d]
               /\ tmp[d] \in {upload'[v].handle, Nobody}
               /\ \A k \in 1 .. upload'[v].sent : content'[upload'[v].handle][k] = v
    <3>0. v \in Uploads /\ upload'[v].handle = upload[v].handle
      BY <2>5 DEF Streaming, i
    <3>1. upload[v].handle # dest[d] /\ tmp[d] \in {upload[v].handle, Nobody}
      BY <2>8, <2>9 DEF WriterOwns
    <3>2. \A k \in 1 .. upload[v].sent : content[upload[v].handle][k] = v
      BY <2>8, <2>9 DEF WriterOwns
    <3>3. CASE v = u
      <4>1. upload[u].sent \in 0..Chunks  BY DEF MapsTypeOK
      <4>2. ASSUME NEW k \in 1 .. upload[u].sent + 1  PROVE content'[i][k] = u
        BY <2>4, <2>7, <3>2, <3>3, <4>1, MapsAssumption DEF i
      <4>3. QED  BY <2>5, <3>0, <3>1, <3>3, <4>2
    <3>4. CASE v # u
      <4>1. Target[u] # d  BY <2>1, <2>8, <2>9, <3>4 DEF OneWriter
      <4>2. upload[v].handle \in Uploads /\ upload[v].handle # i
        BY <2>2, <2>9, <4>1 DEF InodesPlaced
      <4>3. QED  BY <2>5, <2>7, <3>0, <3>1, <3>2, <3>4, <4>2
    <3>5. QED  BY <3>3, <3>4
  <2>10. ASSUME dest[d] # Nobody  PROVE content'[dest[d]] = [k \in 1 .. Chunks |-> latest[d]]
    <3>1. dest[d] \in Uploads /\ Target[dest[d]] = d  BY <1>0, <2>10 DEF InodesPlaced
    <3>2. dest[d] # i  BY <2>1, <2>2, <2>8, <3>1 DEF WriterOwns, i
    <3>3. QED  BY <2>7, <2>8, <2>10, <3>1, <3>2 DEF WholeInPlace
  <2>11. OneWriter(d)'  BY <2>6, <2>8 DEF OneWriter
  <2>12. WriterOwns(d)'  BY <2>1, <2>6, <2>9 DEF WriterOwns
  <2>13. WholeInPlace(d)'  BY <2>1, <2>8, <2>10 DEF WholeInPlace
  <2>14. QED  BY <2>11, <2>12, <2>13
<1>3. ASSUME NEW u \in Uploads, Replace(u)
      PROVE  OneWriter(d)' /\ WriterOwns(d)' /\ WholeInPlace(d)'
  <2> DEFINE t == Target[u]
  <2>1. t \in Dirs /\ u \in Streaming /\ upload[u].sent = Chunks /\ tmp[t] # Nobody
    BY <1>3, MapsAssumption DEF Replace, Whole, Streaming
  <2>2. \A v \in Streaming' : v \in Streaming /\ v # u /\ upload'[v] = upload[v]
    BY <1>3 DEF Replace, Reply, Closed, MapsTypeOK, Streaming
  <2>3. /\ content' = content /\ ~clash[d]
        /\ dest'[d] = IF d = t THEN tmp[d] ELSE dest[d]
        /\ tmp'[d] = IF d = t THEN Nobody ELSE tmp[d]
        /\ latest'[d] = IF d = t THEN u ELSE latest[d]
    BY <1>3 DEF Replace, MapsTypeOK
  <2>4. OneWriter(d) /\ WriterOwns(d) /\ WholeInPlace(d)  BY <2>3 DEF NamesApart
  <2>5. OneWriter(d)'  BY <2>2, <2>4 DEF OneWriter
  <2>6. CASE d = t
    <3>1. \A v \in Streaming' : Target[v] # d  BY <2>1, <2>2, <2>4, <2>6 DEF OneWriter
    <3>2. tmp[d] = upload[u].handle  BY <2>1, <2>4, <2>6 DEF WriterOwns
    <3>3. tmp[d] \in Uploads  BY <1>0, <2>1, <2>6
    <3>4. \A k \in 1..Chunks : content[tmp[d]][k] = u
      BY <2>1, <2>4, <2>6, <3>2 DEF WriterOwns
    <3>5. content[tmp[d]] = [k \in 1..Chunks |-> content[tmp[d]][k]]
      BY <3>3 DEF MapsTypeOK
    <3>6. content[tmp[d]] = [k \in 1..Chunks |-> u]  BY <3>4, <3>5
    <3>7. WriterOwns(d)'  BY <3>1 DEF WriterOwns
    <3>8. WholeInPlace(d)'  BY <2>1, <2>3, <2>6, <3>6 DEF WholeInPlace
    <3>9. QED  BY <2>5, <3>7, <3>8
  <2>7. CASE d # t
    <3>1. WriterOwns(d)'  BY <2>2, <2>3, <2>4, <2>7 DEF WriterOwns
    <3>2. WholeInPlace(d)'  BY <2>3, <2>4, <2>7 DEF WholeInPlace
    <3>3. QED  BY <2>5, <3>1, <3>2
  <2>8. QED  BY <2>6, <2>7
<1>4. ASSUME NEW u \in Uploads, OpenTmp(u)
      PROVE  OneWriter(d)' /\ WriterOwns(d)' /\ WholeInPlace(d)'
  <2> DEFINE t == Target[u]
             i == Temporary(u)
  <2>1. t \in Dirs /\ Unopened(u)  BY <1>4, MapsAssumption DEF OpenTmp, Unopened
  <2>2. i \in Uploads /\ Target[i] = t /\ i # dest[t]
    <3>1. dest[t] # u  BY <2>1, MapsAssumption DEF InodesPlaced
    <3>2. QED  BY <1>0, <2>1, <3>1 DEF Temporary, InodesPlaced
  <2>3. /\ dest' = dest /\ latest' = latest
        /\ tmp'[d] = IF d = t THEN i ELSE tmp[d]
        /\ ~clash[d] /\ (d = t => \A v \in Streaming : Target[v] # d)
        /\ \A x \in Uploads : content'[x] = IF x = i THEN Blank ELSE content[x]
    BY <1>4 DEF OpenTmp, MapsTypeOK
  <2>4. upload' = [upload EXCEPT ![u] = [pc |-> "streaming", handle |-> i, sent |-> 0]]
    BY <1>4 DEF OpenTmp
  <2> HIDE DEF i
  <2>5. \A v \in Uploads :
            upload'[v] = IF v = u THEN [pc |-> "streaming", handle |-> i, sent |-> 0]
                         ELSE upload[v]
    BY <2>4 DEF MapsTypeOK
  <2>6. \A v \in Streaming' : v = u \/ (v \in Streaming /\ v # u /\ upload'[v] = upload[v])
    <3>1. ASSUME NEW v \in Uploads, v \in Streaming', v # u
          PROVE  v \in Streaming /\ upload'[v] = upload[v]
      BY <2>5, <3>1 DEF Streaming
    <3>2. \A v \in Streaming' : v \in Uploads  BY DEF Streaming
    <3>3. QED  BY <3>1, <3>2
  <2>7. upload'[u].handle = i /\ upload'[u].sent = 0
    BY <2>5
  <2>8. OneWriter(d) /\ WriterOwns(d) /\ WholeInPlace(d)  BY <2>3 DEF NamesApart
  <2>9. ASSUME dest[d] # Nobody
        PROVE  latest[d] \in Uploads /\ content'[dest[d]] = [k \in 1 .. Chunks |-> latest[d]]
    <3>1. dest[d] \in Uploads /\ Target[dest[d]] = d  BY <1>0, <2>9 DEF InodesPlaced
    <3>2. dest[d] # i  BY <2>2, <3>1
    <3>3. QED  BY <2>3, <2>8, <2>9, <3>1, <3>2 DEF WholeInPlace
  <2>10. WholeInPlace(d)'  BY <2>3, <2>8, <2>9 DEF WholeInPlace
  <2>11. CASE d = t
    <3>1. \A v \in Streaming' : Target[v] = d => v = u  BY <2>3, <2>6, <2>11
    <3>2. OneWriter(d)'  BY <3>1 DEF OneWriter
    <3>3. WriterOwns(d)'  BY <2>2, <2>3, <2>7, <2>11, <3>1 DEF WriterOwns
    <3>4. QED  BY <2>10, <3>2, <3>3
  <2>12. CASE d # t
    <3>1. \A v \in Streaming' : Target[v] = d => v \in Streaming /\ upload'[v] = upload[v]
      BY <2>6, <2>12
    <3>2. OneWriter(d)'  BY <2>8, <3>1 DEF OneWriter
    <3>3. \A v \in Streaming : Target[v] = d =>
              upload[v].handle \in Uploads /\ upload[v].handle # i
      BY <2>2, <2>12 DEF InodesPlaced
    <3>4. WriterOwns(d)'  BY <2>3, <2>8, <2>12, <3>1, <3>3 DEF WriterOwns
    <3>5. QED  BY <2>10, <3>2, <3>4
  <2>13. QED  BY <2>11, <2>12
<1>5. QED  BY <1>1, <1>2, <1>3, <1>4, QuietOrLoud

\* A file that one upload wrote is its map.
LEMMA WholeParses ==
    ASSUME NEW u \in Uploads
    PROVE  Parse([k \in 1 .. Chunks |-> u]) = u
<1>1. 1 \in 1..Chunks  BY MapsAssumption
<1>2. QED  BY <1>1 DEF Parse

LEMMA ApartIsLatest == NamesApart => StoredIsLatest
<1> SUFFICES ASSUME NamesApart, NEW d \in Dirs, ~clash[d]
             PROVE  OnDisk(d) = latest[d]
  BY DEF StoredIsLatest
<1>1. WholeInPlace(d)  BY DEF NamesApart
<1>2. CASE dest[d] = Nobody  BY <1>1, <1>2 DEF WholeInPlace, OnDisk
<1>3. CASE dest[d] # Nobody
  <2>1. latest[d] \in Uploads /\ content[dest[d]] = [k \in 1 .. Chunks |-> latest[d]]
    BY <1>1, <1>3 DEF WholeInPlace
  <2>2. QED  BY <1>3, <2>1, WholeParses DEF OnDisk
<1>4. QED  BY <1>2, <1>3

-----------------------------------------------------------------------------
(* The cache.                                                              *)

\* Keys are stamps that the name has shown: those of the entries, those stat'ed, and that
\* of the file in place.
KeysArePast ==
    /\ \A c \in cache : c.key \in stamps[c.dir]
    /\ \A r \in Readers : reading[r].dir # Nobody => reading[r].key \in stamps[reading[r].dir]
    /\ \A d \in Dirs : dest[d] # Nobody => mtime[dest[d]] \in stamps[d]

\* What a name has shown it has shown.
LEMMA StampsStay ==
    ASSUME MapsTypeOK, MapsMove, NEW d \in Dirs
    PROVE  stamps[d] \subseteq stamps'[d] /\ (repeats[d] => repeats'[d])
<1>1. CASE Quiet  BY <1>1 DEF Quiet
<1>2. ASSUME NEW u \in Uploads, WriteChunk(u)
      PROVE  stamps[d] \subseteq stamps'[d] /\ (repeats[d] => repeats'[d])
  <2>1. (\E t \in Stamps : Shows(Target[u], t)) \/ UNCHANGED <<stamps, repeats>>
    BY <1>2 DEF WriteChunk
  <2>2. ASSUME NEW e, NEW t, Shows(e, t)
        PROVE  stamps[d] \subseteq stamps'[d] /\ (repeats[d] => repeats'[d])
    BY <2>2 DEF Shows, MapsTypeOK
  <2>3. QED  BY <2>1, <2>2
<1>3. ASSUME NEW u \in Uploads, Replace(u)
      PROVE  stamps[d] \subseteq stamps'[d] /\ (repeats[d] => repeats'[d])
  BY <1>3 DEF Replace, Shows, MapsTypeOK
<1>4. ASSUME NEW u \in Uploads, OpenTmp(u)
      PROVE  stamps[d] \subseteq stamps'[d] /\ (repeats[d] => repeats'[d])
  BY <1>4 DEF OpenTmp
<1>5. QED  BY <1>1, <1>2, <1>3, <1>4, QuietOrLoud

\* A file in place stays as it is, or the name shows a content with some stamp.
LEMMA PlacedOrShown ==
    ASSUME MapsTypeOK, InodesPlaced, MapsMove, NEW d \in Dirs, dest'[d] # Nobody
    PROVE  LET f == dest'[d]
           IN  \/ dest[d] = f /\ mtime'[f] = mtime[f] /\ content'[f] = content[f]
               \/ Shows(d, mtime'[f])
<1> DEFINE f == dest'[d]
           Kept == dest[d] = f /\ mtime'[f] = mtime[f] /\ content'[f] = content[f]
<1>0. /\ dest[d] \in Uploads \cup {Nobody} /\ tmp[d] \in Uploads \cup {Nobody}
      /\ \A u \in Uploads : Target[u] \in Dirs
  BY MapsAssumption DEF MapsTypeOK, Inodes
<1>1. CASE Quiet  BY <1>1 DEF Quiet
<1>2. ASSUME NEW u \in Uploads, WriteChunk(u)  PROVE Kept \/ Shows(d, mtime'[f])
  <2> DEFINE i == upload[u].handle
  <2>1. PICK t \in Stamps :
            /\ mtime' = [mtime EXCEPT ![i] = t]
            /\ dest[Target[u]] = i => Shows(Target[u], t)
    BY <1>2 DEF WriteChunk
  <2>2. dest' = dest /\ f \in Uploads  BY <1>0, <1>2 DEF WriteChunk
  <2>3. content' = [content EXCEPT ![i][upload[u].sent + 1] = u]  BY <1>2 DEF WriteChunk
  <2>4. u \in Streaming  BY <1>2 DEF WriteChunk, Streaming
  <2>5. i \in Uploads /\ Target[i] = Target[u]  BY <2>4 DEF InodesPlaced
  <2> HIDE DEF i
  <2>6. CASE f = i
    <3>1. Target[f] = d  BY <2>2 DEF InodesPlaced
    <3>2. d = Target[u]  BY <2>5, <2>6, <3>1
    <3>3. mtime'[f] = t  BY <2>1, <2>2, <2>6 DEF MapsTypeOK
    <3>4. QED  BY <2>1, <2>2, <2>6, <3>2, <3>3
  <2>7. CASE f # i
    <3>1. mtime'[f] = mtime[f]  BY <2>1, <2>7
    <3>2. content'[f] = content[f]  BY <2>3, <2>7
    <3>3. QED  BY <2>2, <3>1, <3>2
  <2>8. QED  BY <2>6, <2>7
<1>3. ASSUME NEW u \in Uploads, Replace(u)  PROVE Kept \/ Shows(d, mtime'[f])
  <2>1. PICK t \in Dirs : t = Target[u]  BY <1>0
  <2>2. /\ mtime' = mtime /\ content' = content
        /\ dest' = [dest EXCEPT ![t] = tmp[t]]
        /\ Shows(t, mtime[tmp[t]])
    BY <1>3, <2>1 DEF Replace
  <2>3. d # t => dest'[d] = dest[d]  BY <2>2 DEF MapsTypeOK
  <2>4. d = t => dest'[d] = tmp[d]  BY <2>2 DEF MapsTypeOK
  <2>5. QED  BY <2>2, <2>3, <2>4
<1>4. ASSUME NEW u \in Uploads, OpenTmp(u)  PROVE Kept \/ Shows(d, mtime'[f])
  <2> DEFINE i == Temporary(u)
  <2>1. PICK t \in Stamps : mtime' = [mtime EXCEPT ![i] = t]  BY <1>4 DEF OpenTmp
  <2>2. dest' = dest /\ content' = [content EXCEPT ![i] = Blank]  BY <1>4 DEF OpenTmp
  <2>3. f # i
    <3>1. Unopened(u)  BY <1>4 DEF OpenTmp, Unopened
    <3>2. Target[f] = d /\ ~Unopened(f)  BY <2>2 DEF InodesPlaced
    <3>3. ASSUME tmp[Target[u]] # Nobody  PROVE f # tmp[Target[u]]
      BY <1>0, <2>2, <3>2, <3>3 DEF InodesPlaced
    <3>4. QED  BY <3>1, <3>2, <3>3 DEF Temporary
  <2> HIDE DEF i
  <2>4. QED  BY <2>1, <2>2, <2>3
<1>5. QED  BY <1>1, <1>2, <1>3, <1>4, QuietOrLoud

\* Entries and readers take their keys from each other and from the files in place.
LEMMA KeysStayPast ==
    ASSUME MapsTypeOK, MapsTypeOK', InodesPlaced, KeysArePast, MapsMove
    PROVE  KeysArePast'
<1>1. \A c \in cache' :
        \/ c \in cache
        \/ \E r \in Readers : /\ reading[r].dir # Nobody
                              /\ c.key = reading[r].key /\ c.dir = reading[r].dir
  <2>1. CASE \E r \in Readers : ParseCached(r)
    BY <2>1 DEF ParseCached
  <2>2. CASE UNCHANGED cache  BY <2>2
  <2>3. QED
    BY <2>1, <2>2
       DEF MapsMove, MapsNext, UploadStep, MakeDir, OpenTmp, NoDir, WriteChunk, Replace, Abort,
           Kill, delete_release_maps, Unlink, Rmdir, Stat, WalkReleaseDirs, EndOfSweep, mapVars
<1>2. \A r \in Readers : reading'[r].dir # Nobody =>
        \/ reading'[r] = reading[r]
        \/ \E d \in Dirs : /\ dest[d] # Nobody
                           /\ reading'[r].dir = d /\ reading'[r].key = mtime[dest[d]]
  <2>1. ASSUME NEW r \in Readers, ParseCached(r)
        PROVE  \A q \in Readers : reading'[q].dir # Nobody => reading'[q] = reading[q]
    BY <2>1 DEF ParseCached, AtRest, MapsTypeOK
  <2>2. ASSUME NEW r \in Readers, NEW d \in Dirs, Stat(r, d)
        PROVE  \A q \in Readers :
                  \/ reading'[q] = reading[q]
                  \/ /\ dest[d] # Nobody
                     /\ reading'[q].dir = d /\ reading'[q].key = mtime[dest[d]]
    BY <2>2 DEF Stat, CacheKey, MapsTypeOK
  <2>3. CASE UNCHANGED reading  BY <2>3
  <2>4. QED
    BY <2>1, <2>2, <2>3
       DEF MapsMove, MapsNext, UploadStep, MakeDir, OpenTmp, NoDir, WriteChunk, Replace, Abort,
           Kill, delete_release_maps, Unlink, Rmdir, WalkReleaseDirs, EndOfSweep, mapVars
<1>3. ASSUME NEW c \in cache'  PROVE c.key \in stamps'[c.dir]
  <2>1. c.dir \in Dirs  BY DEF MapsTypeOK
  <2>2. c.key \in stamps[c.dir]  BY <1>1 DEF KeysArePast
  <2>3. QED  BY <2>1, <2>2, StampsStay
<1>4. ASSUME NEW r \in Readers, reading'[r].dir # Nobody
      PROVE  reading'[r].key \in stamps'[reading'[r].dir]
  <2>1. reading'[r].dir \in Dirs  BY <1>4 DEF MapsTypeOK
  <2>2. reading'[r].key \in stamps[reading'[r].dir]  BY <1>2, <1>4 DEF KeysArePast
  <2>3. QED  BY <2>1, <2>2, StampsStay
<1>5. ASSUME NEW d \in Dirs, dest'[d] # Nobody  PROVE mtime'[dest'[d]] \in stamps'[d]
  <2> DEFINE f == dest'[d]
  <2>1. CASE dest[d] = f /\ mtime'[f] = mtime[f]
    BY <1>5, <2>1, StampsStay DEF KeysArePast
  <2>2. CASE Shows(d, mtime'[f])  BY <2>2 DEF Shows, MapsTypeOK
  <2>3. QED  BY <1>5, <2>1, <2>2, PlacedOrShown
<1>6. QED  BY <1>3, <1>4, <1>5 DEF KeysArePast

\* What one step does to the cache.
LEMMA CacheGrows ==
    ASSUME MapsMove, NEW c \in cache'
    PROVE  c \in cache \/ (Quiet /\ UNCHANGED <<dest, content>> /\ c.map = OnDisk(c.dir))
<1>1. ASSUME NEW r \in Readers, ParseCached(r)
      PROVE  c \in cache \/ (Quiet /\ UNCHANGED <<dest, content>> /\ c.map = OnDisk(c.dir))
  BY <1>1 DEF ParseCached, Quiet, Unopened, Streaming, files, history
<1>2. CASE UNCHANGED cache  BY <1>2
<1>3. QED
  BY <1>1, <1>2
     DEF MapsMove, MapsNext, UploadStep, MakeDir, OpenTmp, NoDir, WriteChunk, Replace, Abort,
         Kill, delete_release_maps, Unlink, Rmdir, Stat, WalkReleaseDirs, EndOfSweep, mapVars

\* An entry hits a file that was in place when the entry was made, or one that has shown
\* a stamp twice.
LEMMA CacheStaysCurrent ==
    ASSUME MapsTypeOK, MapsTypeOK', InodesPlaced, KeysArePast, CacheIsCurrent, MapsMove
    PROVE  CacheIsCurrent'
<1> SUFFICES ASSUME NEW c \in cache', ~repeats'[c.dir], dest'[c.dir] # Nobody,
                    c.key = mtime'[dest'[c.dir]]
             PROVE  c.map = OnDisk(c.dir)'
  BY DEF CacheIsCurrent, CacheKey
<1> DEFINE d == c.dir
           f == dest'[d]
<1>1. d \in Dirs /\ f \in Uploads  BY DEF MapsTypeOK, Inodes
<1>2. dest'[d] = dest[d] /\ content'[f] = content[f] => OnDisk(d)' = OnDisk(d)
  BY DEF OnDisk, Parse
<1>3. CASE c \notin cache
  <2>1. dest' = dest /\ content' = content /\ c.map = OnDisk(d)  BY <1>3, CacheGrows
  <2>2. QED  BY <1>2, <2>1
<1>4. CASE c \in cache
  <2>1. c.key \in stamps[d]  BY <1>4 DEF KeysArePast
  <2>2. CASE dest[d] = f /\ mtime'[f] = mtime[f] /\ content'[f] = content[f]
    <3>1. ~repeats[d]  BY <1>1, StampsStay
    <3>2. c.map = OnDisk(d)  BY <1>4, <2>2, <3>1 DEF CacheIsCurrent, CacheKey
    <3>3. QED  BY <1>2, <2>2, <3>2
  <2>3. CASE Shows(d, mtime'[f])
    <3>1. repeats'[d]  BY <1>1, <2>1, <2>3 DEF Shows, MapsTypeOK
    <3>2. QED  BY <3>1
  <2>4. QED  BY <1>1, <2>2, <2>3, PlacedOrShown
<1>5. QED  BY <1>3, <1>4

-----------------------------------------------------------------------------
(* What the prune removes.                                                 *)

\* The age of a directory is not less than that of its map, and what a prune has still
\* to remove was below its cutoff, unless a map arrived since.
AgesCover ==
    \A d \in Dirs :
        /\ storedAt[d] <= now
        /\ dest[d] # Nobody => storedAt[d] <= dir[d].mtime
        /\ d \in sweep.expired /\ dest[d] # Nobody /\ ~fresh[d] => storedAt[d] < sweep.cutoff

LEMMA AgesStayCovered ==
    ASSUME MapsTypeOK, now \in Nat, now' \in {now, now + 1}, AgesCover, MapsMove
    PROVE  AgesCover'
<1> SUFFICES ASSUME NEW d \in Dirs
             PROVE  /\ storedAt'[d] <= now'
                    /\ dest'[d] # Nobody => storedAt'[d] <= dir'[d].mtime
                    /\ d \in sweep'.expired /\ dest'[d] # Nobody /\ ~fresh'[d]
                        => storedAt'[d] < sweep'.cutoff
  BY DEF AgesCover
<1>0. storedAt[d] \in Nat /\ dir[d].mtime \in Nat  BY DEF MapsTypeOK
<1>1. CASE Quiet
  <2>1. storedAt'[d] = storedAt[d] /\ storedAt'[d] <= now'
    BY <1>0, <1>1 DEF Quiet, AgesCover
  <2>2. dest'[d] # Nobody => dest[d] # Nobody /\ storedAt'[d] <= dir'[d].mtime
    BY <1>0, <1>1, <2>1 DEF Quiet, AgesCover
  <2>3. ASSUME NEW cutoff \in Int, WalkReleaseDirs(cutoff), d \in sweep'.expired,
               dest'[d] # Nobody
        PROVE  storedAt'[d] < sweep'.cutoff
    <3>1. dir[d].mtime < cutoff /\ sweep'.cutoff = cutoff
      BY <2>3 DEF WalkReleaseDirs, release_dirs_older_than, NoSweep
    <3>2. storedAt[d] <= dir[d].mtime  BY <2>2, <2>3 DEF AgesCover
    <3>3. QED  BY <1>0, <2>1, <3>1, <3>2
  <2>4. CASE EndOfSweep  BY <2>1, <2>2, <2>4 DEF EndOfSweep, NoSweep
  <2>5. ASSUME NEW e \in Dirs, Unlink(e)
        PROVE  sweep'.expired = sweep.expired /\ sweep'.cutoff = sweep.cutoff /\ fresh' = fresh
    BY <2>5 DEF Unlink, MapsTypeOK
  <2>6. CASE Rmdir
    <3>1. sweep'.expired \subseteq sweep.expired /\ sweep'.cutoff = sweep.cutoff
      BY <2>6 DEF Rmdir, MapsTypeOK
    <3>2. fresh' = fresh  BY <2>6 DEF Rmdir, history
    <3>3. QED  BY <2>1, <2>2, <3>1, <3>2 DEF AgesCover
  <2>7. CASE UNCHANGED <<sweep, fresh>>  BY <2>1, <2>2, <2>7 DEF AgesCover
  <2>8. ASSUME NEW u \in Uploads, UploadStep(u)
        PROVE  sweep' = sweep /\ (fresh'[d] = fresh[d] \/ fresh'[d])
    BY <2>8
       DEF UploadStep, MakeDir, OpenTmp, NoDir, WriteChunk, Replace, Abort, history, MapsTypeOK
  <2>9. QED
    BY <2>1, <2>2, <2>3, <2>4, <2>5, <2>6, <2>7, <2>8
       DEF MapsMove, MapsNext, Kill, delete_release_maps, ParseCached, Stat, mapVars, history,
           AgesCover
<1>2. ASSUME NEW u \in Uploads, WriteChunk(u)  PROVE AgesCover'
  <2>1. UNCHANGED <<storedAt, dest, dir, sweep, fresh>>  BY <1>2 DEF WriteChunk
  <2>2. \A e \in Dirs : storedAt[e] \in Nat  BY DEF MapsTypeOK
  <2>3. QED  BY <2>1, <2>2 DEF AgesCover
<1>3. ASSUME NEW u \in Uploads, OpenTmp(u)  PROVE AgesCover'
  <2>1. UNCHANGED <<storedAt, dest, sweep, fresh>>  BY <1>3 DEF OpenTmp
  <2>2. \A e \in Dirs : /\ storedAt[e] \in Nat
                        /\ dir'[e].mtime \in {dir[e].mtime, now}
    BY <1>3 DEF OpenTmp, Touched, MapsTypeOK
  <2>3. QED  BY <2>1, <2>2 DEF AgesCover
<1>4. ASSUME NEW u \in Uploads, Replace(u)  PROVE AgesCover'
  <2>1. PICK t \in Dirs : t = Target[u]  BY MapsAssumption
  <2>2. /\ sweep' = sweep
        /\ dest' = [dest EXCEPT ![t] = tmp[t]]
        /\ storedAt' = [storedAt EXCEPT ![t] = now]
        /\ fresh' = [fresh EXCEPT ![t] = TRUE]
        /\ dir' = [dir EXCEPT ![t].mtime = now]
    BY <1>4, <2>1 DEF Replace, Touched
  <2>3. storedAt'[t] = now /\ fresh'[t] /\ dir'[t].mtime = now
    BY <2>2 DEF MapsTypeOK
  <2>4. ASSUME NEW e \in Dirs, e # t
        PROVE  /\ dest'[e] = dest[e] /\ storedAt'[e] = storedAt[e] /\ storedAt[e] \in Nat
               /\ fresh'[e] = fresh[e] /\ dir'[e] = dir[e]
    BY <2>2, <2>4 DEF MapsTypeOK
  <2>5. now' \in Nat /\ now <= now'  OBVIOUS
  <2>6. QED  BY <2>2, <2>3, <2>4, <2>5 DEF AgesCover
<1>5. ASSUME AgesCover'
      PROVE  /\ storedAt'[d] <= now'
             /\ dest'[d] # Nobody => storedAt'[d] <= dir'[d].mtime
             /\ d \in sweep'.expired /\ dest'[d] # Nobody /\ ~fresh'[d]
                 => storedAt'[d] < sweep'.cutoff
  BY <1>5 DEF AgesCover
<1>6. QED  BY <1>1, <1>2, <1>3, <1>4, <1>5, QuietOrLoud

\* So what it removes was below the cutoff or arrived since.
LEMMA PruneStaysFair ==
    ASSUME MapsTypeOK, AgesCover, PruneSparesFresh, MapsMove
    PROVE  PruneSparesFresh'
<1>1. ASSUME NEW d \in Dirs, Unlink(d)  PROVE PruneSparesFresh'
  <2>1. pruned' = IF dest[d] = Nobody THEN {}
                  ELSE {[storedAt |-> storedAt[d], fresh |-> fresh[d], cutoff |-> sweep.cutoff]}
    BY <1>1 DEF Unlink
  <2>2. dest[d] # Nobody => storedAt[d] < sweep.cutoff \/ fresh[d]
    BY <1>1 DEF Unlink, AgesCover
  <2>3. QED  BY <2>1, <2>2 DEF PruneSparesFresh
<1>2. ASSUME NEW cutoff \in Int, WalkReleaseDirs(cutoff)  PROVE PruneSparesFresh'
  BY <1>2 DEF WalkReleaseDirs, PruneSparesFresh
<1>3. CASE UNCHANGED pruned  BY <1>3 DEF PruneSparesFresh
<1>4. QED
  BY <1>1, <1>2, <1>3
     DEF MapsMove, MapsNext, UploadStep, MakeDir, OpenTmp, NoDir, WriteChunk, Replace, Abort,
         Kill, delete_release_maps, Rmdir, ParseCached, Stat, EndOfSweep, mapVars, history

-----------------------------------------------------------------------------
(* Retention: types.                                                       *)

RunType == [pc : {"idle", "load", "trim", "prune"}, orgs : SUBSET Orgs,
            seen : [Projects -> RetentionDays \cup {0}], cutoff : Int, ticks : {0, 1}]

Typed == TypeOK /\ plan \in PlanType

\* The fold over what a run has seen is a number of days, at least one.
LEMMA CeilingIsDays ==
    ASSUME run \in RunType
    PROVE  LET ceiling == fold_global_max_retention_days(Seen)
           IN  /\ ceiling \in Nat /\ ceiling >= 1
               /\ \A p \in Projects : run.seen[p] \in Nat /\ run.seen[p] <= ceiling
<1>1. Seen \subseteq RetentionDays  BY DEF Seen, RunType
<1>2. \A v \in RetentionDays : v \in Nat /\ v >= 1
  <2>1. MaxInteger \in Nat  BY SMT DEF MaxInteger
  <2>2. QED  BY <2>1, RetentionAssumption
<1>3. CASE Seen = {}
  <2>1. \A p \in Projects : run.seen[p] = 0  BY <1>3 DEF Seen
  <2>2. QED
    BY <1>3, <2>1, RetentionAssumption DEF fold_global_max_retention_days
<1>4. CASE Seen # {}
  <2> DEFINE ceiling == fold_global_max_retention_days(Seen)
  <2>1. ceiling \in Seen /\ \A w \in Seen : w <= ceiling
    BY <1>1, <1>4, LongestWindow
  <2> HIDE DEF ceiling
  <2>2. ceiling \in Nat /\ ceiling >= 1  BY <1>1, <1>2, <2>1
  <2>3. ASSUME NEW p \in Projects  PROVE run.seen[p] \in Nat /\ run.seen[p] <= ceiling
    <3>1. run.seen[p] \in RetentionDays \cup {0}  BY DEF RunType
    <3>2. run.seen[p] # 0 => run.seen[p] \in Seen  BY DEF Seen
    <3>3. QED  BY <1>2, <2>1, <2>2, <3>1, <3>2
  <2>4. QED  BY <2>2, <2>3 DEF ceiling
<1>5. QED  BY <1>3, <1>4

LEMMA InitTyped == Init => Typed
<1> SUFFICES ASSUME Init  PROVE Typed  OBVIOUS
<1>1. MapsTypeOK  BY MapsInitTyped DEF Init
<1>2. plan \in PlanType  BY RetentionAssumption DEF Init, PlanType
<1>3. project \in [Projects -> [retention : RetentionDays \cup {0}, created : Nat]]
  BY <1>2 DEF Init, PlanType
<1>4. run \in RunType  BY DEF Init, NoRun, RunType
<1>5. partitions \subseteq Nat  BY RetentionAssumption DEF Init
<1>6. QED
  BY <1>1, <1>2, <1>3, <1>4, <1>5 DEF Init, Typed, TypeOK, PlanType, RunType

\* What a transaction removes, and what is remembered of it.
LEMMA RemoveTyped ==
    ASSUME TypeOK, NEW gone, gone \subseteq rows, Remove(gone)
    PROVE  /\ rows' \subseteq [project : Projects, at : Nat]
           /\ atStart' \subseteq [project : Projects, at : Nat]
           /\ removed' \subseteq [at : Nat, when : Nat, seen : RetentionDays \cup {0},
                                  live : BOOLEAN]
<1>1. /\ rows' \subseteq [project : Projects, at : Nat]
      /\ atStart' \subseteq [project : Projects, at : Nat]
  BY DEF Remove, TypeOK
<1>2. ASSUME NEW r \in gone
      PROVE  [at |-> r.at, when |-> now, seen |-> run.seen[r.project],
              live |-> r.project \in Live]
             \in [at : Nat, when : Nat, seen : RetentionDays \cup {0}, live : BOOLEAN]
  <2>1. r.at \in Nat /\ r.project \in Projects /\ now \in Nat  BY DEF TypeOK
  <2>2. run.seen[r.project] \in RetentionDays \cup {0}  BY <2>1 DEF TypeOK
  <2>3. (r.project \in Live) \in BOOLEAN  OBVIOUS
  <2>4. QED  BY <2>1, <2>2, <2>3
<1>3. QED  BY <1>1, <1>2 DEF Remove

LEMMA StayTyped ==
    ASSUME Typed, [Next]_vars
    PROVE  Typed'
<1> USE DEF Typed
<1>0. /\ MapsTypeOK' /\ now \in Nat /\ run \in RunType /\ DefaultRetention \in RetentionDays
      /\ Lookahead \in Nat
  BY MapsStayTyped, StepIsMapsMove, RetentionAssumption DEF TypeOK, RunType
<1> DEFINE Records == [project : Projects, at : Nat]
           Table == [Projects -> [retention : RetentionDays \cup {0}, created : Nat]]
<1>1. CASE MapStep \/ UNCHANGED vars
  BY <1>0, <1>1 DEF MapStep, vars, retentionVars, TypeOK
<1>2. CASE Tick
  <2>1. run' \in RunType  BY <1>0, <1>2 DEF Tick, RunType
  <2>2. QED  BY <1>0, <1>2, <2>1 DEF Tick, TypeOK, RunType
<1>3. ASSUME NEW p \in Projects, NEW at \in 0..now, InsertEvent(p, at)  PROVE Typed'
  <2>1. [project |-> p, at |-> at] \in Records  BY <1>0
  <2>2. rows' \subseteq Records  BY <1>3, <2>1 DEF InsertEvent, TypeOK
  <2>3. QED  BY <1>0, <1>3, <2>2 DEF InsertEvent, TypeOK
<1>4. CASE Edit /\ project' \in Table
  <2>1. plan' \in PlanType  BY <1>4 DEF Edit, PlanType
  <2>2. QED  BY <1>0, <1>4, <2>1 DEF Edit, TypeOK, PlanType
<1>5. ASSUME NEW p \in Projects, NEW r \in RetentionDays, SetRetention(p, r)  PROVE Typed'
  BY <1>4, <1>5 DEF SetRetention, TypeOK
<1>6. ASSUME NEW p \in Projects, CreateProject(p) \/ DeleteProject(p)  PROVE Typed'
  BY <1>0, <1>4, <1>6 DEF CreateProject, DeleteProject, TypeOK
<1>7. CASE maintain_event_partitions
  <2>1. DayOf(now) \in Nat  BY <1>0, DaysRound
  <2>2. partitions' \subseteq Nat
    <3>1. DayOf(now)..(DayOf(now) + Lookahead) \subseteq Nat  BY <1>0, <2>1
    <3>2. partitions' = partitions \cup DayOf(now)..(DayOf(now) + Lookahead)
      BY <1>7 DEF maintain_event_partitions, lookahead_partition_days
    <3>3. QED  BY <3>1, <3>2 DEF TypeOK
  <2>3. QED  BY <1>0, <1>7, <2>1, <2>2 DEF maintain_event_partitions, TypeOK
<1>8. CASE StartRun
  <2>1. plan' \in PlanType  BY <1>8 DEF StartRun, PlanType
  <2>2. run' \in RunType
    <3>1. [p \in Projects |-> 0] \in [Projects -> RetentionDays \cup {0}]  OBVIOUS
    <3>2. run' = [pc |-> "load", orgs |-> Orgs, seen |-> [p \in Projects |-> 0],
                  cutoff |-> 0, ticks |-> 0]
      BY <1>8 DEF StartRun, NoRun
    <3>3. QED  BY <3>1, <3>2 DEF RunType
  <2>3. QED  BY <1>0, <1>8, <2>1, <2>2 DEF StartRun, TypeOK, PlanType, RunType
<1>9. ASSUME NEW o \in Orgs, LoadProjects(o)  PROVE Typed'
  <2>1. [p \in Projects |-> IF OrgOf[p] = o THEN project[p].retention ELSE run.seen[p]]
          \in [Projects -> RetentionDays \cup {0}]
    BY <1>0 DEF TypeOK, RunType
  <2>2. run' \in RunType  BY <1>0, <1>9, <2>1 DEF LoadProjects, RunType
  <2>3. QED  BY <1>0, <1>9, <2>2 DEF LoadProjects, TypeOK, RunType
<1>10. CASE DropPartitions
  <2> DEFINE cutoff == compute_retention_cutoff(DayOf(now), fold_global_max_retention_days(Seen))
             gone == {r \in rows : DayOf(r.at) < cutoff}
  <2>1. cutoff \in Int
    BY <1>0, DaysRound, CeilingIsDays DEF compute_retention_cutoff
  <2>2. Remove(gone) /\ partitions' \subseteq partitions
    BY <1>10 DEF DropPartitions
  <2>3. run' = [run EXCEPT !.pc = "trim", !.orgs = Orgs, !.cutoff = cutoff]
    BY <1>10 DEF DropPartitions
  <2>4. gone \subseteq rows  OBVIOUS
  <2> HIDE DEF cutoff, gone
  <2>5. run' \in RunType  BY <1>0, <2>1, <2>3 DEF RunType
  <2>6. /\ rows' \subseteq Records /\ atStart' \subseteq Records
        /\ removed' \subseteq [at : Nat, when : Nat, seen : RetentionDays \cup {0},
                               live : BOOLEAN]
    BY <2>2, <2>4, RemoveTyped
  <2>7. QED
    BY <1>0, <1>10, <2>2, <2>5, <2>6 DEF DropPartitions, TypeOK, RunType
<1>11. ASSUME NEW o \in Orgs, TrimOrg(o)  PROVE Typed'
  <2>1. PICK gone : gone \subseteq rows /\ Remove(gone)  BY <1>11 DEF TrimOrg
  <2>2. run' \in RunType  BY <1>0, <1>11 DEF TrimOrg, RunType
  <2>3. /\ rows' \subseteq Records /\ atStart' \subseteq Records
        /\ removed' \subseteq [at : Nat, when : Nat, seen : RetentionDays \cup {0},
                               live : BOOLEAN]
    BY <2>1, RemoveTyped
  <2>4. QED  BY <1>0, <1>11, <2>2, <2>3 DEF TrimOrg, TypeOK, RunType
<1>12. CASE StartPrune
  <2>1. run' \in RunType  BY <1>0, <1>12 DEF StartPrune, RunType
  <2>2. QED  BY <1>0, <1>12, <2>1 DEF StartPrune, TypeOK, RunType
<1>13. CASE FinishRun \/ Crash
  <2>1. NoRun \in RunType  BY DEF NoRun, RunType
  <2>2. QED  BY <1>0, <1>13, <2>1 DEF FinishRun, Crash, TypeOK, RunType
<1>14. QED
  BY <1>1, <1>2, <1>3, <1>5, <1>6, <1>7, <1>8, <1>9, <1>10, <1>11, <1>12, <1>13
     DEF Next, Environment, enforce_retention

-----------------------------------------------------------------------------
(* Partitions.                                                             *)

\* The days from today to where maintenance reached have their partitions.
DaysAhead == \A d \in DayOf(now) .. (maintained + Lookahead) : d \in partitions

\* The clock goes forward, a tick at a time.
LEMMA ClockSteps == Typed /\ [Next]_vars => now \in Nat /\ now' \in {now, now + 1}
<1> SUFFICES ASSUME Typed, [Next]_vars  PROVE now \in Nat /\ now' \in {now, now + 1}
  OBVIOUS
<1>1. MapsMove  BY StepIsMapsMove DEF Typed
<1>2. now \in Nat  BY DEF Typed, TypeOK
<1>3. QED  BY <1>1, <1>2 DEF MapsMove, EndOfSweep

LEMMA DaysStayAhead ==
    ASSUME Typed, DaysAhead, [Next]_vars
    PROVE  DaysAhead'
<1>0. /\ now \in Nat /\ DayOf(now) \in Nat /\ DayOf(now') \in Nat /\ DayOf(now) <= DayOf(now')
      /\ maintained \in Nat /\ Lookahead \in Nat
  BY ClockSteps, DaysRound, DaysPass, RetentionAssumption DEF Typed, TypeOK
<1>1. CASE maintain_event_partitions
  <2>1. /\ now' = now /\ maintained' = DayOf(now)
        /\ DayOf(now)..(DayOf(now) + Lookahead) \subseteq partitions'
    BY <1>1 DEF maintain_event_partitions, lookahead_partition_days
  <2>2. QED  BY <2>1 DEF DaysAhead
<1>2. CASE DropPartitions
  <2> DEFINE ceiling == fold_global_max_retention_days(Seen)
  <2>1. ceiling \in Nat /\ ceiling >= 1  BY CeilingIsDays DEF Typed, TypeOK, RunType
  <2>2. /\ now' = now /\ maintained' = maintained
        /\ partitions' = {d \in partitions : d >= DayOf(now) - ceiling}
    BY <1>2 DEF DropPartitions, compute_retention_cutoff
  <2> HIDE DEF ceiling
  <2>3. QED  BY <1>0, <2>1, <2>2 DEF DaysAhead
<1>3. CASE UNCHANGED <<partitions, maintained>>
  <2>1. DayOf(now)' .. (maintained + Lookahead) \subseteq DayOf(now) .. (maintained + Lookahead)
    BY <1>0 DEF DayOf
  <2>2. QED  BY <1>3, <2>1 DEF DaysAhead
<1>4. QED
  BY <1>1, <1>2, <1>3
     DEF Next, Environment, enforce_retention, MapStep, Tick, InsertEvent, SetRetention,
         CreateProject, DeleteProject, Edit, StartRun, LoadProjects, TrimOrg, StartPrune,
         FinishRun, Crash, vars, retentionVars

LEMMA AheadIsToday == Typed /\ DaysAhead => TodayHasPartition
<1> SUFFICES ASSUME Typed, DaysAhead, DayOf(now) <= maintained + Lookahead
             PROVE  DayOf(now) \in partitions
  BY DEF TodayHasPartition
<1>1. DayOf(now) \in Nat /\ maintained \in Nat /\ Lookahead \in Nat
  BY DaysRound, RetentionAssumption DEF Typed, TypeOK
<1>2. QED  BY <1>1 DEF DaysAhead

-----------------------------------------------------------------------------
(* What a run removes and what it leaves.                                  *)

\* When the run started.
Started == now - run.ticks

\* Rows are as old as their project at most; a project without a row in the table has
\* none before it is created, which it is once.
RowsHaveProjects ==
    /\ \A p \in Projects :
        /\ project[p].created <= now
        /\ plan.retention[p] = 0 /\ project[p].created = 0 => p \notin Live
    /\ \A r \in rows :
        /\ r.at <= now
        /\ r.project \in Live => project[r.project].created <= r.at
        /\ plan.retention[r.project] = 0 => project[r.project].created # 0

\* What a run knows: it read every project of the organizations behind it that was there
\* when it started.
SeenIsRead ==
    /\ atStart \subseteq rows
    /\ run.pc = "idle" => run.ticks = 0
    /\ Started \in Nat
    /\ run.pc \in {"load", "trim"} =>
        \A p \in Live : \/ run.seen[p] # 0
                        \/ run.pc = "load" /\ OrgOf[p] \in run.orgs
                        \/ project[p].created >= Started

\* What a run has done: no row it found is past the ceiling, or past the window of its
\* project if the organization is behind it.
TrimmedSoFar ==
    /\ run.pc \in {"trim", "prune"} =>
        /\ run.cutoff >= DayOf(Started) - fold_global_max_retention_days(Seen)
        /\ \A r \in atStart :
            /\ DayOf(r.at) >= run.cutoff
            /\ (OrgOf[r.project] \notin run.orgs \/ run.pc = "prune") /\ run.seen[r.project] # 0
                => DayOf(r.at) >= DayOf(Started) - run.seen[r.project]
    /\ run.pc = "prune" => run.orgs = {}

\* Which steps touch the table, the rows and the plan of a project.
LEMMA TableSteps ==
    ASSUME Typed, [Next]_vars
    PROVE  \/ UNCHANGED project /\ rows' \subseteq rows /\ plan'.retention = plan.retention
           \/ \E p \in Projects :
                \/ \E at \in 0..now : InsertEvent(p, at)
                \/ \E r \in RetentionDays : SetRetention(p, r)
                \/ CreateProject(p)
                \/ DeleteProject(p)
<1>1. CASE Environment
  BY <1>1 DEF Environment, Tick
<1>2. CASE maintain_event_partitions \/ MapStep \/ UNCHANGED vars
  BY <1>2 DEF maintain_event_partitions, MapStep, vars, retentionVars
<1>3. CASE StartRun
  <2>1. plan'.retention = plan.retention  BY <1>3 DEF StartRun, Typed, PlanType
  <2>2. QED  BY <1>3, <2>1 DEF StartRun
<1>4. CASE DropPartitions
  BY <1>4 DEF DropPartitions, Remove
<1>5. ASSUME NEW o \in Orgs, LoadProjects(o) \/ TrimOrg(o)
      PROVE  UNCHANGED <<project, plan>> /\ rows' \subseteq rows
  BY <1>5 DEF LoadProjects, TrimOrg, Remove
<1>6. CASE StartPrune \/ FinishRun \/ Crash
  BY <1>6 DEF StartPrune, FinishRun, Crash
<1>7. QED  BY <1>1, <1>2, <1>3, <1>4, <1>5, <1>6 DEF Next, enforce_retention

LEMMA RowsKeepProjects ==
    ASSUME Typed, RowsHaveProjects, [Next]_vars
    PROVE  RowsHaveProjects'
<1>0. /\ now \in Nat /\ now' \in Nat /\ now <= now'
      /\ project \in [Projects -> [retention : RetentionDays \cup {0}, created : Nat]]
      /\ rows \subseteq [project : Projects, at : Nat]
  BY ClockSteps DEF Typed, TypeOK
<1>1. CASE UNCHANGED project /\ rows' \subseteq rows /\ plan'.retention = plan.retention
  <2>1. Live' = Live  BY <1>1 DEF Live
  <2>2. QED  BY <1>0, <1>1, <2>1 DEF RowsHaveProjects
<1>2. ASSUME NEW p \in Projects, NEW at \in 0..now, InsertEvent(p, at)
      PROVE  RowsHaveProjects'
  <2>1. /\ p \in Live /\ at <= now /\ project[p].created <= at /\ project[p].created \in Nat
        /\ rows' = rows \cup {[project |-> p, at |-> at]}
        /\ UNCHANGED <<now, project, plan>>
    BY <1>0, <1>2 DEF InsertEvent
  <2>2. Live' = Live  BY <2>1 DEF Live
  <2>3. plan.retention[p] = 0 => project[p].created # 0  BY <2>1 DEF RowsHaveProjects
  <2>4. QED  BY <2>1, <2>2, <2>3 DEF RowsHaveProjects
<1>3. ASSUME NEW p \in Projects, NEW r \in RetentionDays, SetRetention(p, r)
      PROVE  RowsHaveProjects'
  <2>1. /\ p \in Live /\ project' = [project EXCEPT ![p].retention = r]
        /\ plan'.retention = plan.retention /\ UNCHANGED <<now, rows>>
    BY <1>3 DEF SetRetention, Edit, Typed, PlanType
  <2>2. r # 0  BY RetentionAssumption
  <2>3. \A q \in Projects : project'[q].created = project[q].created
    BY <1>0, <2>1
  <2>4. Live' = Live  BY <1>0, <2>1, <2>2 DEF Live
  <2>5. QED  BY <1>0, <2>1, <2>3, <2>4 DEF RowsHaveProjects
<1>4. ASSUME NEW p \in Projects, CreateProject(p)  PROVE RowsHaveProjects'
  <2>1. /\ project' = [project EXCEPT ![p] = [retention |-> DefaultRetention, created |-> now]]
        /\ plan.retention[p] = 0 /\ project[p].created = 0 /\ now > 0
        /\ plan'.retention = plan.retention /\ UNCHANGED <<now, rows>>
    BY <1>4 DEF CreateProject, Edit, Typed, PlanType
  <2>2. \A r \in rows : r.project # p  BY <2>1 DEF RowsHaveProjects
  <2>3. project'[p].created = now /\ \A q \in Projects : q # p => project'[q] = project[q]
    BY <1>0, <2>1
  <2>4. \A q \in Projects : q # p => (q \in Live' <=> q \in Live)  BY <2>3 DEF Live
  <2>5. QED  BY <1>0, <2>1, <2>2, <2>3, <2>4 DEF RowsHaveProjects
<1>5. ASSUME NEW p \in Projects, DeleteProject(p)  PROVE RowsHaveProjects'
  <2>1. /\ project' = [project EXCEPT ![p] = [retention |-> 0, created |-> now]]
        /\ p \in Live
        /\ plan'.retention = plan.retention /\ UNCHANGED <<now, rows>>
    BY <1>5 DEF DeleteProject, Edit, Typed, PlanType
  <2>2. /\ project'[p] = [retention |-> 0, created |-> now]
        /\ \A q \in Projects : q # p => project'[q] = project[q]
    BY <1>0, <2>1
  <2>3. p \notin Live' /\ \A q \in Projects : q # p => (q \in Live' <=> q \in Live)
    BY <2>2 DEF Live
  <2>4. plan.retention[p] = 0 => now # 0
    <3>1. project[p].created \in Nat  BY <1>0
    <3>2. QED  BY <1>0, <2>1, <3>1 DEF RowsHaveProjects
  <2>5. QED  BY <1>0, <2>1, <2>2, <2>3, <2>4 DEF RowsHaveProjects
<1>6. QED  BY <1>1, <1>2, <1>3, <1>4, <1>5, TableSteps

LEMMA SeenStaysRead ==
    ASSUME Typed, Typed', RowsHaveProjects, SeenIsRead, [Next]_vars
    PROVE  SeenIsRead'
<1>0. /\ now \in Nat /\ run \in RunType
      /\ project \in [Projects -> [retention : RetentionDays \cup {0}, created : Nat]]
  BY DEF Typed, TypeOK, RunType
<1>1. CASE MapStep \/ maintain_event_partitions \/ UNCHANGED vars
  <2>1. UNCHANGED <<now, project, rows, run, atStart>>
    BY <1>1 DEF MapStep, maintain_event_partitions, vars, retentionVars
  <2>2. QED  BY <2>1 DEF SeenIsRead, Started, Live
<1>2. CASE Tick
  <2>1. /\ now' = now + 1 /\ run.ticks = 0 /\ UNCHANGED <<project, rows, atStart>>
        /\ run' = IF run.pc = "idle" THEN run ELSE [run EXCEPT !.ticks = 1]
    BY <1>2 DEF Tick
  <2>2. CASE run.pc = "idle"
    BY <1>0, <2>1, <2>2 DEF SeenIsRead, Started
  <2>3. CASE run.pc # "idle"
    <3>1. /\ run'.pc = run.pc /\ run'.ticks = 1 /\ run'.seen = run.seen
          /\ run'.orgs = run.orgs
      BY <1>0, <2>1, <2>3 DEF RunType
    <3>2. Started' = Started  BY <1>0, <2>1, <3>1 DEF Started
    <3>3. QED  BY <2>1, <2>3, <3>1, <3>2 DEF SeenIsRead, Live
  <2>4. QED  BY <2>2, <2>3
<1>3. ASSUME NEW p \in Projects, NEW at \in 0..now, InsertEvent(p, at)
      PROVE  SeenIsRead'
  BY <1>3 DEF InsertEvent, SeenIsRead, Started, Live
<1>4. ASSUME NEW p \in Projects, NEW r \in RetentionDays, SetRetention(p, r)
      PROVE  SeenIsRead'
  <2>1. /\ p \in Live /\ project' = [project EXCEPT ![p].retention = r]
        /\ UNCHANGED <<now, rows, run, atStart>>
    BY <1>4 DEF SetRetention, Edit
  <2>2. r # 0  BY RetentionAssumption
  <2>3. \A q \in Projects : project'[q].created = project[q].created
    BY <1>0, <2>1
  <2>4. Live' = Live  BY <1>0, <2>1, <2>2 DEF Live
  <2>5. \A q \in Live : q \in Projects  BY DEF Live
  <2>6. QED  BY <2>1, <2>3, <2>4, <2>5 DEF SeenIsRead, Started
<1>5. ASSUME NEW p \in Projects, CreateProject(p) \/ DeleteProject(p)
      PROVE  SeenIsRead'
  <2>1. /\ project'[p].created = now /\ \A q \in Projects : q # p => project'[q] = project[q]
        /\ UNCHANGED <<now, rows, run, atStart>>
    BY <1>0, <1>5 DEF CreateProject, DeleteProject, Edit
  <2>2. \A q \in Live' : q \in Projects /\ (q # p => q \in Live)  BY <2>1 DEF Live
  <2>3. now >= Started  BY <1>0 DEF Started, RunType
  <2>4. Started' = Started  BY <2>1 DEF Started
  <2>5. QED  BY <2>1, <2>2, <2>3, <2>4 DEF SeenIsRead
<1>6. CASE StartRun
  <2>1. /\ run'.pc = "load" /\ run'.ticks = 0 /\ run'.orgs = Orgs /\ atStart' = rows
        /\ UNCHANGED <<now, rows>>
    BY <1>6 DEF StartRun, NoRun
  <2>2. \A p \in Projects : OrgOf[p] \in Orgs  BY DEF Orgs
  <2>3. \A p \in Live' : p \in Projects  BY DEF Live
  <2>4. QED  BY <1>0, <2>1, <2>2, <2>3 DEF SeenIsRead, Started
<1>7. ASSUME NEW o \in Orgs, LoadProjects(o)  PROVE SeenIsRead'
  <2>1. /\ UNCHANGED <<now, project, rows, atStart>> /\ run.pc = "load"
        /\ run'.pc = run.pc /\ run'.ticks = run.ticks
        /\ \A p \in Projects :
              /\ OrgOf[p] = o => run'.seen[p] = project[p].retention
              /\ OrgOf[p] # o => run'.seen[p] = run.seen[p]
        /\ run'.orgs = run.orgs \ {o}
    BY <1>0, <1>7 DEF LoadProjects, RunType
  <2>2. Started' = Started  BY <2>1 DEF Started
  <2>3. \A p \in Live : p \in Projects /\ project[p].retention # 0  BY DEF Live
  <2>4. Live' = Live  BY <2>1 DEF Live
  <2>5. QED  BY <2>1, <2>2, <2>3, <2>4 DEF SeenIsRead
<1>8. CASE DropPartitions \/ \E o \in Orgs : TrimOrg(o)
  <2>1. /\ (run.pc = "load" /\ run.orgs = {}) \/ run.pc = "trim"
        /\ run'.pc = "trim" /\ run'.ticks = run.ticks /\ run'.seen = run.seen
        /\ UNCHANGED <<now, project>> /\ (atStart \subseteq rows => atStart' \subseteq rows')
    BY <1>0, <1>8 DEF DropPartitions, TrimOrg, Remove, RunType
  <2>2. Started' = Started /\ Live' = Live  BY <2>1 DEF Started, Live
  <2>3. QED  BY <2>1, <2>2 DEF SeenIsRead
<1>9. CASE StartPrune
  <2>1. /\ run'.pc = "prune" /\ run'.ticks = run.ticks
        /\ UNCHANGED <<now, rows, atStart>>
    BY <1>0, <1>9 DEF StartPrune, RunType
  <2>2. Started' = Started  BY <2>1 DEF Started
  <2>3. QED  BY <2>1, <2>2 DEF SeenIsRead
<1>10. CASE FinishRun \/ Crash
  <2>1. now' = now /\ run' = NoRun /\ atStart' = {}  BY <1>10 DEF FinishRun, Crash
  <2>2. QED  BY <1>0, <2>1 DEF SeenIsRead, Started, NoRun
<1>11. QED
  BY <1>1, <1>2, <1>3, <1>4, <1>5, <1>6, <1>7, <1>8, <1>9, <1>10
     DEF Next, Environment, enforce_retention

\* A row of a project the run did not read is as young as the run.
LEMMA NothingGoesEarlyStep ==
    ASSUME Typed, RowsHaveProjects, SeenIsRead, NothingGoesEarly, [Next]_vars
    PROVE  NothingGoesEarly'
<1>0. /\ now \in Nat /\ run \in RunType /\ TicksPerDay \in Nat /\ TicksPerDay > 0
      /\ rows \subseteq [project : Projects, at : Nat]
      /\ project \in [Projects -> [retention : RetentionDays \cup {0}, created : Nat]]
  BY MapsAssumption DEF Typed, TypeOK, RunType
<1>1. CASE DropPartitions
  <2> DEFINE ceiling == fold_global_max_retention_days(Seen)
             gone == {r \in rows : DayOf(r.at) < DayOf(now) - ceiling}
  <2>1. /\ ceiling \in Nat /\ ceiling >= 1
        /\ \A p \in Projects : run.seen[p] \in Nat /\ run.seen[p] <= ceiling
    BY <1>0, CeilingIsDays
  <2>2. /\ run.pc = "load" /\ run.orgs = {}
        /\ removed' = {[at |-> r.at, when |-> now, seen |-> run.seen[r.project],
                        live |-> r.project \in Live] : r \in gone}
    BY <1>1 DEF DropPartitions, Remove, compute_retention_cutoff
  <2> HIDE DEF ceiling
  <2>3. ASSUME NEW r \in gone, r.project \in Live
        PROVE  run.seen[r.project] # 0
               /\ r.at + run.seen[r.project] * TicksPerDay < now
    <3>1. r \in rows /\ r.at \in Nat /\ r.project \in Projects  BY <1>0
    <3>2. r.at + ceiling * TicksPerDay < now  BY <1>0, <2>1, <2>3, <3>1, DaysBack
    <3> DEFINE seen == run.seen[r.project]
    <3>3. seen \in Nat /\ seen <= ceiling  BY <2>1, <3>1
    <3>4. seen * TicksPerDay <= ceiling * TicksPerDay /\ seen * TicksPerDay \in Int
          /\ ceiling * TicksPerDay \in Int
      BY <2>1, <3>3, ProductsGrow
    <3>5. r.at + seen * TicksPerDay < now
      BY <1>0, <3>1, <3>2, <3>4
    <3>6. seen # 0
      <4>1. SUFFICES ASSUME seen = 0  PROVE FALSE  OBVIOUS
      <4>2. project[r.project].created >= Started
        BY <2>2, <2>3, <4>1 DEF SeenIsRead
      <4>3. project[r.project].created <= r.at
        BY <2>3, <3>1 DEF RowsHaveProjects
      <4>4. Started \in Nat /\ now <= Started + 1  BY <1>0 DEF Started, RunType, SeenIsRead
      <4>5. project[r.project].created \in Nat  BY <1>0, <3>1
      <4>6. 1 * TicksPerDay <= ceiling * TicksPerDay  BY <2>1, ProductsGrow
      <4>7. TicksPerDay <= ceiling * TicksPerDay  BY <1>0, <4>6
      <4>8. QED  BY <1>0, <3>1, <3>2, <3>4, <4>2, <4>3, <4>4, <4>5, <4>7
    <3>7. QED  BY <3>5, <3>6
  <2> HIDE DEF gone
  <2>4. ASSUME NEW x \in removed', x.live
        PROVE  x.seen # 0 /\ x.at + x.seen * TicksPerDay < x.when
    <3>1. PICK r \in gone : x = [at |-> r.at, when |-> now, seen |-> run.seen[r.project],
                                 live |-> r.project \in Live]
      BY <2>2
    <3>2. r.project \in Live  BY <2>4, <3>1, Zenon
    <3>3. x.at = r.at /\ x.when = now /\ x.seen = run.seen[r.project]  BY <3>1
    <3>4. QED  BY <2>3, <3>2, <3>3
  <2>5. QED  BY <2>4 DEF NothingGoesEarly
<1>2. ASSUME NEW o \in Orgs, TrimOrg(o)  PROVE NothingGoesEarly'
  <2> DEFINE under == projects_needing_trim(o, fold_global_max_retention_days(Seen))
             gone == {r \in rows : /\ r.project \in under
                                   /\ r.at < now - run.seen[r.project] * TicksPerDay}
  <2>1. removed' = {[at |-> r.at, when |-> now, seen |-> run.seen[r.project],
                     live |-> r.project \in Live] : r \in gone}
    BY <1>2 DEF TrimOrg, Remove
  <2>2. \A p \in Projects : run.seen[p] \in Nat  BY <1>0, CeilingIsDays
  <2>3. ASSUME NEW r \in gone
        PROVE  run.seen[r.project] # 0
               /\ r.at + run.seen[r.project] * TicksPerDay < now
    <3>1. /\ r.at \in Nat /\ r.project \in Projects /\ r.project \in under
          /\ r.at < now - run.seen[r.project] * TicksPerDay
      BY <1>0
    <3>2. run.seen[r.project] # 0  BY <3>1 DEF projects_needing_trim
    <3>3. run.seen[r.project] * TicksPerDay \in Int  BY <1>0, <2>2, <3>1
    <3>4. QED  BY <1>0, <3>1, <3>2, <3>3
  <2> HIDE DEF gone
  <2>4. QED  BY <2>1, <2>3 DEF NothingGoesEarly
<1>3. CASE UNCHANGED removed \/ removed' = {}
  BY <1>3 DEF NothingGoesEarly
<1>4. QED
  BY <1>1, <1>2, <1>3
     DEF Next, Environment, enforce_retention, MapStep, Tick, InsertEvent, SetRetention,
         CreateProject, DeleteProject, Edit, StartRun, LoadProjects, StartPrune,
         FinishRun, Crash, maintain_event_partitions, vars, retentionVars

\* Between its transactions a run keeps what it has done: nothing is added to the rows it
\* found, and the day it started on does not change.
LEMMA TrimmedStep ==
    ASSUME Typed, Typed', SeenIsRead, TrimmedSoFar, [Next]_vars
    PROVE  TrimmedSoFar'
<1> DEFINE ceiling == fold_global_max_retention_days(Seen)
<1>0. /\ now \in Nat /\ run \in RunType /\ TicksPerDay \in Nat /\ TicksPerDay > 0
      /\ atStart \subseteq [project : Projects, at : Nat]
      /\ Started \in Nat /\ now <= Started + 1 /\ Started <= now
  BY MapsAssumption DEF Typed, TypeOK, RunType, Started, SeenIsRead
<1>1. /\ ceiling \in Nat /\ ceiling >= 1
      /\ \A p \in Projects : run.seen[p] \in Nat /\ run.seen[p] <= ceiling
  BY <1>0, CeilingIsDays
<1>2. /\ DayOf(now) \in Nat /\ DayOf(Started) \in Nat /\ DayOf(Started) <= DayOf(now)
      /\ \A r \in atStart : r.project \in Projects /\ r.at \in Nat /\ DayOf(r.at) \in Nat
  BY <1>0, DaysRound, DaysPass
<1>3. CASE UNCHANGED <<run, atStart, now>>
  BY <1>3 DEF TrimmedSoFar, Started, Seen
<1>4. CASE Tick
  <2>1. /\ now' = now + 1 /\ run.ticks = 0 /\ UNCHANGED atStart
        /\ run' = IF run.pc = "idle" THEN run ELSE [run EXCEPT !.ticks = 1]
    BY <1>4 DEF Tick
  <2>2. CASE run.pc = "idle"
    BY <2>1, <2>2 DEF TrimmedSoFar
  <2>3. CASE run.pc # "idle"
    <3>1. /\ run'.pc = run.pc /\ run'.ticks = 1 /\ run'.seen = run.seen
          /\ run'.orgs = run.orgs /\ run'.cutoff = run.cutoff
      BY <1>0, <2>1, <2>3 DEF RunType
    <3>2. Started' = Started /\ Seen' = Seen  BY <1>0, <2>1, <3>1 DEF Started, Seen
    <3>3. DayOf(Started)' = DayOf(Started)  BY <3>2 DEF DayOf
    <3>4. fold_global_max_retention_days(Seen)' = ceiling
      BY <3>2 DEF fold_global_max_retention_days
    <3>5. QED  BY <2>1, <3>1, <3>3, <3>4 DEF TrimmedSoFar
  <2>4. QED  BY <2>2, <2>3
<1>5. CASE StartRun
  BY <1>5 DEF StartRun, NoRun, TrimmedSoFar
<1>6. ASSUME NEW o \in Orgs, LoadProjects(o)  PROVE TrimmedSoFar'
  <2>1. run'.pc = "load"  BY <1>0, <1>6 DEF LoadProjects, RunType
  <2>2. QED  BY <2>1 DEF TrimmedSoFar
<1>7. CASE DropPartitions
  <2> DEFINE cutoff == DayOf(now) - ceiling
             gone == {r \in rows : DayOf(r.at) < cutoff}
  <2>1. /\ run' = [run EXCEPT !.pc = "trim", !.orgs = Orgs, !.cutoff = cutoff]
        /\ atStart' = atStart \ gone /\ now' = now
    BY <1>7 DEF DropPartitions, Remove, compute_retention_cutoff
  <2>2. /\ run'.pc = "trim" /\ run'.orgs = Orgs /\ run'.cutoff = cutoff
        /\ run'.seen = run.seen /\ run'.ticks = run.ticks
    BY <1>0, <2>1 DEF RunType
  <2>3. DayOf(Started)' = DayOf(Started) /\ fold_global_max_retention_days(Seen)' = ceiling
    BY <2>1, <2>2 DEF DayOf, Started, Seen, fold_global_max_retention_days
  <2> HIDE DEF ceiling
  <2>4. cutoff \in Int /\ cutoff >= DayOf(Started) - ceiling  BY <1>1, <1>2
  <2>5. ASSUME NEW r \in atStart'
        PROVE  DayOf(r.at) >= cutoff /\ OrgOf[r.project] \in Orgs
    <3>1. r \in atStart /\ r \in rows /\ r \notin gone  BY <2>1, <2>5 DEF SeenIsRead
    <3>2. QED  BY <1>2, <2>4, <3>1 DEF Orgs
  <2> HIDE DEF cutoff
  <2>6. QED  BY <2>2, <2>3, <2>4, <2>5 DEF TrimmedSoFar, ceiling
<1>8. ASSUME NEW o \in Orgs, TrimOrg(o)  PROVE TrimmedSoFar'
  <2> DEFINE under == projects_needing_trim(o, ceiling)
             gone == {r \in rows : /\ r.project \in under
                                   /\ r.at < now - run.seen[r.project] * TicksPerDay}
  <2>1. /\ run.pc = "trim" /\ run' = [run EXCEPT !.orgs = @ \ {o}]
        /\ atStart' = atStart \ gone /\ now' = now
    BY <1>8 DEF TrimOrg, Remove
  <2>2. /\ run'.pc = "trim" /\ run'.orgs = run.orgs \ {o} /\ run'.cutoff = run.cutoff
        /\ run'.seen = run.seen /\ run'.ticks = run.ticks
    BY <1>0, <2>1 DEF RunType
  <2>3. DayOf(Started)' = DayOf(Started) /\ fold_global_max_retention_days(Seen)' = ceiling
    BY <2>1, <2>2 DEF DayOf, Started, Seen, fold_global_max_retention_days
  <2>4. ASSUME NEW r \in atStart', OrgOf[r.project] = o, run.seen[r.project] # 0
        PROVE  DayOf(r.at) >= DayOf(Started) - run.seen[r.project]
    <3> DEFINE seen == run.seen[r.project]
    <3>1. r \in atStart /\ r \in rows /\ r \notin gone  BY <2>1 DEF SeenIsRead
    <3>2. seen \in Nat /\ seen <= ceiling /\ r.at \in Nat  BY <1>1, <1>2, <3>1
    <3>3. CASE seen < ceiling
      <4>1. r.project \in under
        BY <1>2, <2>4, <3>1, <3>3 DEF projects_needing_trim
      <4>2. ~ (r.at < now - seen * TicksPerDay)  BY <3>1, <4>1
      <4>3. seen * TicksPerDay \in Int  BY <1>0, <3>2
      <4> HIDE DEF seen
      <4>4. ~ (r.at + seen * TicksPerDay < now)  BY <1>0, <3>2, <4>2, <4>3
      <4>5. ~ (DayOf(r.at) < DayOf(now) - seen)  BY <1>0, <3>2, <4>4, DaysBack
      <4>6. QED  BY <1>2, <3>1, <3>2, <4>5 DEF seen
    <3>4. CASE seen = ceiling
      <4>1. DayOf(r.at) >= run.cutoff /\ run.cutoff >= DayOf(Started) - ceiling
        BY <2>1, <3>1 DEF TrimmedSoFar
      <4>2. run.cutoff \in Int  BY <1>0 DEF RunType
      <4> HIDE DEF ceiling
      <4>3. QED  BY <1>1, <1>2, <3>1, <3>4, <4>1, <4>2
    <3>5. QED  BY <1>1, <3>2, <3>3, <3>4
  <2>5. \A r \in atStart' : r \in atStart  BY <2>1
  <2> HIDE DEF ceiling
  <2>6. QED  BY <2>1, <2>2, <2>3, <2>4, <2>5 DEF TrimmedSoFar, ceiling
<1>9. CASE StartPrune
  <2>1. run' = [run EXCEPT !.pc = "prune"] /\ UNCHANGED <<now, atStart>>
        /\ run.pc = "trim" /\ run.orgs = {}
    BY <1>9 DEF StartPrune
  <2>2. /\ run'.pc = "prune" /\ run'.orgs = {} /\ run'.cutoff = run.cutoff
        /\ run'.seen = run.seen /\ run'.ticks = run.ticks
    BY <1>0, <2>1 DEF RunType
  <2>3. DayOf(Started)' = DayOf(Started) /\ fold_global_max_retention_days(Seen)' = ceiling
    BY <2>1, <2>2 DEF DayOf, Started, Seen, fold_global_max_retention_days
  <2>4. QED  BY <2>1, <2>2, <2>3 DEF TrimmedSoFar
<1>10. CASE FinishRun \/ Crash
  BY <1>10 DEF FinishRun, Crash, NoRun, TrimmedSoFar
<1>11. QED
  BY <1>3, <1>4, <1>5, <1>6, <1>7, <1>8, <1>9, <1>10
     DEF Next, Environment, enforce_retention, MapStep, InsertEvent, SetRetention,
         CreateProject, DeleteProject, Edit, maintain_event_partitions, vars, retentionVars

LEMMA TrimmedIsExact == Typed /\ TrimmedSoFar => NothingExpiredStays
<1> SUFFICES ASSUME Typed, TrimmedSoFar, run.pc = "prune", NEW r \in atStart
             PROVE  DayOf(r.at) >= IF run.seen[r.project] = 0 THEN run.cutoff
                                   ELSE DayOf(now - run.ticks) - run.seen[r.project]
  BY DEF NothingExpiredStays
<1>1. QED  BY DEF TrimmedSoFar, Started

-----------------------------------------------------------------------------
(* The theorems.                                                           *)

MapsSound == InodesPlaced /\ NamesApart /\ KeysArePast /\ CacheIsCurrent /\ AgesCover
             /\ PruneSparesFresh
RetentionSound == DaysAhead /\ RowsHaveProjects /\ SeenIsRead /\ TrimmedSoFar
                  /\ NothingGoesEarly

\* The inductive invariant: types, the files and the run, side by side.
Sound == Typed /\ MapsSound /\ RetentionSound

LEMMA InitSound == Init => Sound
<1> SUFFICES ASSUME Init  PROVE Sound  OBVIOUS
<1>1. Typed  BY InitTyped
<1>2. MapsSound
  <2>1. \A d \in Dirs : dest[d] = Nobody /\ tmp[d] = Nobody /\ storedAt[d] = 0 /\ latest[d] = Nobody
    BY DEF Init, MapsInit
  <2>2. Streaming = {} /\ cache = {} /\ pruned = {} /\ sweep.expired = {}
    BY DEF Init, MapsInit, Streaming, Closed, NoSweep
  <2>3. \A r \in Readers : reading[r].dir = Nobody  BY DEF Init, MapsInit, AtRest
  <2>4. InodesPlaced /\ NamesApart
    BY <2>1, <2>2 DEF InodesPlaced, NamesApart, OneWriter, WriterOwns, WholeInPlace
  <2>5. KeysArePast /\ CacheIsCurrent /\ PruneSparesFresh
    BY <2>1, <2>2, <2>3 DEF KeysArePast, CacheIsCurrent, PruneSparesFresh
  <2>6. AgesCover  BY <2>1, <2>2 DEF AgesCover, Init
  <2>7. QED  BY <2>4, <2>5, <2>6 DEF MapsSound
<1>3. DaysAhead
  <2>1. TicksPerDay \in Nat /\ TicksPerDay > 0 /\ Lookahead \in Nat
    BY MapsAssumption, RetentionAssumption
  <2>2. DayOf(now) \in Nat  BY DaysRound DEF Init
  <2>3. QED  BY <2>1, <2>2 DEF DaysAhead, Init
<1>4. RowsHaveProjects
  BY RetentionAssumption DEF Init, RowsHaveProjects, Live
<1>5. SeenIsRead /\ TrimmedSoFar /\ NothingGoesEarly
  BY DEF Init, NoRun, SeenIsRead, TrimmedSoFar, NothingGoesEarly, Started
<1>6. QED  BY <1>1, <1>2, <1>3, <1>4, <1>5 DEF Sound, RetentionSound

LEMMA SoundStep == Sound /\ [Next]_vars => Sound'
<1> SUFFICES ASSUME Sound, [Next]_vars  PROVE Sound'  OBVIOUS
<1>1. Typed /\ Typed'  BY StayTyped DEF Sound
<1>2. MapsTypeOK /\ MapsTypeOK' /\ MapsMove /\ now \in Nat /\ now' \in {now, now + 1}
  BY <1>1, StepIsMapsMove, ClockSteps DEF Typed, TypeOK
<1>3. MapsSound'
  BY <1>2, InodesStayPlaced, NamesStayApart, KeysStayPast, CacheStaysCurrent,
     AgesStayCovered, PruneStaysFair
     DEF Sound, MapsSound
<1>4. RetentionSound'
  BY <1>1, DaysStayAhead, RowsKeepProjects, SeenStaysRead, TrimmedStep, NothingGoesEarlyStep
     DEF Sound, RetentionSound
<1>5. QED  BY <1>1, <1>3, <1>4 DEF Sound

THEOREM SoundAlways == Spec => []Sound
<1>1. QED  BY InitSound, SoundStep, PTL DEF Spec

\* Whatever operators, inserts and crashes do between the transactions of a run,
\* enforce_retention removes no row of a live project within the window it read, reads
\* every project there is before it drops anything, and leaves nothing it should have
\* taken; and the whole state keeps its type.
THEOREM RetentionIsExactHolds == Spec => []RetentionIsExact
<1>1. Sound => RetentionIsExact
  BY TrimmedIsExact DEF Sound, RetentionSound, RetentionIsExact, Typed
<1>2. QED  BY <1>1, SoundAlways, PTL

\* Retention never drops the partition that an event received now goes to, as long as
\* maintain_event_partitions ran within its lookahead.
THEOREM TodayHasPartitionHolds == Spec => []TodayHasPartition
<1>1. Sound => TodayHasPartition  BY AheadIsToday DEF Sound, RetentionSound
<1>2. QED  BY <1>1, SoundAlways, PTL

\* Temporary file and rename: a map's file is the whole upload acknowledged last, through
\* aborts, kills, deletions and prunes, unless uploads of one name overlapped.
THEOREM StoredIsLatestHolds == Spec => []StoredIsLatest
<1>1. Sound => StoredIsLatest  BY ApartIsLatest DEF Sound, MapsSound
<1>2. QED  BY <1>1, SoundAlways, PTL

\* The workers' cache never answers with another map than the one on disk under the key
\* just stat'ed, whatever the clock shows, as long as no two contents of the name have
\* shown one mtime; nothing else tells the files of a name apart.
THEOREM CacheIsCurrentHolds == Spec => []CacheIsCurrent
<1>1. Sound => CacheIsCurrent  BY DEF Sound, MapsSound
<1>2. QED  BY <1>1, SoundAlways, PTL

\* The prune removes no map acknowledged after its cutoff, but for one that arrived since
\* the prune read the age of its directory.
THEOREM PruneSparesFreshHolds == Spec => []PruneSparesFresh
<1>1. Sound => PruneSparesFresh  BY DEF Sound, MapsSound
<1>2. QED  BY <1>1, SoundAlways, PTL

=============================================================================
