----------------------------- MODULE SourceMaps -----------------------------
(***************************************************************************)
(* The source map files of server/app/sourcemaps.py and their routes: the  *)
(* API process streams uploads to a temporary name and renames it, workers *)
(* read maps through a cache, and the retention job prunes old release     *)
(* directories.  The file system is modelled by inodes, since an open      *)
(* handle keeps writing to its inode whatever happens to the name; an      *)
(* inode is named by the upload that created it.  Each release directory   *)
(* holds one map name.                                                     *)
(***************************************************************************)
EXTENDS Integers, FiniteSets

CONSTANTS
    Uploads,        \* requests that upload a file
    Dirs,           \* release directories, of any project
    Target,         \* [Uploads -> Dirs]
    Readers,        \* symbolications in the workers
    Chunks,         \* chunks of a file
    Stamps,         \* what st_mtime_ns may show: coarser than the writes, and set by a
                    \* clock that may go back, so two writes may get one stamp
    TicksPerDay,
    Nobody          \* no inode, no upload

ASSUME MapsAssumption ==
    /\ Target \in [Uploads -> Dirs]
    /\ Chunks \in Nat \ {0}
    /\ Stamps \subseteq Nat \ {0}
    /\ TicksPerDay \in Nat \ {0}
    /\ Nobody \notin Uploads \cup Dirs

VARIABLES
    now,        \* the clock, in ticks
    dir,        \* the directories: do they exist, when were they last changed
    dest,       \* the inode under the map's name, per directory
    tmp,        \* the inode under the temporary name
    content,    \* who wrote each chunk of an inode
    mtime,      \* st_mtime_ns of an inode: the stamp of its last write, 0 before any
    upload,     \* the requests
    cache,      \* entries of _parse_cached
    reading,    \* what each reader has stat'ed
    sweep,      \* the directories the prune still has to remove
    latest,     \* history: the upload last acknowledged and still wanted
    storedAt,   \* history: when the last upload was acknowledged
    fresh,      \* history: acknowledged after the prune read the directory
    clash,      \* history: two uploads of one name were open together
    pruned,     \* history: the map the prune removed last
    stamps,     \* history: the stamps the files under a name have shown
    repeats     \* history: two contents under a name have shown one stamp

files == <<dir, dest, tmp, content, mtime>>
history == <<latest, storedAt, fresh, clash, pruned, stamps, repeats>>
mapVars == <<files, upload, cache, reading, sweep, history>>

Blank == [k \in 1..Chunks |-> Nobody]
Closed == [pc |-> "idle", handle |-> Nobody, sent |-> 0]
AtRest == [dir |-> Nobody, key |-> 0]
NoSweep == [dir |-> Nobody, expired |-> {}, cutoff |-> 0]

Streaming == {u \in Uploads : upload[u].pc = "streaming"}

\* parse_source_map: a file that one upload wrote whole is that upload's map;
\* a torn one is malformed and symbolicates nothing.
Parse(c) ==
    IF \E u \in Uploads : c = [k \in 1..Chunks |-> u] THEN c[1] ELSE Nobody

OnDisk(d) == IF dest[d] = Nobody THEN Nobody ELSE Parse(content[dest[d]])

MapsInit ==
    /\ dir = [d \in Dirs |-> [exists |-> FALSE, mtime |-> 0]]
    /\ dest = [d \in Dirs |-> Nobody]
    /\ tmp = [d \in Dirs |-> Nobody]
    /\ content = [u \in Uploads |-> Blank]
    /\ mtime = [u \in Uploads |-> 0]
    /\ upload = [u \in Uploads |-> Closed]
    /\ cache = {}
    /\ reading = [r \in Readers |-> AtRest]
    /\ sweep = NoSweep
    /\ latest = [d \in Dirs |-> Nobody]
    /\ storedAt = [d \in Dirs |-> 0]
    /\ fresh = [d \in Dirs |-> FALSE]
    /\ clash = [d \in Dirs |-> FALSE]
    /\ pruned = {}
    /\ stamps = [d \in Dirs |-> {}]
    /\ repeats = [d \in Dirs |-> FALSE]

-----------------------------------------------------------------------------
(* upload_sourcemaps and _stream_to_disk.                                  *)

Touched(d) == [dir EXCEPT ![d].mtime = now]

Reply(u, outcome) ==
    upload' = [upload EXCEPT ![u] = [Closed EXCEPT !.pc = outcome]]

\* The names are validated before anything is written; then os.makedirs.
MakeDir(u) ==
    LET d == Target[u]
    IN  /\ upload[u].pc = "idle"
        /\ upload' = [upload EXCEPT ![u].pc = "made"]
        /\ dir' = IF dir[d].exists THEN dir
                  ELSE [dir EXCEPT ![d] = [exists |-> TRUE, mtime |-> now]]
        /\ UNCHANGED <<dest, tmp, content, mtime, cache, reading, sweep, history>>

\* open(tmp_path, "wb") creates the file or truncates the one that is there.
Temporary(u) == IF tmp[Target[u]] = Nobody THEN u ELSE tmp[Target[u]]

OpenTmp(u) ==
    LET d == Target[u]
        i == Temporary(u)
    IN  /\ upload[u].pc = "made"
        /\ dir[d].exists
        /\ upload' = [upload EXCEPT ![u] = [pc |-> "streaming", handle |-> i, sent |-> 0]]
        /\ tmp' = [tmp EXCEPT ![d] = i]
        /\ dir' = IF tmp[d] = Nobody THEN Touched(d) ELSE dir
        /\ content' = [content EXCEPT ![i] = Blank]
        /\ \E t \in Stamps : mtime' = [mtime EXCEPT ![i] = t]
        /\ clash' = [clash EXCEPT ![d] = @ \/ \E v \in Streaming : Target[v] = d]
        /\ UNCHANGED <<dest, cache, reading, sweep, latest, storedAt, fresh, pruned,
                       stamps, repeats>>

\* The prune removed the directory in between: the open fails.
NoDir(u) ==
    /\ upload[u].pc = "made"
    /\ ~dir[Target[u]].exists
    /\ Reply(u, "failed")
    /\ UNCHANGED <<files, cache, reading, sweep, history>>

\* The name of d shows a new content with stamp t.
Shows(d, t) ==
    /\ stamps' = [stamps EXCEPT ![d] = @ \cup {t}]
    /\ repeats' = [repeats EXCEPT ![d] = @ \/ t \in stamps[d]]

\* A handle writes to its inode, at its own offset, even when the inode has been renamed
\* into place meanwhile.
WriteChunk(u) ==
    LET d == Target[u]
        i == upload[u].handle
    IN  /\ upload[u].pc = "streaming"
        /\ upload[u].sent < Chunks
        /\ upload' = [upload EXCEPT ![u].sent = @ + 1]
        /\ content' = [content EXCEPT ![i][upload[u].sent + 1] = u]
        /\ \E t \in Stamps :
              /\ mtime' = [mtime EXCEPT ![i] = t]
              /\ IF dest[d] = i THEN Shows(d, t) ELSE UNCHANGED <<stamps, repeats>>
        /\ UNCHANGED <<dir, dest, tmp, cache, reading, sweep, latest, storedAt, fresh, clash,
                       pruned>>

Whole_Early(u) == upload[u].pc = "streaming" /\ upload[u].sent + 1 >= Chunks
Whole(u) == upload[u].pc = "streaming" /\ upload[u].sent = Chunks

\* os.replace moves whatever now has the temporary name into place.
Replace(u) ==
    LET d == Target[u]
    IN  /\ Whole(u)
        /\ tmp[d] # Nobody
        /\ dest' = [dest EXCEPT ![d] = tmp[d]]
        /\ tmp' = [tmp EXCEPT ![d] = Nobody]
        /\ dir' = Touched(d)
        /\ Reply(u, "stored")
        /\ latest' = [latest EXCEPT ![d] = u]
        /\ storedAt' = [storedAt EXCEPT ![d] = now]
        /\ fresh' = [fresh EXCEPT ![d] = TRUE]
        /\ Shows(d, mtime[tmp[d]])
        /\ UNCHANGED <<content, mtime, cache, reading, sweep, clash, pruned>>

\* The temporary name is gone (another upload renamed it, or the directory was
\* removed), or a chunk fails: too large, disk error, client gone.  The handler
\* removes the temporary file if there is one.
Abort(u) ==
    LET d == Target[u]
    IN  /\ upload[u].pc = "streaming"
        /\ Whole(u) => tmp[d] = Nobody
        /\ tmp' = [tmp EXCEPT ![d] = Nobody]
        /\ dir' = IF tmp[d] = Nobody THEN dir ELSE Touched(d)
        /\ Reply(u, "failed")
        /\ UNCHANGED <<dest, content, mtime, cache, reading, sweep, history>>

\* The API process is killed: its requests end and leave their files as they are.
Kill ==
    /\ \E u \in Uploads : upload[u].pc \in {"made", "streaming"}
    /\ upload' = [u \in Uploads |->
                    IF upload[u].pc \in {"made", "streaming"}
                    THEN [Closed EXCEPT !.pc = "killed"] ELSE upload[u]]
    /\ UNCHANGED <<files, cache, reading, sweep, history>>

\* shutil.rmtree(release_path), in the API process: no request runs meanwhile.
delete_release_maps(d) ==
    /\ dir[d].exists
    /\ dir' = [dir EXCEPT ![d] = [exists |-> FALSE, mtime |-> 0]]
    /\ dest' = [dest EXCEPT ![d] = Nobody]
    /\ tmp' = [tmp EXCEPT ![d] = Nobody]
    /\ latest' = [latest EXCEPT ![d] = Nobody]
    /\ UNCHANGED <<content, mtime, upload, cache, reading, sweep, storedAt, fresh,
                   clash, pruned, stamps, repeats>>

-----------------------------------------------------------------------------
(* load_source_map in a worker.                                            *)

\* The cache key beside the path: st_mtime_ns of the file that has the name.
CacheKey_PathOnly(i) == 0
CacheKey(i) == mtime[i]

Stat(r, d) ==
    /\ reading[r].dir = Nobody
    /\ dest[d] # Nobody
    /\ reading' = [reading EXCEPT ![r] = [dir |-> d, key |-> CacheKey(dest[d])]]
    /\ UNCHANGED <<files, upload, cache, sweep, history>>

\* A hit uses the entry; a miss opens whatever has the name by then, and caches
\* what it parses, or None for a file that is gone or malformed.
ParseCached(r) ==
    LET d == reading[r].dir
        hit == \E c \in cache : c.dir = d /\ c.key = reading[r].key
    IN  /\ d # Nobody
        /\ cache' = IF hit THEN cache
                    ELSE cache \cup {[dir |-> d, key |-> reading[r].key, map |-> OnDisk(d)]}
        /\ reading' = [reading EXCEPT ![r] = AtRest]
        /\ UNCHANGED <<files, upload, sweep, history>>

-----------------------------------------------------------------------------
(* prune_expired_release_maps, called by the retention job with its cutoff.*)

release_dirs_older_than_Inclusive(cutoff) ==
    {d \in Dirs : dir[d].exists /\ dir[d].mtime <= cutoff}
release_dirs_older_than(cutoff) ==
    {d \in Dirs : dir[d].exists /\ dir[d].mtime < cutoff}

\* The walk reads every age before the first directory is removed.
WalkReleaseDirs(cutoff) ==
    /\ sweep' = [NoSweep EXCEPT !.expired = release_dirs_older_than(cutoff), !.cutoff = cutoff]
    /\ fresh' = [d \in Dirs |-> FALSE]
    /\ pruned' = {}
    /\ UNCHANGED <<files, upload, cache, reading, latest, storedAt, clash, stamps,
                   repeats>>

\* rmtree empties the directory it found ...
Unlink(d) ==
    /\ sweep.dir = Nobody
    /\ d \in sweep.expired
    /\ sweep' = [sweep EXCEPT !.dir = d]
    /\ dest' = [dest EXCEPT ![d] = Nobody]
    /\ tmp' = [tmp EXCEPT ![d] = Nobody]
    /\ dir' = IF dir[d].exists THEN Touched(d) ELSE dir
    /\ latest' = [latest EXCEPT ![d] = Nobody]
    /\ pruned' = IF dest[d] = Nobody THEN {}
                 ELSE {[storedAt |-> storedAt[d], fresh |-> fresh[d], cutoff |-> sweep.cutoff]}
    /\ UNCHANGED <<content, mtime, upload, cache, reading, storedAt, fresh, clash, stamps,
                   repeats>>

\* ... and removes it, unless a file has appeared: the error is logged and the
\* next directory's turn comes.
Rmdir ==
    LET d == sweep.dir
    IN  /\ d # Nobody
        /\ dir' = IF dest[d] = Nobody /\ tmp[d] = Nobody
                  THEN [dir EXCEPT ![d] = [exists |-> FALSE, mtime |-> 0]] ELSE dir
        /\ sweep' = [sweep EXCEPT !.dir = Nobody, !.expired = @ \ {d}]
        /\ UNCHANGED <<dest, tmp, content, mtime, upload, cache, reading, history>>

UploadStep(u) ==
    \/ MakeDir(u) \/ OpenTmp(u) \/ NoDir(u) \/ WriteChunk(u) \/ Replace(u) \/ Abort(u)

MapsNext ==
    \/ \E u \in Uploads : UploadStep(u)
    \/ Kill
    \/ \E d \in Dirs : delete_release_maps(d) \/ Unlink(d)
    \/ \E r \in Readers : ParseCached(r) \/ \E d \in Dirs : Stat(r, d)
    \/ Rmdir

-----------------------------------------------------------------------------
(* Correctness.                                                            *)

Inodes == Uploads \cup {Nobody}
Keys == Stamps \cup {0}

MapsTypeOK ==
    /\ dir \in [Dirs -> [exists : BOOLEAN, mtime : Nat]]
    /\ dest \in [Dirs -> Inodes] /\ tmp \in [Dirs -> Inodes]
    /\ content \in [Uploads -> [1..Chunks -> Inodes]]
    /\ mtime \in [Uploads -> Keys]
    /\ upload \in [Uploads -> [pc : {"idle", "made", "streaming", "stored", "failed", "killed"},
                               handle : Inodes, sent : 0..Chunks]]
    /\ cache \subseteq [dir : Dirs, key : Keys, map : Inodes]
    /\ reading \in [Readers -> [dir : Dirs \cup {Nobody}, key : Keys]]
    /\ sweep \in [dir : Dirs \cup {Nobody}, expired : SUBSET Dirs, cutoff : Int]
    /\ latest \in [Dirs -> Inodes] /\ storedAt \in [Dirs -> Nat]
    /\ fresh \in [Dirs -> BOOLEAN] /\ clash \in [Dirs -> BOOLEAN]
    /\ pruned \subseteq [storedAt : Nat, fresh : BOOLEAN, cutoff : Int]
    /\ stamps \in [Dirs -> SUBSET Keys] /\ repeats \in [Dirs -> BOOLEAN]

\* "atomic via a temp file": whatever is aborted, killed, deleted or pruned in
\* between, the file under a map's name is the whole upload acknowledged last,
\* unless two uploads of that name were open together (they share the temporary
\* file).
StoredIsLatest == \A d \in Dirs : ~clash[d] => OnDisk(d) = latest[d]

\* "a re-uploaded map (new mtime) misses the cache": an entry that a reader of the
\* file now on disk would hit is the parse of that file, though a reader stats the
\* file, opens it later and caches what it then finds, and the key names no file.
\* Except when two contents of the name have shown one mtime (written within one
\* tick of the file system's clock, or after that clock went back): the key is then the
\* same, and the cache serves the one it parsed.
CacheIsCurrent ==
    \A c \in cache :
        ~repeats[c.dir] /\ dest[c.dir] # Nobody /\ c.key = CacheKey(dest[c.dir])
            => c.map = OnDisk(c.dir)

\* The prune only removes a map acknowledged before its cutoff, or one that arrived
\* after it had read the directory's age.
PruneSparesFresh == \A x \in pruned : x.storedAt < x.cutoff \/ x.fresh
=============================================================================
