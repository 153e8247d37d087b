----------------------------- MODULE StubCache -----------------------------
(***************************************************************************)
(* internal/stubs: processes of vaultwright that resolve a stub at the     *)
(* same time, and the cache file they share.  One file is enough: the path *)
(* has the version, role and target in it, and calls for different paths   *)
(* do not meet.                                                            *)
(*                                                                         *)
(* The cache file is written in place (os.WriteFile truncates, then        *)
(* writes) and read without a lock, a block at a time, so a reader may see *)
(* half a file and two writers may mix theirs.  The version does not tell  *)
(* two builds apart: a fork's build ($VAULTWRIGHT_RELEASE_REPO) of the     *)
(* same version has another manifest and shares the file.                  *)
(***************************************************************************)
EXTENDS Integers, FiniteSets

CONSTANTS
    Processes, \* calls of Resolve, each by a process of its own
    Builds,    \* builds of vaultwright with the same version
    NBlocks,   \* how many pieces a file is read and written in
    Calls,     \* the options calls are made with, of all Options
    Damage,    \* whether something else may overwrite the cache file
    Junk,      \* a block that is no part of any release
    Nil        \* no such file

ASSUME BlocksAssumption == NBlocks \in Nat \ {0}
ASSUME DistinctAssumption == Junk \notin Builds /\ Damage \in BOOLEAN

Blocks == 1..NBlocks
Contents == [Blocks -> Builds \cup {Junk}]

\* The stub that build b was released with, whose hash is in its manifest.
Released(b) == [i \in Blocks |-> b]
AllJunk == [i \in Blocks |-> Junk]


\* What decides the way of a call: the options, the build, and what the stub
\* directory holds for this target.
Options ==
    [build    : Builds,
     cacheDir : BOOLEAN, \* the user's cache directory can be located
     stubDir  : {"unset", "lacks", "unreadable", "has"},
     embedded : BOOLEAN,
     offline  : BOOLEAN,
     dev      : BOOLEAN, \* the version is "" or "dev"
     manifest : {"empty", "omits", "lists"}]

ASSUME NilAssumption == Nil \notin Contents /\ Nil \notin Options
ASSUME CallsAssumption == Calls \subseteq Options

VARIABLES
    file,  \* the cache file: its contents, or Nil
    creator,\* the call that last created or emptied it; Nil if none has, or
            \* if something else has changed it since
    pc, opt,
    buf,   \* what the call has read, downloaded or is writing
    next,  \* the next block to read or write
    source,\* where the bytes the call returned came from, "" if it returned none
    server \* how the download ended: "", "failed", "wrong", "right"

callVars == <<pc, opt, buf, next, source, server>>
fileVars == <<file, creator>>
vars == <<fileVars, callVars>>

States == {"idle", "stubdir", "embedded", "open", "read", "gate", "download",
           "create", "write", "ok", "error", "crashed"}

TypeOK ==
    /\ file \in Contents \cup {Nil}
    /\ creator \in Processes \cup {Nil}
    /\ pc \in [Processes -> States]
    /\ opt \in [Processes -> Options \cup {Nil}]
    /\ buf \in [Processes -> Contents]
    /\ next \in [Processes -> 1..NBlocks + 1]
    /\ source \in [Processes -> {"", "stubdir", "embedded", "cache", "download"}]
    /\ server \in [Processes -> {"", "failed", "wrong", "right"}]

Init ==
    /\ file \in {Nil, AllJunk} \cup {Released(b) : b \in Builds}
    /\ creator = Nil
    /\ pc = [p \in Processes |-> "idle"]
    /\ opt = [p \in Processes |-> Nil]
    /\ buf = [p \in Processes |-> AllJunk]
    /\ next = [p \in Processes |-> 1]
    /\ source = [p \in Processes |-> ""]
    /\ server = [p \in Processes |-> ""]

GoTo(p, state) == pc' = [pc EXCEPT ![p] = state]

\* Resolve returns data.
Return(p, from, data) ==
    /\ GoTo(p, "ok")
    /\ buf' = [buf EXCEPT ![p] = data]
    /\ source' = [source EXCEPT ![p] = from]

-----------------------------------------------------------------------------
\* FAULT: a stub the manifest does not list is let through.
FaultUnlisted(o, data) == o.manifest = "lists" => data = Released(o.build)

\* Manifest.Verify: the stub is listed, and the hash is the one listed.
Verify(o, data) == o.manifest = "lists" /\ data = Released(o.build)

\* fillDefaults comes first: without a cache directory even a call that would
\* not need it fails.
Begin(p, o) ==
    /\ pc[p] = "idle"
    /\ opt' = [opt EXCEPT ![p] = o]
    /\ GoTo(p, IF ~o.cacheDir THEN "error"
               ELSE IF o.stubDir = "unset" THEN "embedded" ELSE "stubdir")
    /\ UNCHANGED <<fileVars, buf, next, source, server>>

\* FAULT: a stub that cannot be read is taken for one that is not there.
FaultUnreadableIsAbsent(p, data) ==
    /\ pc[p] = "stubdir"
    /\ IF opt[p].stubDir = "has" THEN Return(p, "stubdir", data)
       ELSE GoTo(p, "embedded") /\ UNCHANGED <<buf, source>>
    /\ UNCHANGED <<fileVars, opt, next, server>>

\* Resolve, source 1.  What is in the directory is used as it is.
ReadStubDir(p, data) ==
    /\ pc[p] = "stubdir"
    /\ \/ opt[p].stubDir = "has" /\ Return(p, "stubdir", data)
       \/ opt[p].stubDir = "lacks" /\ GoTo(p, "embedded") /\ UNCHANGED <<buf, source>>
       \/ opt[p].stubDir = "unreadable" /\ GoTo(p, "error") /\ UNCHANGED <<buf, source>>
    /\ UNCHANGED <<fileVars, opt, next, server>>

\* Resolve, source 2.
UseEmbedded(p) ==
    /\ pc[p] = "embedded"
    /\ IF opt[p].embedded
       THEN Return(p, "embedded", Released(opt[p].build))
       ELSE GoTo(p, "open") /\ UNCHANGED <<buf, source>>
    /\ UNCHANGED <<fileVars, opt, next, server>>

\* fetchFromCacheOrDownload: no file, or one that cannot be opened, is a miss.
OpenCache(p) ==
    /\ pc[p] = "open"
    /\ \/ file # Nil /\ GoTo(p, "read")
       \/ GoTo(p, "gate")
    /\ UNCHANGED <<fileVars, opt, buf, next, source, server>>

\* os.ReadFile takes what is in the file at that moment.
ReadBlock(p) ==
    /\ pc[p] = "read"
    /\ next[p] <= NBlocks
    /\ buf' = [buf EXCEPT ![p][next[p]] = file[next[p]]]
    /\ next' = [next EXCEPT ![p] = @ + 1]
    /\ UNCHANGED <<fileVars, pc, opt, source, server>>

\* FAULT: a cache file that does not verify is an error.
FaultBadCacheIsFatal == "error"

\* Where the call goes when the cache file does not verify.
CacheRejected == "gate"

\* The bytes read are used only if they verify.
CheckCache(p) ==
    /\ pc[p] = "read"
    /\ next[p] > NBlocks
    /\ IF Verify(opt[p], buf[p])
       THEN Return(p, "cache", buf[p])
       ELSE GoTo(p, CacheRejected) /\ UNCHANGED <<buf, source>>
    /\ UNCHANGED <<fileVars, opt, next, server>>

\* Offline, or a build that is no release: nothing can be downloaded.
NoDownload(o) == o.offline \/ o.dev \/ o.manifest = "empty"

MayDownload(p) ==
    /\ pc[p] = "gate"
    /\ GoTo(p, IF NoDownload(opt[p]) THEN "error" ELSE "download")
    /\ UNCHANGED <<fileVars, opt, buf, next, source, server>>

\* httpGet fails: no connection, a bad status, too many bytes, a timeout.
DownloadFails(p) ==
    /\ pc[p] = "download"
    /\ GoTo(p, "error")
    /\ server' = [server EXCEPT ![p] = "failed"]
    /\ UNCHANGED <<fileVars, opt, buf, next, source>>

\* It returns some bytes; those that do not verify are an error.
Download(p, data) ==
    /\ pc[p] = "download"
    /\ server' = [server EXCEPT ![p] = IF data = Released(opt[p].build) THEN "right" ELSE "wrong"]
    /\ buf' = [buf EXCEPT ![p] = data]
    /\ GoTo(p, IF Verify(opt[p], data) THEN "create" ELSE "error")
    /\ UNCHANGED <<fileVars, opt, next, source>>

\* FAULT: the offset of the first write is one off.
FaultFromZero == 0

\* Where writing begins in the file that has just been emptied.
FirstBlock == 1

\* FAULT: a file that is already there is left as it is.
FaultKeepExisting(p) ==
    /\ pc[p] = "create"
    /\ file' = IF file = Nil THEN AllJunk ELSE file
    /\ creator' = p
    /\ next' = [next EXCEPT ![p] = IF file = Nil THEN 1 ELSE NBlocks + 1]
    /\ GoTo(p, "write")
    /\ UNCHANGED <<opt, buf, source, server>>

\* writeCache creates the file, or empties the one that is there.
CreateCache(p) ==
    /\ pc[p] = "create"
    /\ file' = AllJunk
    /\ creator' = p
    /\ next' = [next EXCEPT ![p] = FirstBlock]
    /\ GoTo(p, "write")
    /\ UNCHANGED <<opt, buf, source, server>>

WriteBlock(p) ==
    /\ pc[p] = "write"
    /\ next[p] <= NBlocks
    /\ file' = [file EXCEPT ![next[p]] = buf[p][next[p]]]
    /\ next' = [next EXCEPT ![p] = @ + 1]
    /\ UNCHANGED <<creator, pc, opt, buf, source, server>>

WriteDone(p) ==
    /\ pc[p] = "write"
    /\ next[p] > NBlocks
    /\ Return(p, "download", buf[p])
    /\ UNCHANGED <<fileVars, opt, next, server>>

\* writeCache fails (no permission, disk full), before or after the file was
\* emptied; the call returns the bytes all the same.
WriteFails(p) ==
    /\ pc[p] \in {"create", "write"}
    /\ Return(p, "download", buf[p])
    /\ UNCHANGED <<fileVars, opt, next, server>>

\* The process is killed.
Crash(p) ==
    /\ pc[p] \notin {"idle", "ok", "error", "crashed"}
    /\ GoTo(p, "crashed")
    /\ UNCHANGED <<fileVars, opt, buf, next, source, server>>

\* What a directory, a server or another program may hold: some release, or not.
Served == {AllJunk} \cup {Released(b) : b \in Builds}

\* Another program, or the disk, changes the cache file.
DamageCache ==
    /\ Damage
    /\ file # Nil
    /\ \E data \in Served : file' = data
    /\ creator' = Nil
    /\ UNCHANGED callVars

CallStep(p) ==
    \/ \E data \in Served : ReadStubDir(p, data)
    \/ UseEmbedded(p)
    \/ OpenCache(p) \/ ReadBlock(p) \/ CheckCache(p)
    \/ MayDownload(p) \/ DownloadFails(p) \/ \E data \in Served : Download(p, data)
    \/ CreateCache(p) \/ WriteBlock(p) \/ WriteDone(p) \/ WriteFails(p)
    \/ Crash(p)

Next ==
    \/ \E p \in Processes : (\E o \in Calls : Begin(p, o)) \/ CallStep(p)
    \/ DamageCache

Spec == Init /\ [][Next]_vars

-----------------------------------------------------------------------------
(* Properties. *)

\* "Unverifiable stubs are never used", for the two sources that are verified:
\* whatever is in the cache, half written, mixed, stale or damaged, even while it
\* is being read, and whatever the server sends, a call returns the stub of its
\* own build or nothing.
OnlyListedBytes ==
    \A p \in Processes : source[p] \in {"cache", "download"} =>
        opt[p].manifest = "lists" /\ buf[p] = Released(opt[p].build)

\* A call that is allowed to download fails only because the download did: no
\* state of the cache, and no failure to write it, stands in the way.
CacheIsNoObstacle ==
    \A p \in Processes : pc[p] = "error" =>
        \/ ~opt[p].cacheDir
        \/ opt[p].stubDir = "unreadable"
        \/ NoDownload(opt[p])
        \/ opt[p].manifest # "lists"
        \/ server[p] \in {"failed", "wrong"}

\* Calls of one build may write the file at the same time, in any order: when
\* the one that emptied it last has finished, the file is whole.
LastWriterLeavesWhole ==
    (/\ creator # Nil
     /\ pc[creator] = "ok" /\ next[creator] > NBlocks
     /\ \A p \in Processes : opt[p] # Nil => opt[p].build = opt[creator].build)
    => file = Released(opt[creator].build)

\* "fetch-stubs ... pre-populates that cache for offline sealing later."
FetchedIsCached ==
    \A p \in Processes :
        ~Damage /\ pc[p] = "ok" /\ source[p] = "download"
            => file = Released(opt[p].build)

\* fetch-stubs --stub-dir: "write stubs into this directory instead of the cache".
StubDirInsteadOfCache ==
    [][\A p \in Processes : pc[p] = "create" /\ pc'[p] = "write"
        => opt[p].stubDir = "unset"]_vars

-----------------------------------------------------------------------------
(* The calls implement Resolve. *)

ResolveStateAt(at) ==
    CASE at = "idle" -> "idle"
      [] at = "ok" -> "answered"
      [] at = "error" -> "error"
      [] at = "crashed" -> "killed"
      [] OTHER -> "pending"
ResolveState == [p \in Processes |-> ResolveStateAt(pc[p])]
ResolveAnswer ==
    [p \in Processes |-> IF pc[p] = "ok" THEN [from |-> source[p], data |-> buf[p]] ELSE Nil]

Promise == INSTANCE Resolve WITH
    call <- opt, state <- ResolveState, answer <- ResolveAnswer, Stubs <- Served

\* Resolve: whatever its users, crashes and other programs do to the file they
\* share, each call is answered, or fails, as if it were alone and the cache
\* either had the stub or had not.
ImplementsResolve == Promise!Spec
=============================================================================
