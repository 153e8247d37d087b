# A TLA+ model of vaultwright

vaultwright seals a directory of files into two binaries. `<name>.vault` holds
the files, encrypted; `<name>.warden` holds the second factor. To read the files,
one starts the vault and types the password, reads a 24-word challenge off the
vault's screen into the warden, reads the warden's 12-word response back into
the vault, and the vault then serves the files from memory over loopback HTTP.

This directory holds TLA+ modules translated from the Go sources, configurations
that check them on small instances with TLC, and theorems about them with proofs
checked by TLAPS. `PROJECT.json` lists the components, the runs, the hazards the
properties are aimed at, the source lines each definition stands for, and, for
each property, a mutated definition that the property must notice.

1. [Inventory](#1-inventory)
2. [Modules](#2-modules)
3. [Runs, bounds, fairness](#3-runs-bounds-fairness)
4. [What the code does otherwise than it says](#4-what-the-code-does-otherwise-than-it-says)
5. [Theorems and proofs](#5-theorems-and-proofs)
6. [What is not modelled](#6-what-is-not-modelled)
7. [Plan](#7-plan)
8. [Running it](#8-running-it)

## 1. Inventory

| Component | State it keeps | Operations | Talks to |
|---|---|---|---|
| `cmd/vaultwright` `seal` | targets, resolved stubs, two passwords, the list of outputs | `SealCommand.Execute` | `stubs.Resolve`, `prompt.Password`, `scheme.Seal`, `blob.WriteSealedBytes` |
| `cmd/vaultwright` `fetch-stubs`, `cache`, `version` | none | `Execute` | `stubs.Resolve` |
| `cmd/vault` | the payload in its own binary, opened metadata, ephemeral key, decrypted files | `run`, `unlockMeta`, `handshake` | `prompt`, `scheme`, `serve`; the person |
| `cmd/warden` | the payload in its own binary, the private key | `run`, `unlockWarden` | `prompt`, `scheme`; the person |
| `internal/scheme` | `VaultMeta`, `WardenKey` | `Seal`, `OpenVaultMeta`, `NewChallenge`, `OpenAssets`, `OpenAssetsSolo`, `OpenWarden`, `Respond` | `cryptocore`, `blob`, `archive` |
| `internal/cryptocore` | none | key derivation, envelopes, `Respond`, `RecoverShare` | Go's crypto |
| `internal/serve` | listener, `lastReq` under a mutex, the files | `New`, `Run`, `watchIdle`, `touch`, `handler` | `net/http`; signals, browsers |
| `internal/stubs` | the cache directory on disk; the manifest | `Resolve`, `fetchFromCacheOrDownload`, `httpGet`, `writeCache`, `Verify` | disk, release server, `builtin`; other vaultwright processes |
| `internal/prompt` | the position in standard input, bytes read ahead, words accepted, letters typed, matches and the position in them | `Password`, `ReadPhrase` (`collectWords`, `linePhrase`, `readLine`) | terminal or pipe, `wordcodec` |
| `internal/wordcodec` | the wordlist | `Encode`, `Decode`, `Normalize`, `Complete` | none |
| `internal/blob` | the sealed binary | `WriteSealedBytes`, `Read`, payload framing | disk |
| `internal/archive` | none | `Create`, `Extract` | disk |
| `internal/builtin` | embedded wordlist, manifest, stubs, version | getters | none |
| scripts, Makefile, workflows | release artefacts | build stubs, write the manifest, name the release assets | `stubs`, which asks for these names |

Where the components meet, and what is hard there:

- **Phrases carried by hand** between vault and warden screens. There is no
  channel and no session identifier: every response can be typed at every vault,
  now or later. What must be right: files come out only for the factors of this
  very session, a response is good for one session only, the password comes first,
  an honest answer is always accepted.
- **Four kinds of goroutine in the server** and the process around them: stop
  signals, the idle timer and a failing listener race for one `select`, while
  requests come and go. What must be right: a stop for idleness is justified, the
  reason returned is true, requests that were accepted get their grace time, and
  no request can keep the process alive.
- **A cache file shared by processes**, written in place with no lock, by builds
  that need not agree on what belongs in it. What must be right: nobody uses bytes
  other than those its manifest lists, nothing in the cache stops a download, and
  writers that race do not spoil the file for good.
- **Output files overwritten in place** by `seal`, several for one run. What must be
  right: nothing is touched before all stubs are there, a seal replaces the whole pair,
  every binary is what its name says.
- **Failures**: killed processes, full disks, downloads that fail or lie, phrases
  with a mistake the checksum does not catch.
- **Standard input read through several buffers.** A password is read byte by byte, each phrase
  through a buffer that is dropped with what is in it. What must be right: lines
  reach the prompts they are meant for, and the end of input ends the program.
- **The word editor**, which keeps letters, matches and a position in the matches in step over
  any sequence of keys. What must be right: Enter accepts what is on the screen.
- **Formats**: words and bytes, the trailer of a sealed binary, the fields of a payload, names in
  an archive, paths of requests, names of stubs in a release. No state, but two sides that must
  agree, with hazards at boundaries. What must be right: what one side writes the other
  reads, and it reads nothing else.

## 2. Modules

```
Unlock  <--implements--  Ceremony  --EXTENDS-->  Scheme  --EXTENDS-->  CryptoCore
                            ^   ^
              Operator -----'   '----- CeremonyProofs <--- CeremonyRefinement
Resolve <--implements--  StubCache   <--- StubCacheProofs
Prompt  --EXTENDS-->  Editor  --EXTENDS-->  Words  <--- WordsProofs
  ^------------------------------------------------------- PromptProofs
Formats --EXTENDS-->  Words, Container, Site, Manifest     <--- FormatsProofs
Server   <--- ServerProofs          SealCommand   <--- SealCommandProofs
```

Every module that a run is about has an `MC...` module. Those whose names end in `Proofs` or
`Refinement` hold theorems only.

**CryptoCore** (`internal/cryptocore`) is a term algebra. A derived key is a term
naming its label and all its inputs, so two keys are equal only if derived alike
from alike; an envelope opens under its key only; the two sides of a
Diffie-Hellman exchange get the same set of keys. The three 16-byte strings that
meet in an XOR (share, pad, response) are sets of independent random strings,
and XOR is symmetric difference: it is its own inverse, and equality means what
it should. The model thus takes the primitives to be perfect. It says nothing of
key lengths, of guessing, or of Argon2id's cost.

**Scheme** (`internal/scheme`) says what `Seal` puts into the two payloads and
what the vault and the warden get out. A Go function returning `(value, err)`
becomes a condition (`err == nil`) and an operator for the value: `MetaOpens` and
`OpenVaultMeta`, `AssetsOpen` and `Assets`, and so on.

**Ceremony** (`cmd/vault`, `cmd/warden`, `scheme.Seal` as called by `seal`) is the
main module. Each session `s` is a run of a vault binary, each `w` a run of a warden
binary. `vpc` and `wpc` say at which prompt it is. Every prompt outcome is an
action: right and wrong passwords and passphrases (`VaultPasswordRight`, ...), the
challenge, right and wrong responses, one challenge to a warden, a prompt that
fails or a process that is killed (`VaultAbort`, `WardenAbort`), serving and
stopping. The inputs are what a person can type: any password; any response that
has been on any screen, whoever's it was and however old; and a phrase with a
mistake that the checksum does not catch. Which branch is taken is decided by the
terms, by trying to open the ciphertext as the code does, and not by comparing
names: that the right response is the right one is a result, not an assumption.

**Unlock** states what the ceremony promises, with no keys in it: a session is
idle, locked, open or closed; it needs one factor or two; factors are proved for
it one by one, the password first; files are released when all are proved. In
`Ceremony`, `Promise == INSTANCE Unlock WITH ...` computes this state from the
detailed one, and `ImplementsUnlock` is the refinement.

**Operator** extends Ceremony with a person who means to succeed, for liveness.

**Server** (`internal/serve`, and `main`'s signal handling) has an action for each
step between two points where the goroutines can interleave: `watchIdle` reads and
compares (`WatchTick`) and then cancels (`WatchCancel`) in two steps, as it does
after letting go of the mutex; the Serve goroutine starts after Run has gone on to
its `select`; a connection is queued by the kernel, accepted by Serve, handled (here
`touch` is called) and finished. Of `net/http` there is only what `Run` relies
on: `Shutdown` closes a listener that Serve has registered, waits for the requests in
progress or for its context, and makes `Serve` return `ErrServerClosed`. A time is kept
as how long ago it was, up to the bound beyond which it makes no difference, so the
state space is finite without a bound on the run.

**StubCache** (`internal/stubs`, `builtin.EmbeddedStub`) has processes calling `Resolve` on
one path. The file is read and written block by block, since `os.ReadFile` and
`os.WriteFile` are not atomic against each other; a crash leaves whatever there is. A
block is the build it belongs to, or junk. A hash matches a content and no other.

**Resolve** states what a call promises its caller, with no word about the file: each call for
itself goes through the sources in their order, and the first that has the stub, or is a dead
end, decides. A call whose build lists the stub may be answered from the cache at once, with the
stub its own build lists; otherwise it fails only where the options or the server give a reason,
and once the server has sent the right stub it cannot fail. In `StubCache`, `Promise == INSTANCE
Resolve WITH ...` reads this state off a call's place in the code (everything between its
beginning and its end is "pending"), and `ImplementsResolve` is the refinement: races for
the file, torn files and failed writes are stutters.

**SealCommand** (`cmd/vaultwright seal`, `blob.WriteSealedBytes`) goes from the targets to
the files: resolve all stubs, prompt, seal, then create and write one output
after another. A payload is known by its run; that payloads of one run, and no
others, work together is Ceremony's subject. Its step `SealAssets` is Ceremony's
`SealPair`.

**Words** (`internal/wordcodec`) has the functions as operators on sequences of bits, with the
number of bits in a word as a constant: 11 in the code, where three words hold 33 bits,
one of them checksum, and here 2, where they hold 6. `Encode` and `Decode` are both written
from the code, position by position, and neither as the inverse of the other. Shifts, letters and the
fill of the list of completions are recursive functions, since theorems are proved about them.

**Editor** (`collectWords`, `resolve`) uses one byte of its buffer in each step: a letter, Tab, Enter,
backspace, the beginning of an escape sequence. Bytes arrive in chunks, since the loop that
swallows an escape sequence ends with the buffer.

**Prompt** (`Password`, `ReadPhrase`, and the loops of `unlockMeta`, `handshake` and `unlockWarden`
around them) adds the pipe: `Write` and `Close` are somebody else's, `ReadLine` takes a
line byte by byte, `Fill` reads ahead whatever there is, as a `bufio.Scanner` does, and `DecodePhrase`
drops it when the call returns. In Ceremony all this is one action per outcome of a prompt:
right, wrong, or an error; `Prompt` says which bytes lead to which.

**Container** (`internal/blob`), **Site** (`internal/archive`, `serve.handler`) and **Manifest**
(`manifest.go`, `downloadAssetName`, two scripts, `fetch-stubs --all`, completion) are operators
with no state. A file in Container is a sequence of bytes. Names and paths in Site are
sequences of segments, and a file is known by its contents; the tree has symbolic links, and its
root may be one. In Manifest a text is a sequence of atoms, so that putting a name together
and taking it apart are what the code does, without spelling it. **Formats** puts these three and `Words`
to one input a step and says what must come of it; `MCFormats` gives the sets of inputs.

`MC...` modules give the constants values. Each component module has operators marked
`FAULT`, put before the definition they are a faulty variant of: the mutants
of `PROJECT.json`. Nothing else uses them.

## 3. Runs, bounds, fairness

| Run | Checks | Instance |
|---|---|---|
| `ceremony` | `TypeOK`, `BothFactors`, `WrongPasswordShowsNoChallenge`, `ResponseIsForOneSession`, `AnsweredMeansOpenable`, `SharesStayMasked`, `ImplementsUnlock` | 2 pairs, 2 sessions, 2 warden runs, the empty and one other password, 1 attempt |
| `operator` | `EventuallyServed` | 1 pair, 2 sessions, each with a warden run, 3 attempts |
| `server` | `TypeOK`, `CutOnlyAfterGrace`, `ResultIsTrue`, `IdleStopJustified`, `StopIsHeeded`, `IdleStops` | 2 requests, idle time and grace time of 2 s |
| `stubs` | `TypeOK`, `OnlyListedBytes`, `CacheIsNoObstacle`, `LastWriterLeavesWhole`, `ImplementsResolve` | 2 processes, 2 builds, 2 blocks, damage at any time |
| `seal` | `TypeOK`, `OutputsFit`, `NothingWrittenUnresolved`, `ResealReplacesPair` | 3 runs, 2 targets, 5 command lines |
| `prompt` | `TypeOK`, `LinesReachTheirPrompt`, `PhraseIsCanonical`, `EditorInStep`, `AcceptsWhatIsShown`, `CursorKeysDoNothing`, `EndOfInputEnds` | 4 words, phrases of 3, 2 attempts, 4 lines out of 7, 12 chunks of keys, 3 letters a word |
| `formats` | `SpokenPhraseIsDecoded`, `SealedIsReadBack`, `OnlySealedIsRead`, `FieldsAreKept`, `DirectoriesAreSealed`, `FilesHaveAddresses`, `AnswersWereAskedFor`, `ReleasesAreFetched` | 121 584 inputs, below |
| `ceremony_wipe`, `server_idle`, `stubs_fetch`, `stubs_stubdir`, `formats_link` | one statement of a doc each, violated | as above, or smaller |

What the properties mean is stated at their definitions. Why the bounds do:

- *ceremony*: mix-ups need two of each: two pairs for the wrong warden, two sessions of
  one vault for a response that goes to the wrong one, two warden runs for two
  responses on record (`SharesStayMasked` takes all their combinations). All passwords
  other than the right one behave alike, so right and empty are enough: either may be
  the one a vault or a warden was sealed with. One attempt lets every prompt fail. The
  number of attempts matters for the counters; it is 3 in `operator`, and the
  theorems hold for every number.
- *operator*: 3 is the code's `prompt.Attempts`. Two sessions share a pair, so that each
  sees the other's phrases.
- *server*: `IdleStopJustified` and `CutOnlyAfterGrace` compare a request's age with the idle
  time and the wait with the grace time; two seconds allow a second before, at, and after each. Two
  requests let one be finished while the other is going on.
- *stubs*: two processes can overwrite and misread each other; two blocks are the least a file
  can be torn into; two builds disagree on the contents. A single call with each other source,
  and each dead end, is among the calls.
- *seal*: three runs allow an old pair, a failed run and a new one. The command lines share the
  plain names, share one side only, repeat a target, leave out the warden, and
  contradict themselves.
- *prompt*: one word of the list begins another (`ab`, `abb`), one is known by its first letter, and
  two begin with the same: every answer `Complete` and `resolve` can give. Three letters spell every word
  and overshoot some. Phrases of three words can come in one line or two. With two attempts there is a
  guess after a wrong one. Four lines are a password, a phrase in two pieces and one more; the lines are
  right, wrong, empty, too long for what is missing, and no phrase. Chunks hold a key, whole cursor-key
  sequences of both kinds, one in two pieces, and one with a letter typed behind it.
- *formats*: phrases of three and six words of two bits, all of them. Stubs of up to two, payloads of up to three and
  files of up to five bytes, with trailers of two: a file can be shorter than a trailer, a trailer can
  give a length of zero, too large by one, or just right. All sets of five directory entries
  (entry points at the root and below, names with and without a dot, a link), each option of the server,
  an entry point that lies in a subdirectory, one that is not clean, one that begins with a slash, one that leads
  upwards and one that is a directory, and all paths of up to three segments, `..` and empty ones among them. Any releases of two roles and two targets.

Symmetry is used for pairs, sessions, warden runs, processes and seal runs in runs with safety
properties only; `operator` and `server` have liveness properties and use none. No state
constraint is used anywhere: every counter is bounded by the code or saturates.
Deadlock is not checked, as every program here ends.

Fairness. `CarefulSpec` (Operator) has weak fairness for what the programs do by themselves
and for the person's right entries; starting, stopping and mistakes are never required, and
mistakes are limited to fewer than `Attempts` per prompt. This is an assumption on the person,
and the property says the programs keep their side. `FairSpec` (Server) has weak fairness for
the clock, `Run` and `watchIdle`: Go schedules runnable goroutines. `FairSpec` (Prompt) has it for
`PipeStep`, what the process does when there is something to read: nobody is obliged to write
to the pipe, to close it, or to press a key. Nothing is assumed of clients,
signals, handlers or Serve, so `StopIsHeeded` holds even when a handler never returns.

## 4. What the code does otherwise than it says

- `KeysWipedOnStop`: "Stopped; keys wiped." (`cmd/vault/main.go:89`) is printed, but nothing
  wipes the password key, the ephemeral key, or the files. They are gone when the process is.
- `IdleMeansInactive`: "auto-shutdown after this much inactivity" (`internal/serve/serve.go:28`).
  Inactivity is the time since a request *began*: a server may stop for idleness while it
  is sending a long answer (which then has the two seconds' grace), or when a request came in
  after the check. `IdleStopJustified` is what does hold.
- `FetchedIsCached`: `fetch-stubs` "pre-populates that cache" (`README.md:169-171`). An error in
  writing the cache is dropped and the target is reported `ok`.
- `StubDirInsteadOfCache`: `fetch-stubs --stub-dir` "write stubs into this directory instead of the
  cache" (`cmd/vaultwright/main.go:278`). The directory is only read; downloads go to the cache.
- `ArgumentIsSealed`: `archive.Create` "walks root and returns a tar stream of its regular files"
  (`internal/archive/archive.go:18`). If the assets directory is given by the name of a symbolic link to it,
  `seal` accepts it (`os.Stat` follows links), but `filepath.WalkDir` does not follow its root: the vault is
  sealed with no files, and success is reported. `DirectoriesAreSealed` is what holds.

Noted while modelling, and not runs:

- "Unverifiable stubs are never used" (`internal/stubs/stubs.go:4`): stubs in the stub directory are used
  without a look at the manifest. `OnlyListedBytes` is what holds, for the cache and the download.
- `README.md:119` says a mistyped word is caught by the checksum. It has four bits in a response and eight in a
  challenge: one wrong word in 16, or in 256, is not. Ceremony includes such phrases.
- On a pipe, a second guess at the response is lost if it was written before it was asked for: the first call
  read it ahead. `LinesReachTheirPrompt` says this is the only way to lose a line.
- "A path ending in "/" asks for that dir's entry point" (`internal/serve/serve.go:154`). For `/` itself the entry point has
  already taken the place of the path (`:147`) when it is joined to it (`:156`): if the entry point is called `d` and is a
  directory with a file `d` in it, `/` is answered with `d/d`. `AnswersWereAskedFor` names this case and
  allows it; an attempt to prove the property without it showed that it was missing.
- Cursor keys in application mode, F1 to F4 (`ESC O` and a letter), and sequences that arrive in two reads leave
  letters or beeps behind. `CursorKeysDoNothing` is about the `ESC [` sequences in one piece.

## 5. Theorems and proofs

Every invariant of every passing run is stated by a theorem, and so are both refinements and the two action
properties of the editor. A run shows them on a small instance, the theorem for all values of the
constants that satisfy the named assumptions. The assumptions stand in the modules that declare the constants, and
TLC evaluates them in every run. They say what the constants are and what a library provides:

| Module | Assumption | What it says |
|---|---|---|
| `Scheme`, `Ceremony` | `AttemptsAssumption`, `NilAssumption` | a positive number of attempts; `Nil` is not a pair, payload, key or set of files |
| `Server` | `TimesAssumption` | any idle time, 0 included; a grace time of a second or more |
| `StubCache` | `BlocksAssumption`, `DistinctAssumption`, `NilAssumption`, `CallsAssumption` | a file has a block; junk belongs to no build; calls are options |
| `SealCommand` | `HostAssumption`, `RunsAssumption`, `CallsAssumption`, `NilAssumption` | the host is a target and no target is called "plain"; there is a run |
| `Words` | `ListAssumption`, `SizeAssumption`, `Sha256Assumption` | the list has a word for each number, none twice; a hash is long enough for the checksum |
| `Editor`, `Prompt` | `EditorAssumption`, `KeysAssumption`, `PromptAssumption` | a phrase has words, of a size the codec takes; chunks are bytes; letters are no control characters |
| `Container` | `ByteAssumption`, `LenAssumption`, `Uint64Assumption`, `Uint32Assumption`, `TrailerAssumption` | what `encoding/binary` provides: a number put into a field can be got back, and any bytes of a trailer are what putting their number gives |
| `Site`, `Manifest` | `SegmentsAssumption`, `OsArchAssumption`, `HashAssumption` | `""`, `.` and `..` are segments; a name of a system is no separator; a hash is not empty |
| `Formats` | `EntropiesAssumption`, ..., `ReleasesAssumption` | the inputs are what the program has: bits of a size `Encode` takes, a payload that is not empty, clean names in a directory with none twice, an entry point |

Every proof of an invariant has the same plan. `Inv` is not inductive, so a stronger `IInv` is stated part by
part; a lemma for each part says that every step keeps it, with one step of the proof per action; `Invariance` puts them
together, and the theorem named for the property takes its part out of `IInv`.

**CeremonyProofs** (any pairs, sessions, warden runs, passwords and attempts):

- `TypeCorrect`: `Spec => []TypeOK`.
- `Invariance`: `TypeOK` is not enough to prove anything about
  factors: one needs to know what the payloads on disk were made from (`BinariesInv`: the
  payload of pair `p` is a `SealVault` of `p`), that a warden run holds the key of
  the pair it was started from, and only after its passphrase (`WardenInv`), and that a session's
  metadata was opened from its own binary, its challenge key is its own, and that it has
  a key only if it is two-factor (`SessionInv`).
- `OneSession`, `Completeness`, `PasswordFirst`: `ResponseIsForOneSession`, `AnsweredMeansOpenable` and
  `WrongPasswordShowsNoChallenge` from `IInv`, with lemmas on the algebra (what
  `RecoverShare` returns on which response; when an asset key is the right one).
- `FactorsRequired`: `Spec => []BothFactors`. The step that needs an argument is
  `VaultResponseRight`: the only response that opens the assets is the one that was made with the
  pair's private key for the session's challenge, and only a warden run of that pair can have
  made it.
- `SharesMasked`: `Spec => []SharesStayMasked`. No induction over the responses is needed: each has a pad of its own
  (`PadsDiffer`), so a pad that is in one of them is in no other, and stays in the XOR of them all, where a share
  would not have it.

**CeremonyRefinement**: `Spec => ImplementsUnlock`. Initial states map to initial states; each
vault step maps to `Begin`, `ProvePassword`, `Release`, `Close` or a stutter, the answer of
the right warden to a `ProveWarden`, every other warden step and every seal to a stutter. It uses
`FullInvariance`: `IInv` with the warden's half of `BothFactors` (`WardenFactor`) is invariant.

**ServerProofs** (any set of requests, any times):

- `TypeCorrect`: `Spec => []TypeOK`. A time that is kept up to a bound stays within it and in order (`UpToType`,
  `UpToOrder`).
- `Invariance`: besides the properties themselves it needs four facts: while `Run` is
  shutting down, `idleCtx` is cancelled and it is on record by whom (`Told`); before `Shutdown` is called, `Serve` has
  not returned `ErrServerClosed` (`ClosedByShutdown`), so `Run`'s other branch sees real errors only; no request is cut
  while the process runs (`CutAtTheEnd`); and `lastReq` is never older than the beginning of any request
  (`LastIsLast`), which is why `watchIdle` may decide by `lastReq` alone.
- `GraceIsGiven`, `ReasonIsTrue`, `IdleStopIsJustified`: `CutOnlyAfterGrace`, `ResultIsTrue` and `IdleStopJustified`.

**StubCacheProofs** (any number of processes and builds, files of any length, whatever else changes the file):

- `Invariance`: options are there from a call's beginning on (`Begun`); the file does not go away under a call that
  has opened it (`FileThere`); what is to be written has been verified (`OnlyVerifiedWritten`); bytes are returned at
  the end and not before (`SourceAtTheEnd`). `LastWriterLeavesWhole` needs what is true in the middle of the race:
  `WrittenSoFar`, that the blocks the last call to empty the file has written are good whoever has written since,
  as long as all calls are of one build (`OneBuildOnly`): a slower writer writes the same.
- `TypeCorrect`, `ListedBytesOnly`, `CacheNeverObstructs`, `LastWriterWins`: the four invariants of the run.
- `Refinement`: `Spec => ImplementsResolve`. `Ways` says of each place in the code which of the earlier sources have been
  passed and what the server has sent; it is invariant with `IInv`, and from it each step is one of Resolve's or a stutter
  (`CallRefines`). The steps on the file are stutters because nothing in Resolve's state depends on it.

**SealCommandProofs** (any runs, targets and command lines, overlapping or not):

- `Invariance`: `Begun` and `Positions` relate a run's place to its options and to the output it has got to; by
  `StubsInOrder` the stubs resolved are those of the first outputs, in order, which with the list of
  outputs (`OutputsForType`) makes every file what its name says. For the pair, `TouchedByWriters`, `OneAtATime` (runs that do not
  overlap are active one at a time), `OwnOutputsWhole` (what such a run has written is whole, but for the file
  it is writing) and `PairOrNothing`: when nobody writes, and nobody was stopped while writing, the outputs are of
  one run. The last speaks of all runs and not only of the one that finished, since a run that fails before writing must
  be known to have changed nothing.
- `TypeCorrect`, `ResolvedFirst`, `NamesFit`, `PairReplaced`: the four invariants of the run.

**WordsProofs** (any list of the right length, any hash, any number of bits in a word):

- `DecodeUndoesEncode`, `EncodeUndoesDecode`, and `SpokenPhrase`: what is shown, or its words abbreviated, is decoded to the
  bytes it was made of, and no two phrases stand for the same bytes.
- What the recursive functions compute is proved for all the numbers they are used for. The library's induction
  theorems cannot be used (below), so the induction is done by the least number that is an exception: `Least`,
  from the library's `WFMin`; then `Upwards` (a set that has 0 and, with each number, the next, up to a bound)
  and `Recursion` (the function that a recursive definition chooses exists). `Numbers`, `Shifts`, `BitsOfNumber`,
  `NumberOfBits` say that a number has the bits it was made of; `BitsOfWordsFor` and `WordsForBits` that a phrase has.

**PromptProofs** (any words, keys and lines, in whatever pieces they arrive; two levels in one proof):

- The editor: `SlotOK` and `WordsOK`, from `EditorInStep`, that the matches are those of the letters and the screen shows
  what they say. `EditorStepKeeps` has a step per key.
- The lines: `OneInput` (a terminal or a pipe), `WrittenEarly` (whoever waits for a prompt has no unread line ahead of it),
  `ReadForWords` (a line that was waited for is read only when words are to come), `NothingAhead` (the password is read no
  further than its line) and with them `LinesReachTheirPrompt`.
- `TypeCorrect`, `LinesAreKept`, `PhrasesAreCanonical` (by `EncodeUndoesDecode`), `EditorKeepsStep`: the four invariants of the run.
- `ShownIsAccepted` and `CursorKeysSwallowed`: the action properties `AcceptsWhatIsShown` and `CursorKeysDoNothing`, for every
  step that the invariant allows.

**FormatsProofs** (any inputs):

- `SealedBinaryIsReadBack`, `OnlyTheSealedIsRead`, `VaultPayloadIsParsed`, `WardenPayloadIsParsed` are about `Container`; `Middle`,
  `Ends` and `FourParts` say where the parts of a concatenation are found. The second cuts the file at the two
  places `Read` cuts it, and puts the pieces together again.
- `SealedFiles` and `DirectorySealed` say what `Create` and `Extract` leave of a directory, `FilesHaveTheirAddress` and `AskedFor` what the
  handler answers. A fold with a test is taken by the first element that passes it (`FirstOfAll`).
- `ReleaseFetched` says that a manifest made by the script, line by line and in any order of the stubs, lists each stub under the name
  the program asks for. `NamesDiffer` is where `OsArchAssumption` is needed: two targets have one name if a
  name of a system begins with the separator.
- `PhrasesKept`, `PayloadsReadBack`, `OnlySealed`, `FieldsKept`, `DirectoriesSealed`, `FilesAddressed`, `AnswersAskedFor`,
  `ReleasesFetched`: the eight invariants of the run, from these and from `Inputs`, that the inputs are what they are assumed to be.

Only model-checked is liveness: `EventuallyServed`, `StopIsHeeded`, `IdleStops` and `EndOfInputEnds`. Liveness under fairness, with
`ENABLED` in it, is out of this prover's reach. So are the library's theorems that take an operator as a parameter, among
them its induction theorems; hence the detour by the least number.

## 6. What is not modelled

- Failures of the random source, which Go's `crypto/rand` does not report.
- Payloads the program never wrote (the "corrupt metadata" branches of `OpenVaultMeta`).
- Wording, layout, logging, flags that only choose an address or a name.
- `--output` names that are also stubs, assets or other programs' files.
- `vaultwright cache` and `version`: each prints a value. The loop of `fetch-stubs` over its targets, which stops at
  the first error: a call leaves nothing to the next one but the cache, which is `StubCache`'s.
- Of the release, everything but the names of stubs: the Makefile, the workflows, how stubs are compiled and embedded.
- A terminal that cannot be put into raw mode (phrases are then read as from a pipe), lines longer than a megabyte,
  errors of a pipe other than its end, what the editor draws besides the word, upper case and blanks in lines.
- Content types and headers of answers; percent-encoding, which `net/http` undoes before the handler.

## 7. Plan

All modules that were planned exist, and every safety property that a run checks is proved.

| Module | State |
|---|---|
| `CryptoCore`, `Scheme`, `Ceremony`, `Unlock` | proved, with the refinement |
| `StubCache`, `Resolve` | proved, with the refinement |
| `Server` | proved; its liveness stays with TLC |
| `SealCommand` | proved |
| `Words`, `Editor`, `Prompt` | proved; `EndOfInputEnds` stays with TLC |
| `Container`, `Site`, `Manifest`, `Formats` | proved |

What is left is to say more:

- an abstract `Prompt`: guesses at a secret, at most `Attempts`, right or wrong, which `Prompt` would implement and which is what
  `Ceremony` uses of it;
- an abstract `Server`: open, closing with a reason, closed;
- `SealCommand`'s outputs as the binaries `Ceremony` starts, to say which of
  them still unlock after a seal that was interrupted. `ResealReplacesPair` and Ceremony's mix-ups of pairs say it
  in two halves.

## 8. Running it

In this directory, with TLC, TLAPS 1.4.5 and the community modules:

```
tlc -workers 2 -config Ceremony_mixups.cfg MCCeremony      # under a minute
tlc -workers 2 -config Server.cfg MCServer
tlc -workers 2 -config StubCache.cfg MCStubCache
tlc -workers 2 -config SealCommand.cfg MCSealCommand
tlc -workers 2 -config Operator.cfg MCOperator
tlc -workers 2 -config Prompt.cfg MCPrompt                 # a minute and a half
tlc -workers 2 -config Formats.cfg MCFormats
tlapm CeremonyProofs.tla
tlapm CeremonyRefinement.tla
tlapm ServerProofs.tla
tlapm StubCacheProofs.tla
tlapm SealCommandProofs.tla
tlapm WordsProofs.tla
tlapm PromptProofs.tla
tlapm FormatsProofs.tla
```
