-------------------------- MODULE StubCacheProofs --------------------------
(***************************************************************************)
(* That resolving a stub is safe and cannot be obstructed by the cache, for *)
(* any number of processes and builds, files of any length, and whatever    *)
(* else changes the cache file.                                             *)
(***************************************************************************)
EXTENDS StubCache, TLAPS

\* What is served, and what the file is emptied to, is contents.
LEMMA ServedIsContents == Served \subseteq Contents /\ AllJunk \in Contents
  BY DEF Served, Contents, AllJunk, Released

\* Blocks are counted from one, to one past the last.
LEMMA BlockCount ==
    /\ 1 \in 1..NBlocks + 1
    /\ \A n \in 1..NBlocks + 1 : n <= NBlocks <=> n \in Blocks
    /\ \A n \in Blocks : n + 1 \in 1..NBlocks + 1
  BY BlocksAssumption DEF Blocks

\* A call has options from its beginning on.
Begun ==
    \A p \in Processes :
        /\ pc[p] = "idle" <=> opt[p] = Nil
        /\ pc[p] = "idle" => source[p] = ""

\* The file does not go away under a call that has opened it.
FileThere == \A p \in Processes : pc[p] \in {"read", "write"} => file # Nil

\* What is to be written has been verified.
OnlyVerifiedWritten ==
    \A p \in Processes : pc[p] \in {"create", "write"} => Verify(opt[p], buf[p])

\* A call returns bytes at its end, and nothing before.
SourceAtTheEnd == \A p \in Processes : source[p] # "" => pc[p] = "ok"

\* All calls are of the build of the call that last emptied the file.
OneBuildOnly ==
    \A p \in Processes : opt[p] # Nil => opt[p].build = opt[creator].build

\* The blocks that call has written are good, whoever has written since.
WrittenSoFar ==
    creator # Nil =>
        /\ file # Nil
        /\ pc[creator] \in {"write", "ok", "crashed"}
        /\ OneBuildOnly => \A i \in Blocks : i < next[creator] => file[i] = opt[creator].build

IInv ==
    /\ TypeOK
    /\ Begun /\ FileThere /\ OnlyVerifiedWritten /\ SourceAtTheEnd /\ WrittenSoFar
    /\ OnlyListedBytes /\ CacheIsNoObstacle

-----------------------------------------------------------------------------
\* Before the first call everything is well typed.
LEMMA TypeInit == Init => TypeOK
<1> SUFFICES ASSUME Init
             PROVE  TypeOK
  OBVIOUS
<1>2. file \in Contents \cup {Nil}
  BY ServedIsContents DEF Init, Served
<1>3. buf \in [Processes -> Contents]
  BY ServedIsContents DEF Init
<1> QED
  BY <1>2, <1>3, BlockCount DEF Init, TypeOK, States

\* A block that is written goes into the file.
LEMMA WriteBlockTypes ==
    ASSUME TypeOK, FileThere, NEW p \in Processes, WriteBlock(p)
    PROVE  /\ next[p] \in Blocks /\ file \in Contents /\ buf[p] \in Contents
           /\ file' = [file EXCEPT ![next[p]] = buf[p][next[p]]] /\ file' \in Contents
<1>1. next[p] \in Blocks /\ file \in Contents /\ buf[p] \in Contents
  BY BlockCount DEF TypeOK, FileThere, WriteBlock
<1>2. file' = [file EXCEPT ![next[p]] = buf[p][next[p]]]
  BY DEF WriteBlock
<1> QED
  BY <1>1, <1>2 DEF Contents

\* Every step keeps every variable in its type.
LEMMA TypeStep ==
    ASSUME TypeOK, Begun, FileThere, [Next]_vars
    PROVE  TypeOK'
<1> USE DEF TypeOK, States, GoTo, fileVars
<1>1. ASSUME NEW p \in Processes, NEW o \in Calls, Begin(p, o)
      PROVE  TypeOK'
  BY <1>1, CallsAssumption DEF Begin
<1>2. ASSUME NEW p \in Processes, NEW data \in Served, ReadStubDir(p, data)
      PROVE  TypeOK'
  <2>1. data \in Contents
    BY ServedIsContents
  <2>2. CASE Return(p, "stubdir", data)
    BY <1>2, <2>1, <2>2 DEF ReadStubDir, Return
  <2>3. CASE UNCHANGED <<buf, source>>
    BY <1>2, <2>3 DEF ReadStubDir, Return
  <2> QED
    BY <1>2, <2>2, <2>3 DEF ReadStubDir
<1>3. ASSUME NEW p \in Processes, UseEmbedded(p)
      PROVE  TypeOK'
  <2>1. opt[p] \in Options /\ Released(opt[p].build) \in Contents
    BY <1>3, ServedIsContents DEF UseEmbedded, Begun, Options, Served
  <2> QED
    BY <1>3, <2>1 DEF UseEmbedded, Return
<1>4. ASSUME NEW p \in Processes, OpenCache(p) \/ CheckCache(p) \/ MayDownload(p) \/ DownloadFails(p)
      PROVE  TypeOK'
  BY <1>4 DEF OpenCache, CheckCache, CacheRejected, MayDownload, DownloadFails, Return
<1>5. ASSUME NEW p \in Processes, ReadBlock(p)
      PROVE  TypeOK'
  <2>1. file \in Contents /\ buf[p] \in Contents /\ next[p] \in Blocks
    BY <1>5, BlockCount DEF ReadBlock, FileThere
  <2>2. [buf[p] EXCEPT ![next[p]] = file[next[p]]] \in Contents
    BY <2>1 DEF Contents
  <2>3. next[p] + 1 \in 1..NBlocks + 1
    BY <2>1, BlockCount
  <2>4. buf' = [buf EXCEPT ![p] = [buf[p] EXCEPT ![next[p]] = file[next[p]]]]
    BY <1>5 DEF ReadBlock
  <2> QED
    BY <1>5, <2>2, <2>3, <2>4 DEF ReadBlock
<1>6. ASSUME NEW p \in Processes, NEW data \in Served, Download(p, data)
      PROVE  TypeOK'
  BY <1>6, ServedIsContents DEF Download
<1>7. ASSUME NEW p \in Processes, CreateCache(p)
      PROVE  TypeOK'
  BY <1>7, ServedIsContents, BlockCount DEF CreateCache, FirstBlock
<1>8. ASSUME NEW p \in Processes, WriteBlock(p)
      PROVE  TypeOK'
  <2>1. next[p] \in Blocks /\ file' \in Contents
    BY <1>8, WriteBlockTypes
  <2>2. next[p] + 1 \in 1..NBlocks + 1
    BY <2>1, BlockCount
  <2> QED
    BY <1>8, <2>1, <2>2 DEF WriteBlock
<1>9. ASSUME NEW p \in Processes, WriteDone(p) \/ WriteFails(p) \/ Crash(p)
      PROVE  TypeOK'
  BY <1>9 DEF WriteDone, WriteFails, Crash, Return
<1>10. CASE DamageCache
  BY <1>10, ServedIsContents DEF DamageCache, callVars
<1>11. CASE UNCHANGED vars
  BY <1>11 DEF vars, callVars
<1> QED
  BY <1>1, <1>2, <1>3, <1>4, <1>5, <1>6, <1>7, <1>8, <1>9, <1>10, <1>11 DEF Next, CallStep

\* Who is where, with what.
LEMMA CallsStep ==
    ASSUME IInv, [Next]_vars
    PROVE  (Begun /\ SourceAtTheEnd)'
<1> USE DEF IInv, TypeOK, Begun, SourceAtTheEnd, GoTo, Return
<1>1. ASSUME NEW p \in Processes, NEW o \in Calls, Begin(p, o)
      PROVE  (Begun /\ SourceAtTheEnd)'
  <2>1. o # Nil
    BY CallsAssumption, NilAssumption
  <2> QED
    BY <1>1, <2>1 DEF Begin
<1>2. ASSUME NEW p \in Processes, NEW data \in Served, ReadStubDir(p, data)
      PROVE  (Begun /\ SourceAtTheEnd)'
  <2>1. CASE opt[p].stubDir = "has" /\ Return(p, "stubdir", data)
    BY <1>2, <2>1 DEF ReadStubDir
  <2>2. CASE GoTo(p, "embedded") /\ UNCHANGED <<buf, source>>
    BY <1>2, <2>2 DEF ReadStubDir
  <2>3. CASE GoTo(p, "error") /\ UNCHANGED <<buf, source>>
    BY <1>2, <2>3 DEF ReadStubDir
  <2> QED
    BY <1>2, <2>1, <2>2, <2>3 DEF ReadStubDir
<1>3. ASSUME NEW p \in Processes, UseEmbedded(p) \/ OpenCache(p)
      PROVE  (Begun /\ SourceAtTheEnd)'
  <2>1. CASE UseEmbedded(p)
    <3>1. CASE Return(p, "embedded", Released(opt[p].build))
      BY <2>1, <3>1 DEF UseEmbedded
    <3>2. CASE GoTo(p, "open") /\ UNCHANGED <<buf, source>>
      BY <2>1, <3>2 DEF UseEmbedded
    <3> QED
      BY <2>1, <3>1, <3>2 DEF UseEmbedded
  <2>2. CASE OpenCache(p)
    <3>1. CASE GoTo(p, "read")
      BY <2>2, <3>1 DEF OpenCache, fileVars
    <3>2. CASE GoTo(p, "gate")
      BY <2>2, <3>2 DEF OpenCache, fileVars
    <3> QED
      BY <2>2, <3>1, <3>2 DEF OpenCache
  <2> QED
    BY <1>3, <2>1, <2>2
<1>4. ASSUME NEW p \in Processes, ReadBlock(p) \/ CheckCache(p)
      PROVE  (Begun /\ SourceAtTheEnd)'
  BY <1>4 DEF ReadBlock, CheckCache, CacheRejected
<1>5. ASSUME NEW p \in Processes, MayDownload(p) \/ DownloadFails(p)
      PROVE  (Begun /\ SourceAtTheEnd)'
  BY <1>5 DEF MayDownload, DownloadFails
<1>6. ASSUME NEW p \in Processes, NEW data \in Served, Download(p, data)
      PROVE  (Begun /\ SourceAtTheEnd)'
  BY <1>6 DEF Download
<1>7. ASSUME NEW p \in Processes, CreateCache(p) \/ WriteBlock(p)
      PROVE  (Begun /\ SourceAtTheEnd)'
  BY <1>7 DEF CreateCache, WriteBlock
<1>8. ASSUME NEW p \in Processes, WriteDone(p) \/ WriteFails(p) \/ Crash(p)
      PROVE  (Begun /\ SourceAtTheEnd)'
  BY <1>8 DEF WriteDone, WriteFails, Crash
<1>9. CASE DamageCache \/ UNCHANGED vars
  BY <1>9 DEF DamageCache, callVars, vars
<1> QED
  BY <1>1, <1>2, <1>3, <1>4, <1>5, <1>6, <1>7, <1>8, <1>9 DEF Next, CallStep

\* Nothing takes the file away.
LEMMA FileStep ==
    ASSUME IInv, [Next]_vars
    PROVE  FileThere'
<1> USE DEF IInv, TypeOK, FileThere, GoTo, Return, fileVars
<1>1. ASSUME NEW p \in Processes, NEW o \in Calls, Begin(p, o)
      PROVE  FileThere'
  BY <1>1 DEF Begin
<1>2. ASSUME NEW p \in Processes, NEW data \in Served, ReadStubDir(p, data) \/ Download(p, data)
      PROVE  FileThere'
  BY <1>2 DEF ReadStubDir, Download
<1>3. ASSUME NEW p \in Processes, UseEmbedded(p) \/ OpenCache(p) \/ ReadBlock(p) \/ CheckCache(p)
      PROVE  FileThere'
  BY <1>3 DEF UseEmbedded, OpenCache, ReadBlock, CheckCache, CacheRejected
<1>4. ASSUME NEW p \in Processes, MayDownload(p) \/ DownloadFails(p)
      PROVE  FileThere'
  BY <1>4 DEF MayDownload, DownloadFails
<1>5. ASSUME NEW p \in Processes, CreateCache(p)
      PROVE  FileThere'
  BY <1>5, ServedIsContents, NilAssumption DEF CreateCache
<1>6. ASSUME NEW p \in Processes, WriteBlock(p)
      PROVE  FileThere'
  <2>1. file' # Nil
    BY <1>6, WriteBlockTypes, NilAssumption
  <2> QED
    BY <2>1
<1>7. ASSUME NEW p \in Processes, WriteDone(p) \/ WriteFails(p) \/ Crash(p)
      PROVE  FileThere'
  BY <1>7 DEF WriteDone, WriteFails, Crash
<1>8. CASE DamageCache
  BY <1>8, ServedIsContents, NilAssumption DEF DamageCache
<1>9. CASE UNCHANGED vars
  BY <1>9 DEF callVars, vars
<1> QED
  BY <1>1, <1>2, <1>3, <1>4, <1>5, <1>6, <1>7, <1>8, <1>9 DEF Next, CallStep

\* A call that returns what was verified.
LEMMA ReturnListed ==
    ASSUME IInv, NEW p \in Processes, NEW from, NEW data,
           Return(p, from, data), UNCHANGED opt,
           from \in {"cache", "download"} => Verify(opt[p], data)
    PROVE  (OnlyVerifiedWritten /\ OnlyListedBytes)'
<1> USE DEF IInv, TypeOK, OnlyVerifiedWritten, OnlyListedBytes, Return, GoTo
<1>1. ASSUME NEW q \in Processes, q # p
      PROVE  pc'[q] = pc[q] /\ buf'[q] = buf[q] /\ source'[q] = source[q]
  BY <1>1
<1>2. pc'[p] = "ok" /\ buf'[p] = data /\ source'[p] = from
  OBVIOUS
<1>3. OnlyVerifiedWritten'
  BY <1>1, <1>2 DEF Verify
<1>4. OnlyListedBytes'
  BY <1>1, <1>2 DEF Verify
<1> QED
  BY <1>3, <1>4

\* What is returned or written was verified when it was read or downloaded, and
\* the call keeps it in memory: what others do to the file does not matter.
LEMMA ListedStep ==
    ASSUME IInv, [Next]_vars
    PROVE  (OnlyVerifiedWritten /\ OnlyListedBytes)'
<1> USE DEF IInv, TypeOK, Begun, SourceAtTheEnd, OnlyVerifiedWritten, OnlyListedBytes, GoTo
<1>1. ASSUME NEW p \in Processes, NEW o \in Calls, Begin(p, o)
      PROVE  (OnlyVerifiedWritten /\ OnlyListedBytes)'
  BY <1>1 DEF Begin
<1>2. ASSUME NEW p \in Processes, NEW data \in Served, ReadStubDir(p, data)
      PROVE  (OnlyVerifiedWritten /\ OnlyListedBytes)'
  <2>1. CASE Return(p, "stubdir", data)
    BY <1>2, <2>1, ReturnListed DEF ReadStubDir
  <2>2. CASE UNCHANGED <<buf, source>> /\ (GoTo(p, "embedded") \/ GoTo(p, "error"))
    BY <1>2, <2>2 DEF ReadStubDir
  <2> QED
    BY <1>2, <2>1, <2>2 DEF ReadStubDir
<1>3. ASSUME NEW p \in Processes, UseEmbedded(p) \/ OpenCache(p)
      PROVE  (OnlyVerifiedWritten /\ OnlyListedBytes)'
  <2>1. CASE Return(p, "embedded", Released(opt[p].build))
    BY <1>3, <2>1, ReturnListed DEF UseEmbedded, OpenCache
  <2>2. CASE /\ UNCHANGED <<buf, source>>
             /\ GoTo(p, "open") \/ GoTo(p, "read") \/ GoTo(p, "gate")
    BY <1>3, <2>2 DEF UseEmbedded, OpenCache
  <2> QED
    BY <1>3, <2>1, <2>2 DEF UseEmbedded, OpenCache
<1>4. ASSUME NEW p \in Processes, ReadBlock(p)
      PROVE  (OnlyVerifiedWritten /\ OnlyListedBytes)'
  BY <1>4 DEF ReadBlock
<1>5. ASSUME NEW p \in Processes, CheckCache(p)
      PROVE  (OnlyVerifiedWritten /\ OnlyListedBytes)'
  <2>1. CASE Return(p, "cache", buf[p]) /\ Verify(opt[p], buf[p])
    BY <1>5, <2>1, ReturnListed DEF CheckCache
  <2>2. CASE GoTo(p, "gate") /\ UNCHANGED <<buf, source>>
    BY <1>5, <2>2 DEF CheckCache
  <2> QED
    BY <1>5, <2>1, <2>2 DEF CheckCache, CacheRejected
<1>6. ASSUME NEW p \in Processes, MayDownload(p) \/ DownloadFails(p)
      PROVE  (OnlyVerifiedWritten /\ OnlyListedBytes)'
  BY <1>6 DEF MayDownload, DownloadFails
<1>7. ASSUME NEW p \in Processes, NEW data \in Served, Download(p, data)
      PROVE  (OnlyVerifiedWritten /\ OnlyListedBytes)'
  BY <1>7 DEF Download
<1>8. ASSUME NEW p \in Processes, CreateCache(p) \/ WriteBlock(p)
      PROVE  (OnlyVerifiedWritten /\ OnlyListedBytes)'
  BY <1>8 DEF CreateCache, WriteBlock
<1>9. ASSUME NEW p \in Processes, WriteDone(p) \/ WriteFails(p)
      PROVE  (OnlyVerifiedWritten /\ OnlyListedBytes)'
  <2>1. Return(p, "download", buf[p]) /\ UNCHANGED opt /\ Verify(opt[p], buf[p])
    BY <1>9 DEF WriteDone, WriteFails
  <2> QED
    BY <2>1, ReturnListed
<1>10. ASSUME NEW p \in Processes, Crash(p)
      PROVE  (OnlyVerifiedWritten /\ OnlyListedBytes)'
  BY <1>10 DEF Crash
<1>11. CASE DamageCache \/ UNCHANGED vars
  BY <1>11 DEF DamageCache, callVars, vars
<1> QED
  BY <1>1, <1>2, <1>3, <1>4, <1>5, <1>6, <1>7, <1>8, <1>9, <1>10, <1>11 DEF Next, CallStep

\* No error comes from the cache: one that does not verify leads to the
\* download, and a download that verifies is returned, written or not.
LEMMA ObstacleStep ==
    ASSUME IInv, [Next]_vars
    PROVE  CacheIsNoObstacle'
<1> USE DEF IInv, TypeOK, Begun, CacheIsNoObstacle, GoTo
<1>1. ASSUME NEW p \in Processes, NEW o \in Calls, Begin(p, o)
      PROVE  CacheIsNoObstacle'
  BY <1>1 DEF Begin
<1>2. ASSUME NEW p \in Processes, NEW data \in Served, ReadStubDir(p, data)
      PROVE  CacheIsNoObstacle'
  BY <1>2 DEF ReadStubDir, Return
<1>3. ASSUME NEW p \in Processes, UseEmbedded(p) \/ OpenCache(p) \/ ReadBlock(p)
      PROVE  CacheIsNoObstacle'
  <2>1. /\ UNCHANGED <<opt, server>>
        /\ pc' = pc \/ \E state \in {"ok", "open", "read", "gate"} : GoTo(p, state)
    BY <1>3 DEF UseEmbedded, OpenCache, ReadBlock, Return
  <2> QED
    BY <2>1
<1>4. ASSUME NEW p \in Processes, CheckCache(p)
      PROVE  CacheIsNoObstacle'
  <2>1. UNCHANGED <<opt, server>> /\ \E state \in {"ok", "gate"} : GoTo(p, state)
    BY <1>4 DEF CheckCache, CacheRejected, Return
  <2> QED
    BY <2>1
<1>5. ASSUME NEW p \in Processes, MayDownload(p)
      PROVE  CacheIsNoObstacle'
  BY <1>5 DEF MayDownload
<1>6. ASSUME NEW p \in Processes, DownloadFails(p)
      PROVE  CacheIsNoObstacle'
  BY <1>6 DEF DownloadFails
<1>7. ASSUME NEW p \in Processes, NEW data \in Served, Download(p, data)
      PROVE  CacheIsNoObstacle'
  BY <1>7 DEF Download, Verify
<1>8. ASSUME NEW p \in Processes, CreateCache(p) \/ WriteBlock(p)
      PROVE  CacheIsNoObstacle'
  BY <1>8 DEF CreateCache, WriteBlock
<1>9. ASSUME NEW p \in Processes, WriteDone(p) \/ WriteFails(p) \/ Crash(p)
      PROVE  CacheIsNoObstacle'
  BY <1>9 DEF WriteDone, WriteFails, Crash, Return
<1>10. CASE DamageCache \/ UNCHANGED vars
  BY <1>10 DEF DamageCache, callVars, vars
<1> QED
  BY <1>1, <1>2, <1>3, <1>4, <1>5, <1>6, <1>7, <1>8, <1>9, <1>10 DEF Next, CallStep

\* A step of another call that does not write leaves what was written.
LEMMA WrittenKept ==
    ASSUME IInv, UNCHANGED <<file, creator>>,
           creator # Nil => /\ next'[creator] = next[creator]
                            /\ pc'[creator] \in {"write", "ok", "crashed"},
           \A p \in Processes : opt[p] # Nil => opt'[p] = opt[p]
    PROVE  WrittenSoFar'
<1> SUFFICES ASSUME creator # Nil
             PROVE  /\ file' # Nil
                    /\ pc'[creator] \in {"write", "ok", "crashed"}
                    /\ OneBuildOnly' => \A i \in Blocks :
                            i < next'[creator] => file'[i] = opt'[creator].build
  BY DEF WrittenSoFar
<1>1. creator \in Processes /\ opt[creator] # Nil
  BY DEF IInv, TypeOK, WrittenSoFar, Begun
<1>2. opt'[creator] = opt[creator] /\ next'[creator] = next[creator]
  BY <1>1
<1>3. OneBuildOnly' => OneBuildOnly
  BY <1>1 DEF OneBuildOnly
<1> QED
  BY <1>2, <1>3 DEF IInv, WrittenSoFar

\* Two calls of one build that write at the same time write the same.
LEMMA WrittenStep ==
    ASSUME IInv, [Next]_vars
    PROVE  WrittenSoFar'
<1>0. /\ creator # Nil => creator \in Processes /\ pc[creator] \in {"write", "ok", "crashed"}
      /\ pc \in [Processes -> States] /\ opt \in [Processes -> Options \cup {Nil}]
      /\ next \in [Processes -> 1..NBlocks + 1]
      /\ \A p \in Processes : pc[p] = "idle" <=> opt[p] = Nil
  BY DEF IInv, TypeOK, WrittenSoFar, Begun
<1> USE DEF GoTo, fileVars
<1>1. ASSUME NEW p \in Processes, NEW o \in Calls, Begin(p, o)
      PROVE  WrittenSoFar'
  BY <1>0, <1>1, WrittenKept DEF Begin
<1>2. ASSUME NEW p \in Processes, NEW data \in Served, ReadStubDir(p, data) \/ Download(p, data)
      PROVE  WrittenSoFar'
  BY <1>0, <1>2, WrittenKept DEF ReadStubDir, Download, Return
<1>3. ASSUME NEW p \in Processes, UseEmbedded(p) \/ OpenCache(p) \/ CheckCache(p)
      PROVE  WrittenSoFar'
  BY <1>0, <1>3, WrittenKept DEF UseEmbedded, OpenCache, CheckCache, CacheRejected, Return
<1>4. ASSUME NEW p \in Processes, ReadBlock(p)
      PROVE  WrittenSoFar'
  BY <1>0, <1>4, WrittenKept DEF ReadBlock
<1>5. ASSUME NEW p \in Processes, MayDownload(p) \/ DownloadFails(p) \/ Crash(p)
      PROVE  WrittenSoFar'
  BY <1>0, <1>5, WrittenKept DEF MayDownload, DownloadFails, Crash
<1>6. ASSUME NEW p \in Processes, CreateCache(p)
      PROVE  WrittenSoFar'
  <2>1. file' # Nil /\ creator' = p /\ pc'[p] = "write" /\ next'[p] = 1
    BY <1>0, <1>6, ServedIsContents, NilAssumption DEF CreateCache, FirstBlock
  <2>2. \A i \in Blocks : ~(i < 1)
    BY BlocksAssumption DEF Blocks
  <2> QED
    BY <2>1, <2>2 DEF WrittenSoFar
<1>7. ASSUME NEW p \in Processes, WriteBlock(p)
      PROVE  WrittenSoFar'
  <2> SUFFICES ASSUME creator # Nil
               PROVE  /\ file' # Nil
                      /\ pc[creator] \in {"write", "ok", "crashed"}
                      /\ OneBuildOnly => \A i \in Blocks :
                            i < next'[creator] => file'[i] = opt[creator].build
    BY <1>7 DEF WriteBlock, WrittenSoFar, OneBuildOnly
  <2>1. file' # Nil
    BY <1>7, WriteBlockTypes, NilAssumption DEF IInv
  <2> SUFFICES ASSUME OneBuildOnly, NEW i \in Blocks, i < next'[creator]
               PROVE  file'[i] = opt[creator].build
    BY <1>0, <2>1
  <2>2. next[p] \in Blocks /\ file \in Contents /\ file' = [file EXCEPT ![next[p]] = buf[p][next[p]]]
    BY <1>7, WriteBlockTypes DEF IInv
  <2>3. buf[p] = Released(opt[p].build) /\ opt[p] # Nil
    BY <1>0, <1>7 DEF WriteBlock, IInv, OnlyVerifiedWritten, Verify
  <2>4. buf[p][next[p]] = opt[creator].build
    BY <2>2, <2>3 DEF Released, OneBuildOnly
  <2>5. CASE i = next[p]
    BY <2>2, <2>4, <2>5 DEF Contents
  <2>6. CASE i # next[p]
    <3>1. i < next[creator]
      <4>1. CASE creator = p
        <5>1. next'[p] = next[p] + 1
          BY <1>0, <1>7 DEF WriteBlock
        <5>2. i \in Int /\ next[p] \in Int
          BY <2>2, BlocksAssumption DEF Blocks
        <5> QED
          BY <2>6, <4>1, <5>1, <5>2
      <4>2. CASE creator # p
        BY <1>0, <1>7, <4>2 DEF WriteBlock
      <4> QED
        BY <4>1, <4>2
    <3>2. file[i] = opt[creator].build
      BY <3>1 DEF IInv, WrittenSoFar
    <3> QED
      BY <2>2, <2>6, <3>2 DEF Contents
  <2> QED
    BY <2>5, <2>6
<1>8. ASSUME NEW p \in Processes, WriteDone(p) \/ WriteFails(p)
      PROVE  WrittenSoFar'
  BY <1>0, <1>8, WrittenKept DEF WriteDone, WriteFails, Return
<1>9. CASE DamageCache
  BY <1>9 DEF DamageCache, WrittenSoFar
<1>10. CASE UNCHANGED vars
  BY <1>0, <1>10, WrittenKept DEF vars, callVars
<1> QED
  BY <1>1, <1>2, <1>3, <1>4, <1>5, <1>6, <1>7, <1>8, <1>9, <1>10 DEF Next, CallStep

\* Before the first call there is nothing to be wrong.
LEMMA IInvInit == Init => IInv
<1> SUFFICES ASSUME Init
             PROVE  IInv
  OBVIOUS
<1>1. TypeOK
  BY TypeInit
<1>2. Begun /\ FileThere /\ OnlyVerifiedWritten /\ SourceAtTheEnd /\ WrittenSoFar
  BY DEF Init, Begun, FileThere, OnlyVerifiedWritten, SourceAtTheEnd, WrittenSoFar
<1>3. OnlyListedBytes /\ CacheIsNoObstacle
  BY DEF Init, OnlyListedBytes, CacheIsNoObstacle
<1> QED
  BY <1>1, <1>2, <1>3 DEF IInv

\* IInv is an inductive invariant.
THEOREM Invariance == Spec => []IInv
<1>1. IInv /\ [Next]_vars => IInv'
  <2> SUFFICES ASSUME IInv, [Next]_vars
               PROVE  IInv'
    OBVIOUS
  <2>1. TypeOK'
    BY TypeStep DEF IInv
  <2> QED
    BY <2>1, CallsStep, FileStep, ListedStep, ObstacleStep, WrittenStep DEF IInv
<1> QED
  BY <1>1, IInvInit, PTL DEF Spec

\* The types of all variables, for any processes, builds and number of blocks.
THEOREM TypeCorrect == Spec => []TypeOK
<1>1. IInv => TypeOK
  BY DEF IInv
<1> QED
  BY <1>1, Invariance, PTL

\* Resolve never returns bytes from the cache or the download that are not those
\* its manifest lists: not if others write the file while it is read.
THEOREM ListedBytesOnly == Spec => []OnlyListedBytes
<1>1. IInv => OnlyListedBytes
  BY DEF IInv
<1> QED
  BY <1>1, Invariance, PTL

\* A call that may download fails only if the download does, whatever is in
\* the cache.
THEOREM CacheNeverObstructs == Spec => []CacheIsNoObstacle
<1>1. IInv => CacheIsNoObstacle
  BY DEF IInv
<1> QED
  BY <1>1, Invariance, PTL

\* However writeCache's calls of one build are interleaved, the file is whole
\* when the one that emptied it last has written all of it.
THEOREM LastWriterWins == Spec => []LastWriterLeavesWhole
<1>1. IInv => LastWriterLeavesWhole
  <2> SUFFICES ASSUME IInv, creator # Nil, pc[creator] = "ok", next[creator] > NBlocks, OneBuildOnly
               PROVE  file = Released(opt[creator].build)
    BY DEF LastWriterLeavesWhole, OneBuildOnly
  <2>1. file \in Contents /\ creator \in Processes /\ next[creator] \in 1..NBlocks + 1
    BY DEF IInv, TypeOK, WrittenSoFar
  <2>2. \A i \in Blocks : i < next[creator]
    BY <2>1, BlocksAssumption DEF Blocks
  <2>3. \A i \in Blocks : file[i] = opt[creator].build
    BY <2>2 DEF IInv, WrittenSoFar
  <2> QED
    BY <2>1, <2>3 DEF Contents, Released
<1> QED
  BY <1>1, Invariance, PTL

-----------------------------------------------------------------------------
(* The refinement. *)

\* Where a call is tells which sources have not decided, and what the server did.
WayOf(p) ==
    /\ pc[p] = "embedded" => Promise!PastStubDir(opt[p])
    /\ pc[p] \in {"open", "read", "gate", "download", "create", "write"}
          => Promise!PastEmbedded(opt[p])
    /\ pc[p] \in {"download", "create", "write"} => Promise!MayFetch(opt[p])
    /\ pc[p] \in {"idle", "stubdir", "embedded", "open", "read", "gate", "download"}
          => server[p] = ""
    /\ pc[p] \in {"create", "write"} => server[p] = "right"
Ways == \A p \in Processes : WayOf(p)

\* A step of one call leaves the ways of the others alone.
LEMMA WayKept ==
    ASSUME TypeOK, Ways, NEW p \in Processes, NEW at \in States, GoTo(p, at),
           \A q \in Processes \ {p} : opt'[q] = opt[q] /\ server'[q] = server[q],
           WayOf(p)'
    PROVE  Ways'
<1> SUFFICES ASSUME NEW q \in Processes PROVE WayOf(q)'
  BY DEF Ways
<1>1. CASE q = p
  BY <1>1
<1>2. CASE q # p
  <2>1. pc'[q] = pc[q] /\ opt'[q] = opt[q] /\ server'[q] = server[q]
    BY <1>2 DEF GoTo, TypeOK
  <2> QED BY <2>1 DEF Ways, WayOf
<1> QED BY <1>1, <1>2

\* The ways are those of the code, step by step.
LEMMA WaysStep ==
    ASSUME IInv, Ways, [Next]_vars
    PROVE  Ways'
<1> USE DEF IInv
<1>1. ASSUME NEW p \in Processes, NEW o \in Calls, Begin(p, o) PROVE Ways'
  <2>1. pc'[p] \in {"error", "embedded", "stubdir"} /\ opt'[p] = o /\ server'[p] = ""
    BY <1>1 DEF Begin, GoTo, TypeOK, Ways, WayOf
  <2>2. pc'[p] = "embedded" => o.stubDir = "unset"
    BY <1>1 DEF Begin, GoTo, TypeOK
  <2>3. WayOf(p)'
    BY <2>1, <2>2 DEF WayOf, Promise!PastStubDir
  <2> QED BY <1>1, <2>3, WayKept DEF Begin, States, TypeOK
<1>2. ASSUME NEW p \in Processes, CallStep(p) PROVE Ways'
  <2> USE <1>2
  <2>1. CASE \E data \in Served : ReadStubDir(p, data)
    <3>1. PICK at \in {"ok", "embedded", "error"} :
              /\ GoTo(p, at) /\ UNCHANGED <<opt, server>>
              /\ at = "embedded" => opt[p].stubDir = "lacks"
      BY <2>1 DEF ReadStubDir, Return
    <3>2. pc'[p] = at /\ WayOf(p)
      BY <3>1 DEF GoTo, TypeOK, Ways
    <3>3. WayOf(p)'
      BY <2>1, <3>1, <3>2 DEF WayOf, Promise!PastStubDir, ReadStubDir
    <3> QED BY <3>1, <3>3, WayKept DEF States
  <2>2. CASE UseEmbedded(p)
    <3>1. PICK at \in {"ok", "open"} :
              /\ GoTo(p, at) /\ UNCHANGED <<opt, server>>
              /\ at = "open" => ~opt[p].embedded
      BY <2>2 DEF UseEmbedded, Return
    <3>2. pc'[p] = at /\ WayOf(p)
      BY <3>1 DEF GoTo, TypeOK, Ways
    <3>3. WayOf(p)'
      BY <2>2, <3>1, <3>2 DEF WayOf, Promise!PastEmbedded, UseEmbedded
    <3> QED BY <3>1, <3>3, WayKept DEF States
  <2>3. CASE OpenCache(p) \/ CheckCache(p)
    <3>1. PICK at \in {"ok", "read", "gate"} :
              GoTo(p, at) /\ UNCHANGED <<opt, server>>
      BY <2>3 DEF OpenCache, CheckCache, Return, CacheRejected
    <3>2. pc'[p] = at /\ WayOf(p) /\ pc[p] \in {"open", "read"}
      BY <2>3, <3>1 DEF GoTo, TypeOK, Ways, OpenCache, CheckCache
    <3>3. WayOf(p)'
      BY <3>1, <3>2 DEF WayOf
    <3> QED BY <3>1, <3>3, WayKept DEF States
  <2>4. CASE ReadBlock(p) \/ WriteBlock(p)
    BY <2>4 DEF ReadBlock, WriteBlock, Ways, WayOf
  <2>5. CASE MayDownload(p)
    <3>1. PICK at \in {"error", "download"} :
              /\ GoTo(p, at) /\ UNCHANGED <<opt, server>>
              /\ at = "download" => ~NoDownload(opt[p])
      BY <2>5 DEF MayDownload
    <3>2. pc'[p] = at /\ WayOf(p)
      BY <3>1 DEF GoTo, TypeOK, Ways
    <3>3. WayOf(p)'
      BY <2>5, <3>1, <3>2 DEF WayOf, Promise!MayFetch, NoDownload, MayDownload
    <3> QED BY <3>1, <3>3, WayKept DEF States
  <2>6. CASE DownloadFails(p) \/ \E data \in Served : Download(p, data)
    <3>1. PICK at \in {"error", "create"} :
              /\ GoTo(p, at) /\ UNCHANGED opt
              /\ at = "create" => server'[p] = "right"
      BY <2>6 DEF DownloadFails, Download, Verify, TypeOK
    <3>2. pc'[p] = at /\ WayOf(p) /\ pc[p] = "download"
      BY <2>6, <3>1 DEF GoTo, TypeOK, Ways, DownloadFails, Download
    <3>3. WayOf(p)'
      BY <3>1, <3>2 DEF WayOf
    <3>4. \A q \in Processes \ {p} : server'[q] = server[q]
      BY <2>6 DEF DownloadFails, Download, TypeOK
    <3> QED BY <3>1, <3>3, <3>4, WayKept DEF States
  <2>7. CASE CreateCache(p)
    <3>1. GoTo(p, "write") /\ UNCHANGED <<opt, server>> /\ pc[p] = "create"
      BY <2>7 DEF CreateCache
    <3>2. pc'[p] = "write" /\ WayOf(p)
      BY <3>1 DEF GoTo, TypeOK, Ways
    <3>3. WayOf(p)'
      BY <3>1, <3>2 DEF WayOf
    <3> QED BY <3>1, <3>3, WayKept DEF States
  <2>8. CASE WriteDone(p) \/ WriteFails(p) \/ Crash(p)
    <3>1. PICK at \in {"ok", "crashed"} : GoTo(p, at) /\ UNCHANGED <<opt, server>>
      BY <2>8 DEF WriteDone, WriteFails, Crash, Return
    <3>2. pc'[p] = at
      BY <3>1 DEF GoTo, TypeOK
    <3>3. WayOf(p)'
      BY <3>1, <3>2 DEF WayOf
    <3> QED BY <3>1, <3>3, WayKept DEF States
  <2> QED BY <2>1, <2>2, <2>3, <2>4, <2>5, <2>6, <2>7, <2>8 DEF CallStep
<1>3. CASE DamageCache \/ UNCHANGED vars
  BY <1>3 DEF DamageCache, vars, callVars, Ways, WayOf
<1> QED BY <1>1, <1>2, <1>3 DEF Next

\* Before the first call none is on its way.
LEMMA WaysInit == Init => Ways
  BY DEF Init, Ways, WayOf

\* The state of a call that goes on, as Resolve sees it.
LEMMA Moved ==
    ASSUME TypeOK, NEW p \in Processes, NEW at \in States, GoTo(p, at)
    PROVE  ResolveState' = [ResolveState EXCEPT ![p] = ResolveStateAt(at)]
<1>1. \A q \in Processes : pc'[q] = IF q = p THEN at ELSE pc[q]
  BY DEF GoTo, TypeOK
<1> QED BY <1>1 DEF ResolveState

\* What a call returns.
LEMMA Returned ==
    ASSUME TypeOK, NEW p \in Processes, NEW from, NEW data, Return(p, from, data)
    PROVE  ResolveAnswer' = [ResolveAnswer EXCEPT ![p] = [from |-> from, data |-> data]]
<1>1. \A q \in Processes :
          IF q = p THEN pc'[q] = "ok" /\ source'[q] = from /\ buf'[q] = data
          ELSE pc'[q] = pc[q] /\ source'[q] = source[q] /\ buf'[q] = buf[q]
  BY DEF Return, GoTo, TypeOK
<1> QED BY <1>1 DEF ResolveAnswer

\* To return is to answer.
LEMMA ReturnRefines ==
    ASSUME TypeOK, NEW p \in Processes, NEW from, NEW data, Return(p, from, data),
           UNCHANGED <<opt, server>>
    PROVE  Promise!Return(p, from, data)
<1>1. GoTo(p, "ok") /\ "ok" \in States /\ ResolveStateAt("ok") = "answered"
  BY DEF Return, States, ResolveStateAt
<1>2. ResolveState' = [ResolveState EXCEPT ![p] = "answered"]
  <2> HIDE DEF States
  <2> QED BY <1>1, Moved
<1> QED BY <1>2, Returned DEF Promise!Return

\* A call that has not ended, and does not end with an answer, has none.
LEMMA NoAnswerYet ==
    ASSUME TypeOK, NEW p \in Processes, pc[p] # "ok", pc'[p] # "ok",
           \A q \in Processes \ {p} :
               pc'[q] = pc[q] /\ source'[q] = source[q] /\ buf'[q] = buf[q]
    PROVE  ResolveAnswer' = ResolveAnswer
  BY DEF ResolveAnswer

\* A call that goes on without an answer, or ends without one.
LEMMA OnlyMoved ==
    ASSUME TypeOK, NEW p \in Processes, NEW at \in States \ {"ok"}, GoTo(p, at),
           pc[p] # "ok", UNCHANGED source,
           \A q \in Processes \ {p} : buf'[q] = buf[q]
    PROVE  /\ ResolveState' = [ResolveState EXCEPT ![p] = ResolveStateAt(at)]
           /\ ResolveAnswer' = ResolveAnswer
<1>1. pc'[p] # "ok" /\ \A q \in Processes \ {p} : pc'[q] = pc[q]
  BY DEF GoTo, TypeOK
<1> QED BY <1>1, Moved, NoAnswerYet

\* A call that is still pending has done nothing that Resolve knows of.
LEMMA StillPending ==
    ASSUME TypeOK, NEW p \in Processes, NEW at \in States, GoTo(p, at),
           ResolveStateAt(pc[p]) = "pending", ResolveStateAt(at) = "pending",
           UNCHANGED <<opt, source, server>>,
           \A q \in Processes \ {p} : buf'[q] = buf[q]
    PROVE  UNCHANGED Promise!vars
<1>1. pc[p] # "ok" /\ at # "ok"
  BY DEF ResolveStateAt
<1>2. ResolveState' = [ResolveState EXCEPT ![p] = "pending"] /\ ResolveAnswer' = ResolveAnswer
  BY <1>1, OnlyMoved
<1>3. ResolveState' = ResolveState
  BY <1>2 DEF ResolveState
<1> QED BY <1>2, <1>3 DEF Promise!vars

\* The steps of a call are steps of Resolve, or leave it pending.
LEMMA CallRefines ==
    ASSUME IInv, Ways, NEW p \in Processes, CallStep(p)
    PROVE  Promise!Step(p) \/ UNCHANGED Promise!vars
<1> USE DEF IInv
<1> DEFINE Goal == Promise!Step(p) \/ UNCHANGED Promise!vars
<1>0. ASSUME pc[p] \notin {"idle", "ok", "error", "crashed"}
      PROVE  ResolveState[p] = "pending"
  BY <1>0 DEF ResolveState, ResolveStateAt
<1>1. WayOf(p)
  BY DEF Ways
<1>2. CASE \E data \in Served : ReadStubDir(p, data)
  <2>1. PICK data \in Served : ReadStubDir(p, data)
    BY <1>2
  <2>2. Promise!Unasked(p)
    BY <1>0, <1>1, <2>1 DEF ReadStubDir, WayOf, Promise!Unasked
  <2>3. CASE opt[p].stubDir = "has" /\ Return(p, "stubdir", data)
    <3>1. Promise!Return(p, "stubdir", data)
      BY <2>1, <2>3, ReturnRefines DEF ReadStubDir
    <3> QED BY <2>2, <2>3, <3>1 DEF Promise!FromStubDir, Promise!Step
  <2>4. CASE GoTo(p, "embedded") /\ UNCHANGED <<buf, source>>
    BY <2>1, <2>4, StillPending DEF ReadStubDir, States, ResolveStateAt
  <2>5. CASE opt[p].stubDir = "unreadable" /\ GoTo(p, "error") /\ UNCHANGED <<buf, source>>
    <3>1. /\ ResolveState' = [ResolveState EXCEPT ![p] = "error"]
          /\ ResolveAnswer' = ResolveAnswer
      BY <2>1, <2>5, OnlyMoved DEF ReadStubDir, States, ResolveStateAt
    <3> QED BY <2>1, <2>2, <2>5, <3>1 DEF ReadStubDir, Promise!DeadEnd, Promise!Step
  <2> QED BY <2>1, <2>3, <2>4, <2>5 DEF ReadStubDir
<1>3. CASE UseEmbedded(p)
  <2>1. CASE ~opt[p].embedded
    BY <1>3, <2>1, StillPending DEF UseEmbedded, States, ResolveStateAt
  <2>2. CASE opt[p].embedded
    <3>1. Return(p, "embedded", Released(opt[p].build)) /\ UNCHANGED <<opt, server>>
      BY <1>3, <2>2 DEF UseEmbedded
    <3>2. Promise!Return(p, "embedded", Released(opt[p].build))
      BY <3>1, ReturnRefines
    <3>3. Promise!Unasked(p) /\ Promise!PastStubDir(opt[p])
      BY <1>0, <1>1, <1>3 DEF UseEmbedded, WayOf, Promise!Unasked
    <3> QED BY <2>2, <3>2, <3>3 DEF Promise!FromBuild, Promise!Step
  <2> QED BY <2>1, <2>2
<1>4. CASE OpenCache(p)
  BY <1>4, StillPending DEF OpenCache, States, ResolveStateAt
<1>5. CASE ReadBlock(p)
  <2>1. GoTo(p, "read") /\ pc[p] = "read" /\ UNCHANGED <<opt, source, server>>
    BY <1>5 DEF ReadBlock, GoTo, TypeOK
  <2>2. \A q \in Processes \ {p} : buf'[q] = buf[q]
    BY <1>5 DEF ReadBlock, TypeOK
  <2> QED BY <2>1, <2>2, StillPending DEF States, ResolveStateAt
<1>6. CASE CheckCache(p)
  <2>1. CASE ~Verify(opt[p], buf[p])
    BY <1>6, <2>1, StillPending DEF CheckCache, CacheRejected, States, ResolveStateAt
  <2>2. CASE Verify(opt[p], buf[p])
    <3>1. Return(p, "cache", Released(opt[p].build)) /\ UNCHANGED <<opt, server>>
      BY <1>6, <2>2 DEF CheckCache, Verify
    <3>2. Promise!Return(p, "cache", Released(opt[p].build))
      BY <3>1, ReturnRefines
    <3>3. Promise!Unasked(p) /\ Promise!PastEmbedded(opt[p]) /\ opt[p].manifest = "lists"
      BY <1>0, <1>1, <1>6, <2>2 DEF CheckCache, WayOf, Verify, Promise!Unasked
    <3> QED BY <3>2, <3>3 DEF Promise!FromCache, Promise!Step
  <2> QED BY <2>1, <2>2
<1>7. CASE MayDownload(p)
  <2>1. CASE ~NoDownload(opt[p])
    BY <1>7, <2>1, StillPending DEF MayDownload, States, ResolveStateAt
  <2>2. CASE NoDownload(opt[p])
    <3>1. /\ ResolveState' = [ResolveState EXCEPT ![p] = "error"]
          /\ ResolveAnswer' = ResolveAnswer
      BY <1>7, <2>2, OnlyMoved DEF MayDownload, States, ResolveStateAt
    <3>2. Promise!Unasked(p) /\ Promise!PastEmbedded(opt[p]) /\ ~Promise!MayFetch(opt[p])
      BY <1>0, <1>1, <1>7, <2>2
      DEF MayDownload, WayOf, NoDownload, Promise!Unasked, Promise!MayFetch
    <3> QED BY <1>7, <3>1, <3>2 DEF MayDownload, Promise!DeadEnd, Promise!Step
  <2> QED BY <2>1, <2>2
<1>8. CASE DownloadFails(p) \/ \E data \in Served : Download(p, data)
  <2>1. Promise!Unasked(p) /\ Promise!MayFetch(opt[p]) /\ pc[p] = "download"
    BY <1>0, <1>1, <1>8 DEF DownloadFails, Download, WayOf, Promise!Unasked
  <2>2. PICK outcome \in {"failed", "wrong", "right"}, at \in {"error", "create"} :
          /\ server' = [server EXCEPT ![p] = outcome]
          /\ GoTo(p, at) /\ UNCHANGED <<opt, source>>
          /\ at = "create" <=> outcome = "right" /\ opt[p].manifest = "lists"
    BY <1>8 DEF DownloadFails, Download, Verify
  <2>3. \A q \in Processes \ {p} : buf'[q] = buf[q]
    BY <1>8 DEF DownloadFails, Download, TypeOK
  <2>4. /\ ResolveState' = [ResolveState EXCEPT ![p] = ResolveStateAt(at)]
        /\ ResolveAnswer' = ResolveAnswer
    BY <2>1, <2>2, <2>3, OnlyMoved DEF States
  <2>5. CASE at = "error"
    BY <2>1, <2>2, <2>4, <2>5 DEF ResolveStateAt, Promise!Refused, Promise!Step
  <2>6. CASE at = "create"
    <3>1. ResolveState' = ResolveState
      BY <2>1, <2>4, <2>6, <1>0 DEF ResolveState, ResolveStateAt
    <3> QED BY <2>1, <2>2, <2>4, <2>6, <3>1 DEF Promise!Fetch, Promise!Step
  <2> QED BY <2>2, <2>5, <2>6
<1>9. CASE CreateCache(p)
  BY <1>9, StillPending DEF CreateCache, States, ResolveStateAt
<1>10. CASE WriteBlock(p)
  BY <1>10 DEF WriteBlock, Promise!vars, ResolveState, ResolveAnswer
<1>11. CASE WriteDone(p) \/ WriteFails(p)
  <2>1. Return(p, "download", Released(opt[p].build)) /\ UNCHANGED <<opt, server>>
    BY <1>11 DEF WriteDone, WriteFails, OnlyVerifiedWritten, Verify
  <2>2. Promise!Return(p, "download", Released(opt[p].build))
    BY <2>1, ReturnRefines
  <2>3. ResolveState[p] = "pending" /\ server[p] = "right"
    BY <1>0, <1>1, <1>11 DEF WriteDone, WriteFails, WayOf
  <2> QED BY <2>2, <2>3 DEF Promise!FromServer, Promise!Step
<1>12. CASE Crash(p)
  <2>1. /\ ResolveState' = [ResolveState EXCEPT ![p] = "killed"]
        /\ ResolveAnswer' = ResolveAnswer
    BY <1>12, OnlyMoved DEF Crash, States, ResolveStateAt
  <2>2. ResolveState[p] = "pending" /\ UNCHANGED <<opt, server>>
    BY <1>0, <1>12 DEF Crash
  <2> QED BY <2>1, <2>2 DEF Promise!Kill, Promise!Step
<1> QED
  BY <1>2, <1>3, <1>4, <1>5, <1>6, <1>7, <1>8, <1>9, <1>10, <1>11, <1>12 DEF CallStep

\* A call begins as Resolve says.
LEMMA BeginRefines ==
    ASSUME IInv, NEW p \in Processes, NEW o \in Calls, Begin(p, o)
    PROVE  Promise!Begin(p)
<1> USE DEF IInv
<1>1. PICK at \in {"error", "embedded", "stubdir"} :
          GoTo(p, at) /\ (at = "error" <=> ~o.cacheDir)
  BY DEF Begin
<1>2. /\ ResolveState' = [ResolveState EXCEPT ![p] = ResolveStateAt(at)]
      /\ ResolveAnswer' = ResolveAnswer
  BY <1>1, OnlyMoved DEF Begin, States
<1>3. ResolveState[p] = "idle"
  BY DEF Begin, ResolveState, ResolveStateAt
<1>4. ResolveStateAt(at) = IF o.cacheDir THEN "pending" ELSE "error"
  BY <1>1 DEF ResolveStateAt
<1> QED BY <1>2, <1>3, <1>4 DEF Begin, Promise!Begin

\* Resolve does what its description says: with any number of processes and
\* builds, and whatever happens to the cache file, each call goes through the
\* sources in their order, alone, and is answered or fails as Resolve.tla allows.
THEOREM Refinement == Spec => ImplementsResolve
<1>1. Init => Promise!Init
  BY DEF Init, Promise!Init, ResolveState, ResolveStateAt, ResolveAnswer
<1>2. IInv /\ Ways /\ [Next]_vars => [Promise!Next]_(Promise!vars)
  <2> SUFFICES ASSUME IInv, Ways, [Next]_vars PROVE [Promise!Next]_(Promise!vars)
    OBVIOUS
  <2>1. CASE \E p \in Processes, o \in Calls : Begin(p, o)
    BY <2>1, BeginRefines DEF Promise!Next, Promise!Step
  <2>2. CASE \E p \in Processes : CallStep(p)
    BY <2>2, CallRefines DEF Promise!Next
  <2>3. CASE DamageCache \/ UNCHANGED vars
    BY <2>3 DEF DamageCache, vars, callVars, Promise!vars, ResolveState, ResolveAnswer
  <2> QED BY <2>1, <2>2, <2>3 DEF Next
<1>3. Init => IInv /\ Ways
  BY IInvInit, WaysInit
<1>4. IInv /\ Ways /\ [Next]_vars => Ways'
  BY WaysStep
<1> QED BY <1>1, <1>2, <1>3, <1>4, Invariance, PTL DEF Spec, ImplementsResolve, Promise!Spec
=============================================================================
