------------------------------ MODULE Manifest ------------------------------
(***************************************************************************)
(* From the release build to fetch-stubs: the manifest that is built into  *)
(* vaultwright, the names stubs are published under, and the targets taken *)
(* from the manifest.  A text is a sequence of atoms; <os> and <arch> are  *)
(* atoms, as they hold no "_", "/" or blank.                               *)
(***************************************************************************)
EXTENDS Naturals, SequencesExt

CONSTANTS OsArch,  \* the pairs <os, arch>
          Hash(_)  \* SHA-256, in 64 hexadecimal digits

ASSUME OsArchAssumption == \A p \in OsArch : p[1] # "_"

Roles == {"vault", "warden"}
Target == {[role |-> r, os |-> p[1], arch |-> p[2]] : r \in Roles, p \in OsArch}

assetPath(t) == <<"stubs", "/", t.role, "/", t.os, "_", t.arch, ".stub">>

\* FAULT: the name of the file in its directory.
FaultDirectoryName(t) == <<t.role, "/", t.os, "_", t.arch, ".stub">>

\* download.go
DownloadAssetName(t) == <<t.role, "-", t.os, "_", t.arch, ".stub">>

-----------------------------------------------------------------------------
(* scripts *)

Stub(t) == <<"stub", t>>
ASSUME HashAssumption == \A t \in Target : Hash(Stub(t)) # ""

\* build-stubs.sh: a line for every stub.  sha256sum marks a name with a blank,
\* or with a star where files are binary.
Line(t, mark) == [hash |-> Hash(Stub(t)), mark |-> mark, name |-> assetPath(t)]
Sums(released, mark) == SetToSeq({Line(t, mark) : t \in released})

\* stage-release-assets.sh: the first slash of <role>/<os>_<arch>.stub becomes "-".
Published(released) ==
    [n \in {<<t.role, "-", t.os, "_", t.arch, ".stub">> : t \in released} |->
        Stub([role |-> n[1], os |-> n[3], arch |-> n[5]])]

-----------------------------------------------------------------------------
(* manifest.go *)

\* ParseManifest: the lines with a hash and a name, whatever mark is between
\* them; of two for one name, the last.
ParseManifest(lines) ==
    LET Listed == {i \in 1..Len(lines) : lines[i].hash # "" /\ lines[i].name # <<>>}
    IN  [n \in {lines[i].name : i \in Listed} |->
            lines[Max({i \in Listed : lines[i].name = n})].hash]

\* strings.Cut at the first such atom.
Cut(s, sep) ==
    LET i == SelectInSeq(s, LAMBDA a : a = sep)
    IN  IF i = 0 THEN <<>> ELSE <<SubSeq(s, 1, i - 1), SubSeq(s, i + 1, Len(s))>>

\* What is left of a name without stubs/ and .stub, as <role>/<os>_<arch>.
Rest(name) == SubSeq(name, 3, IF Last(name) = ".stub" THEN Len(name) - 1 ELSE Len(name))
RoleCut(name) == Cut(Rest(name), "/")
PairCut(name) == Cut(RoleCut(name)[2], "_")

\* Entries: the targets of the names of the form assetPath gives.
Formed(name) ==
    IsPrefix(<<"stubs", "/">>, name) /\ RoleCut(name) # <<>> /\ PairCut(name) # <<>>
TargetOf(name) ==
    [role |-> RoleCut(name)[1][1], os |-> PairCut(name)[1][1], arch |-> PairCut(name)[2][1]]
Entries(manifest) == {TargetOf(n) : n \in {m \in DOMAIN manifest : Formed(m)}}

-----------------------------------------------------------------------------
(* cmd/vaultwright *)

\* The pairs completion offers for a target.
Offered(manifest) == {<<t.os, t.arch>> : t \in Entries(manifest)}

\* The stubs fetch-stubs asks for: those of both roles for the pairs that were
\* named, or, with --all, whatever was named, those in the manifest.
FetchTargets(manifest, all, pairs) ==
    IF all THEN Entries(manifest)
    ELSE {[role |-> r, os |-> p[1], arch |-> p[2]] : r \in Roles, p \in pairs}

-----------------------------------------------------------------------------
Blank == [hash |-> "", mark |-> "", name |-> <<>>]

\* Four scripts and programs name a stub on its own.  For any release, with any
\* targets for the one and the other role: fetch-stubs --all asks for all its
\* stubs and for no other; what it downloads for each is published, and has the
\* hash the manifest lists; and with the pairs completion offers nothing is missed.
ReleaseIsFetched(released, mark) ==
    LET manifest == ParseManifest(<<Blank>> \o Sums(released, mark))
    IN  /\ FetchTargets(manifest, TRUE, {}) = released
        /\ released \subseteq FetchTargets(manifest, FALSE, Offered(manifest))
        /\ \A t \in released :
            /\ DownloadAssetName(t) \in DOMAIN Published(released)
            /\ manifest[assetPath(t)] = Hash(Published(released)[DownloadAssetName(t)])
=============================================================================
