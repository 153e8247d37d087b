------------------------------ MODULE Formats -------------------------------
(***************************************************************************)
(* The modules of operators, and what they promise of every input: bytes    *)
(* as phrases (Words), payloads in binaries (Container), directories on the *)
(* server (Site), releases in the manifest (Manifest).  These have no state *)
(* of their own; a step takes one input, and the invariants are about it.   *)
(***************************************************************************)
EXTENDS Words, Container, Site, Manifest

CONSTANTS
    Entropies,          \* what is shown as a phrase
    Stubs, Payloads,    \* what binaries are made of
    Binaries,           \* what a file may hold that is read as one
    Vaults, Wardens,    \* payloads
    Trees,              \* directories to be sealed
    Served, Paths,      \* the server's options, and paths of requests
    Releases, Marks     \* the stubs of a release, and sha256sum's mark

ASSUME EntropiesAssumption == \A e \in Entropies : e \in Seq({0, 1}) /\ Encodes(e)

\* A payload is never empty: there is a salt in it.
ASSUME BinariesAssumption ==
    /\ Stubs \subseteq Seq(Byte) /\ Binaries \subseteq Seq(Byte)
    /\ \A p \in Payloads : p \in Seq(Byte) /\ Len(p) \in 1..MaxLen

ASSUME FieldsAssumption ==
    /\ \A p \in Vaults : p \in VaultPayloads /\ Len(p.meta) \in 0..MaxLen
    /\ \A p \in Wardens : p \in WardenPayloads

\* Names in a directory hold no "", "." or "..", and each is there once.
ASSUME TreesAssumption ==
    \A t \in Trees : \A e \in t.entries :
        /\ e.name \in Seq(Plain) \ {<<>>}
        /\ \A f \in t.entries : f.name = e.name => f = e

\* Of options and paths only that there are segments in them.
ASSUME RequestsAssumption ==
    /\ Served \subseteq Options /\ \A o \in Served : o.entry # <<>>
    /\ Paths \subseteq Seq(Segments) \ {<<>>}

ASSUME ReleasesAssumption == \A r \in Releases : r \subseteq Target /\ IsFiniteSet(r)

VARIABLE input
None == [kind |-> "none"]

Init == input = None

Phrase ==
    \E e \in Entropies : input' = [kind |-> "phrase", entropy |-> e]
Sealing ==
    \E s \in Stubs, p \in Payloads : input' = [kind |-> "sealing", stub |-> s, payload |-> p]
File ==
    \E b \in Binaries : input' = [kind |-> "file", bytes |-> b]
Fields ==
    \/ \E p \in Vaults : input' = [kind |-> "vault", payload |-> p]
    \/ \E p \in Wardens : input' = [kind |-> "warden", payload |-> p]
Request ==
    \E t \in Trees, o \in Served, p \in Paths :
        input' = [kind |-> "request", tree |-> t, opt |-> o, path |-> p]
Release ==
    \E r \in Releases, m \in Marks : input' = [kind |-> "release", released |-> r, mark |-> m]

Next == input = None /\ (Phrase \/ Sealing \/ File \/ Fields \/ Request \/ Release)
Spec == Init /\ [][Next]_input

-----------------------------------------------------------------------------
\* Encode, Normalize and Decode: the phrase of any bytes is decoded to these
\* bytes, also if every word is typed as the shortest prefix that stands for it.
SpokenPhraseIsDecoded ==
    input.kind = "phrase" => PhraseKept(input.entropy)

\* WriteSealedBytes and Read: a sealed binary is read back as its payload,
\* whatever the stub ends with.
SealedIsReadBack ==
    input.kind = "sealing" => ReadBack(input.stub, input.payload)

\* Read: what is read from any file is what could have been written there.
OnlySealedIsRead ==
    input.kind = "file" => ReadIsExact(input.bytes)

\* Marshal and Parse: the fields of the payloads are told apart.
FieldsAreKept ==
    /\ input.kind = "vault" => VaultFieldsKept(input.payload)
    /\ input.kind = "warden" => WardenFieldsKept(input.payload)

\* archive.Create and Extract: of a directory given by its own name, the
\* regular files are sealed, and nothing else.
DirectoriesAreSealed ==
    input.kind = "request" /\ input.tree.root = "dir" => DirectoryIsSealed(input.tree)

\* Whatever name a directory was given by, its files are sealed: what the
\* command's help says of seal's argument.
ArgumentIsSealed ==
    input.kind = "request" => DirectoryIsSealed(input.tree)

\* The handler: every file that was sealed can be asked for, and the address
\* that is printed leads to the entry point.
FilesHaveAddresses ==
    input.kind = "request" /\ input.tree.root = "dir" =>
        EveryFileHasItsAddress(input.tree, input.opt)

\* The handler: nothing else is sent, and nothing without the key.
AnswersWereAskedFor ==
    input.kind = "request" => NothingUnasked(input.tree, input.opt, input.path)

\* The names of the release, of the manifest and of the download agree.
ReleasesAreFetched ==
    input.kind = "release" => ReleaseIsFetched(input.released, input.mark)
=============================================================================
