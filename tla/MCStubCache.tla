---------------------------- MODULE MCStubCache ----------------------------
(* Small instances of StubCache. *)
EXTENDS StubCache, TLC

CONSTANTS p1, p2, a, b

OneProcess == {p1}
TwoProcesses == {p1, p2}
OneBuild == {a}
TwoBuilds == {a, b}

AllCalls == Options

\* Calls that get as far as the cache.
CacheCalls ==
    {o \in Options :
        o.cacheDir /\ o.stubDir = "unset" /\ ~o.embedded /\ ~o.dev /\ o.manifest # "empty"}

\* And calls that end before it, or only then are found to be a dead end.
SharingCalls ==
    CacheCalls \cup
    {o \in Options :
        /\ o.build = a /\ o.manifest = "lists"
        /\ \/ ~o.cacheDir /\ o.stubDir = "has" /\ o.embedded /\ ~o.offline /\ ~o.dev
           \/ o.cacheDir /\ o.stubDir # "unset" /\ o.embedded /\ ~o.offline /\ ~o.dev
           \/ o.cacheDir /\ o.stubDir = "lacks" /\ ~o.embedded /\ ~o.offline /\ o.dev}

\* What fetch-stubs calls Resolve with.
FetchCalls ==
    {o \in Options : o.cacheDir /\ ~o.offline /\ ~o.dev /\ o.manifest = "lists"}

Symmetry == Permutations(Processes)
=============================================================================
