------------------------------ MODULE Resolve ------------------------------
(***************************************************************************)
(* What resolving a stub promises, with no word about the cache file: each *)
(* call for itself goes through the sources in their order, and the first  *)
(* that has the stub, or that is a dead end, decides.  A call may be       *)
(* answered from the cache at once, and then with the stub that its own    *)
(* build lists; if it is not, it fails only where the code or the server   *)
(* has a reason to fail; and once the server has sent the right stub, it    *)
(* cannot fail any more.                                                   *)
(***************************************************************************)
CONSTANTS Processes,
          Calls,       \* options of calls
          Stubs,       \* what a stub directory may hold
          Released(_), \* the stub a build was released with
          Nil

VARIABLES call,   \* of each process: the options of its call, or Nil
          state,  \* "idle", "pending", "answered", "error" or "killed"
          answer, \* what is returned, and from which source; or Nil
          server  \* what the release server did: "", "failed", "wrong", "right"

vars == <<call, state, answer, server>>

Init ==
    /\ call = [p \in Processes |-> Nil]
    /\ state = [p \in Processes |-> "idle"]
    /\ answer = [p \in Processes |-> Nil]
    /\ server = [p \in Processes |-> ""]

\* The stub directory does not decide; nor does the build; the server may be asked.
PastStubDir(o) == o.stubDir \in {"unset", "lacks"}
PastEmbedded(o) == PastStubDir(o) /\ ~o.embedded
MayFetch(o) == PastEmbedded(o) /\ ~o.offline /\ ~o.dev /\ o.manifest # "empty"

Begin(p) ==
    /\ state[p] = "idle"
    /\ \E o \in Calls :
        /\ call' = [call EXCEPT ![p] = o]
        /\ state' = [state EXCEPT ![p] = IF o.cacheDir THEN "pending" ELSE "error"]
    /\ UNCHANGED <<answer, server>>

\* A pending call of which the server has not been asked anything ends.
Unasked(p) == state[p] = "pending" /\ server[p] = ""

Return(p, from, data) ==
    /\ state' = [state EXCEPT ![p] = "answered"]
    /\ answer' = [answer EXCEPT ![p] = [from |-> from, data |-> data]]
    /\ UNCHANGED <<call, server>>

FromStubDir(p) ==
    /\ Unasked(p) /\ call[p].stubDir = "has"
    /\ \E data \in Stubs : Return(p, "stubdir", data)

FromBuild(p) ==
    /\ Unasked(p) /\ PastStubDir(call[p]) /\ call[p].embedded
    /\ Return(p, "embedded", Released(call[p].build))

FromCache(p) ==
    /\ Unasked(p) /\ PastEmbedded(call[p]) /\ call[p].manifest = "lists"
    /\ Return(p, "cache", Released(call[p].build))

DeadEnd(p) ==
    /\ Unasked(p)
    /\ \/ call[p].stubDir = "unreadable"
       \/ PastEmbedded(call[p]) /\ ~MayFetch(call[p])
    /\ state' = [state EXCEPT ![p] = "error"]
    /\ UNCHANGED <<call, answer, server>>

\* The server fails, or sends something else, or the stub is not a listed one.
Refused(p) ==
    /\ Unasked(p) /\ MayFetch(call[p])
    /\ \E outcome \in {"failed", "wrong", "right"} :
        /\ outcome = "right" => call[p].manifest # "lists"
        /\ server' = [server EXCEPT ![p] = outcome]
    /\ state' = [state EXCEPT ![p] = "error"]
    /\ UNCHANGED <<call, answer>>

Fetch(p) ==
    /\ Unasked(p) /\ MayFetch(call[p]) /\ call[p].manifest = "lists"
    /\ server' = [server EXCEPT ![p] = "right"]
    /\ UNCHANGED <<call, state, answer>>

FromServer(p) ==
    /\ state[p] = "pending" /\ server[p] = "right"
    /\ Return(p, "download", Released(call[p].build))

Kill(p) ==
    /\ state[p] = "pending"
    /\ state' = [state EXCEPT ![p] = "killed"]
    /\ UNCHANGED <<call, answer, server>>

Step(p) ==
    \/ Begin(p) \/ FromStubDir(p) \/ FromBuild(p) \/ FromCache(p)
    \/ DeadEnd(p) \/ Refused(p) \/ Fetch(p) \/ FromServer(p) \/ Kill(p)

Next == \E p \in Processes : Step(p)

Spec == Init /\ [][Next]_vars
=============================================================================
