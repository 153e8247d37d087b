---------------------------- MODULE SealCommand ----------------------------
(***************************************************************************)
(* cmd/vaultwright seal: from the targets on the command line to the       *)
(* sealed binaries on disk.  Runs with the same output name write the same *)
(* files: later runs over what earlier ones left, finished or not, or, as  *)
(* nothing locks the files, several at a time.                             *)
(*                                                                         *)
(* Where a stub comes from is StubCache's matter, what is in the payloads  *)
(* is Scheme's.  Here a payload is known by the run that made it.          *)
(***************************************************************************)
EXTENDS Naturals, Sequences

CONSTANTS
    Runs,     \* runs of vaultwright seal with the same --output
    Targets,  \* os/arch pairs
    Host,     \* the one vaultwright runs on
    Calls,    \* the options of those runs, of all Options
    Entries,  \* what may be typed at a password prompt
    Nil       \* no such file

ASSUME HostAssumption == Host \in Targets /\ "plain" \notin Targets
ASSUME RunsAssumption == Runs # {}

Options == [noWarden : BOOLEAN, vaultTargets : Seq(Targets), wardenTargets : Seq(Targets)]

ASSUME CallsAssumption == Calls \subseteq Options

Roles == {"vault", "warden"}
Stubs == [role : Roles, target : Targets]
Paths == [role : Roles, suffix : Targets \cup {"plain"}]

\* toTargets, or hostTarget when no target is given; outName puts only given
\* targets into the name.
OutputsFor(role, targets) ==
    IF targets = <<>>
    THEN << [path |-> [role |-> role, suffix |-> "plain"],
             stub |-> [role |-> role, target |-> Host]] >>
    ELSE [i \in 1..Len(targets) |->
            [path |-> [role |-> role, suffix |-> targets[i]],
             stub |-> [role |-> role, target |-> targets[i]]]]

\* All outputs of a call, in the order they are resolved and written in.
Outputs(o) ==
    OutputsFor("vault", o.vaultTargets)
        \o IF o.noWarden THEN <<>> ELSE OutputsFor("warden", o.wardenTargets)

Partial(r) == [state |-> "partial", by |-> r]
Mixed(r) == [state |-> "mixed", by |-> r]
Whole(r, role, stub) == [state |-> "whole", by |-> r, payload |-> role, stub |-> stub]

Contents ==
    {Partial(r) : r \in Runs} \cup {Mixed(r) : r \in Runs}
        \cup {Whole(r, role, stub) : r \in Runs, role \in Roles, stub \in Stubs}

ASSUME NilAssumption == Nil \notin Calls /\ Nil \notin Contents

VARIABLES
    file,  \* of each path: what is there, and the run that last touched it
    pc, opt,
    stubs, \* the stub bytes resolved so far
    next,  \* the output being written, 0 before scheme.Seal has returned
    overlap \* a run has begun before another had ended

vars == <<file, pc, opt, stubs, next, overlap>>

States == {"idle", "resolve", "password", "passphrase", "seal",
           "create", "write", "ok", "error", "crashed"}
Over == {"ok", "error", "crashed"}

TypeOK ==
    /\ file \in [Paths -> Contents \cup {Nil}]
    /\ pc \in [Runs -> States]
    /\ opt \in [Runs -> Calls \cup {Nil}]
    /\ stubs \in [Runs -> Seq(Stubs)]
    /\ next \in [Runs -> Nat]
    /\ overlap \in BOOLEAN
    /\ \A r \in Runs : opt[r] # Nil => next[r] \in 0..Len(Outputs(opt[r]))

Init ==
    /\ file = [path \in Paths |-> Nil]
    /\ pc = [r \in Runs |-> "idle"]
    /\ opt = [r \in Runs |-> Nil]
    /\ stubs = [r \in Runs |-> <<>>]
    /\ next = [r \in Runs |-> 0]
    /\ overlap = FALSE

GoTo(r, state) == pc' = [pc EXCEPT ![r] = state]

-----------------------------------------------------------------------------
\* Execute, up to the first stub: contradictory options and an assets path that
\* is no directory are errors.
Begin(r, o) ==
    /\ pc[r] = "idle"
    /\ overlap' = (overlap \/ \E q \in Runs : pc[q] \notin Over \cup {"idle"})
    /\ opt' = [opt EXCEPT ![r] = o]
    /\ \/ GoTo(r, "error")
       \/ ~(o.noWarden /\ o.wardenTargets # <<>>) /\ GoTo(r, "resolve")
    /\ UNCHANGED <<file, stubs, next>>

\* FAULT: the password is asked for, and the rest sealed, one stub too early.
FaultOneStubShort(n, o) == n + 1 >= Len(Outputs(o))

\* resolveAll has been through the vault stubs and the warden stubs.
AllResolved(n, o) == n = Len(Outputs(o))

\* resolveAll: the next stub, vaults before wardens; one that cannot be had is
\* an error.
ResolveStub(r) ==
    /\ pc[r] = "resolve"
    /\ ~AllResolved(Len(stubs[r]), opt[r])
    /\ \/ /\ stubs' = [stubs EXCEPT ![r] = Append(@, Outputs(opt[r])[Len(@) + 1].stub)]
          /\ UNCHANGED pc
       \/ GoTo(r, "error") /\ UNCHANGED stubs
    /\ UNCHANGED <<file, opt, next, overlap>>

StubsResolved(r) ==
    /\ pc[r] = "resolve"
    /\ AllResolved(Len(stubs[r]), opt[r])
    /\ GoTo(r, "password")
    /\ UNCHANGED <<file, opt, stubs, next, overlap>>

\* readNewPassword for the vault: two entries that must be the same.
VaultPassword(r, first, again) ==
    /\ pc[r] = "password"
    /\ GoTo(r, IF first # again THEN "error"
               ELSE IF opt[r].noWarden THEN "seal" ELSE "passphrase")
    /\ UNCHANGED <<file, opt, stubs, next, overlap>>

WardenPassphrase(r, first, again) ==
    /\ pc[r] = "passphrase"
    /\ GoTo(r, IF first # again THEN "error" ELSE "seal")
    /\ UNCHANGED <<file, opt, stubs, next, overlap>>

\* scheme.Seal: one pair of payloads for all outputs, unless a file of the
\* assets cannot be read.
SealAssets(r) ==
    /\ pc[r] = "seal"
    /\ \/ GoTo(r, "create") /\ next' = [next EXCEPT ![r] = 1]
       \/ GoTo(r, "error") /\ UNCHANGED next
    /\ UNCHANGED <<file, opt, stubs, overlap>>

Output(r) == Outputs(opt[r])[next[r]]

\* FAULT: every output gets the first stub.
FaultFirstStub(r) == stubs[r][1]

StubBytes(r) == stubs[r][next[r]]

\* WriteSealedBytes opens the output and empties what was there (os.WriteFile).
CreateOutput(r) ==
    /\ pc[r] = "create"
    /\ \/ GoTo(r, "write") /\ file' = [file EXCEPT ![Output(r).path] = Partial(r)]
       \/ GoTo(r, "error") /\ UNCHANGED file
    /\ UNCHANGED <<opt, stubs, next, overlap>>

\* FAULT: the loop goes on after the last target.
FaultOneOutputMore(r) == next[r] > Len(Outputs(opt[r]))

\* FAULT: the loop ends before the last target.
FaultOneOutputShort(r) == next[r] + 1 >= Len(Outputs(opt[r]))

LastOutput(r) == next[r] = Len(Outputs(opt[r]))

\* It writes stub, payload and trailer.  If another run has opened the file in
\* between, the two images may be one over the other.
WriteOutput(r) ==
    /\ pc[r] = "write"
    /\ file' = [file EXCEPT ![Output(r).path] =
            IF @ = Partial(r) THEN Whole(r, Output(r).path.role, StubBytes(r)) ELSE Mixed(r)]
    /\ IF LastOutput(r)
       THEN GoTo(r, "ok") /\ UNCHANGED next
       ELSE GoTo(r, "create") /\ next' = [next EXCEPT ![r] = @ + 1]
    /\ UNCHANGED <<opt, stubs, overlap>>

\* The disk is full, say; what has been written stays.
WriteFails(r) ==
    /\ pc[r] = "write"
    /\ GoTo(r, "error")
    /\ UNCHANGED <<file, opt, stubs, next, overlap>>

\* Ctrl-C, or the process is killed.
Crash(r) ==
    /\ pc[r] \notin Over \cup {"idle"}
    /\ GoTo(r, "crashed")
    /\ UNCHANGED <<file, opt, stubs, next, overlap>>

RunStep(r) ==
    \/ \E o \in Calls : Begin(r, o)
    \/ ResolveStub(r) \/ StubsResolved(r)
    \/ \E first, again \in Entries : VaultPassword(r, first, again)
    \/ \E first, again \in Entries : WardenPassphrase(r, first, again)
    \/ SealAssets(r)
    \/ CreateOutput(r) \/ WriteOutput(r) \/ WriteFails(r)
    \/ Crash(r)

Next == \E r \in Runs : RunStep(r)

Spec == Init /\ [][Next]_vars

-----------------------------------------------------------------------------
(* Properties. *)

Written == {path \in Paths : file[path] # Nil}

\* "Resolve every stub up front": a run that lacks one of its stubs, vault's or
\* warden's, leaves whatever earlier runs made untouched.
NothingWrittenUnresolved ==
    \A path \in Written : LET r == file[path].by IN
        Len(stubs[r]) = Len(Outputs(opt[r]))

\* A file that was written without disturbance is a binary of the role and the
\* target its name says, and holds the payload for that role.
OutputsFit ==
    \A path \in Written : file[path].state = "whole" =>
        /\ file[path].payload = path.role
        /\ file[path].stub.role = path.role
        /\ file[path].stub.target = IF path.suffix = "plain" THEN Host ELSE path.suffix

\* It ended, but not while writing.
Harmless(r) == pc[r] \in {"idle", "ok"} \/ (pc[r] \in Over /\ next[r] = 0)

SameCall == \A q, r \in Runs : opt[q] # Nil /\ opt[r] # Nil => opt[q] = opt[r]

\* Sealing again with the same targets replaces every binary: whatever failed
\* before it got to writing, the outputs of the runs that succeeded are all there,
\* whole, and of one run, so that every vault has its warden beside it.
ResealReplacesPair ==
    (~overlap /\ SameCall /\ \A r \in Runs : Harmless(r)) =>
        \E q \in Runs : \A r \in Runs : pc[r] = "ok" =>
            \A i \in DOMAIN Outputs(opt[r]) :
                LET content == file[Outputs(opt[r])[i].path] IN
                    content # Nil /\ content.state = "whole" /\ content.by = q
=============================================================================
