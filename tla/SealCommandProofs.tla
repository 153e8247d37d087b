------------------------- MODULE SealCommandProofs -------------------------
(***************************************************************************)
(* That seal writes what its outputs' names say, and a pair or nothing, for *)
(* any number of runs, any targets and any command lines.                  *)
(***************************************************************************)
EXTENDS SealCommand, SequenceTheorems, TLAPS

\* Outputs whose stub is the one their path says.
FitOutputs ==
    {out \in [path : Paths, stub : Stubs] :
        /\ out.stub.role = out.path.role
        /\ out.stub.target = IF out.path.suffix = "plain" THEN Host ELSE out.path.suffix}

\* What a run has, and where it is in its list of outputs.
Resolving == {"resolve", "password", "passphrase", "seal"}
Writing == {"create", "write"}

Begun ==
    \A r \in Runs : pc[r] = "idle" <=> opt[r] = Nil

Positions ==
    \A r \in Runs :
        /\ pc[r] \in Resolving \cup {"idle"} => next[r] = 0
        /\ pc[r] \in Writing \cup {"ok"} => next[r] # 0

\* The stubs resolved so far are those of the first outputs, in their order;
\* before the password is asked for there are all of them.
StubsInOrder ==
    \A r \in Runs :
        /\ opt[r] = Nil => stubs[r] = <<>>
        /\ opt[r] # Nil => /\ Len(stubs[r]) \in 0..Len(Outputs(opt[r]))
                           /\ \A i \in 1..Len(stubs[r]) : stubs[r][i] = Outputs(opt[r])[i].stub
        /\ pc[r] \in {"password", "passphrase", "seal"} \/ next[r] # 0
              => Len(stubs[r]) = Len(Outputs(opt[r]))

\* A file was last touched by a run that got to writing.
TouchedByWriters == \A path \in Written : file[path].by \in Runs /\ next[file[path].by] # 0

\* Runs that do not overlap are active one at a time.
Active(r) == pc[r] \notin Over \cup {"idle"}
OneAtATime == ~overlap => \A q, r \in Runs : Active(q) /\ Active(r) => q = r

IsWholeOf(r, path) ==
    file[path] # Nil /\ file[path].state = "whole" /\ file[path].by = r

\* The outputs an undisturbed run has written are whole, but for the one that it
\* is writing.
OwnWhole(r) ==
    /\ pc[r] = "write" => file[Output(r).path] = Partial(r)
    /\ pc[r] \in Writing =>
          \A i \in 1..next[r] - 1 :
              LET path == Outputs(opt[r])[i].path IN
                  IsWholeOf(r, path) \/ (pc[r] = "write" /\ path = Output(r).path)

OwnOutputsWhole == ~overlap => \A r \in Runs : OwnWhole(r)

\* When nobody writes, and nobody was stopped while writing, the files are of one
\* run, whatever others have begun.
Settled == \A r \in Runs : next[r] = 0 \/ pc[r] = "ok"
AllOf(q) ==
    \A r \in Runs : pc[r] = "ok" =>
        \A i \in 1..Len(Outputs(opt[r])) : IsWholeOf(q, Outputs(opt[r])[i].path)

PairOrNothing ==
    ~overlap /\ SameCall /\ Settled => \E q \in Runs : AllOf(q)

IInv ==
    /\ TypeOK
    /\ Begun /\ Positions /\ StubsInOrder /\ TouchedByWriters
    /\ OneAtATime /\ OwnOutputsWhole /\ PairOrNothing
    /\ OutputsFit

-----------------------------------------------------------------------------
(* The list of outputs. *)

\* The outputs for one role are those of its targets, or the plain one.
LEMMA OutputsForType ==
    ASSUME NEW role \in Roles, NEW targets \in Seq(Targets)
    PROVE  /\ OutputsFor(role, targets) \in Seq(FitOutputs)
           /\ Len(OutputsFor(role, targets)) \in Nat \ {0}
<1>1. CASE targets = <<>>
  <2> DEFINE out == [path |-> [role |-> role, suffix |-> "plain"],
                     stub |-> [role |-> role, target |-> Host]]
  <2>1. out \in FitOutputs
    BY HostAssumption DEF FitOutputs, Paths, Stubs
  <2>2. OutputsFor(role, targets) = <<out>>
    BY <1>1 DEF OutputsFor
  <2> HIDE DEF out
  <2> QED BY <2>1, <2>2
<1>2. CASE targets # <<>>
  <2> DEFINE out(i) == [path |-> [role |-> role, suffix |-> targets[i]],
                        stub |-> [role |-> role, target |-> targets[i]]]
  <2>1. Len(targets) \in Nat \ {0}
    BY <1>2, EmptySeq
  <2>2. \A i \in 1..Len(targets) : out(i) \in FitOutputs
    BY ElementOfSeq, HostAssumption DEF FitOutputs, Paths, Stubs
  <2>3. OutputsFor(role, targets) = [i \in 1..Len(targets) |-> out(i)]
    BY <1>2 DEF OutputsFor
  <2> HIDE DEF out
  <2>4. OutputsFor(role, targets) \in [1..Len(targets) -> FitOutputs]
    BY <2>2, <2>3
  <2> QED BY <2>1, <2>4, SeqDef
<1> QED BY <1>1, <1>2

\* Every call has an output, and every output gets the stub its path names.
LEMMA OutputsType ==
    ASSUME NEW o \in Options
    PROVE  /\ Outputs(o) \in Seq(FitOutputs)
           /\ Len(Outputs(o)) \in Nat \ {0}
           /\ DOMAIN Outputs(o) = 1..Len(Outputs(o))
           /\ \A i \in 1..Len(Outputs(o)) :
                 /\ Outputs(o)[i] \in FitOutputs
                 /\ Outputs(o)[i].path \in Paths
                 /\ Outputs(o)[i].stub \in Stubs
<1> DEFINE vaults == OutputsFor("vault", o.vaultTargets)
<1> DEFINE wardens == IF o.noWarden THEN <<>> ELSE OutputsFor("warden", o.wardenTargets)
<1>1. o.vaultTargets \in Seq(Targets) /\ o.wardenTargets \in Seq(Targets)
  BY DEF Options
<1>2. vaults \in Seq(FitOutputs) /\ Len(vaults) \in Nat \ {0}
  BY <1>1, OutputsForType DEF Roles
<1>3. wardens \in Seq(FitOutputs)
  BY <1>1, OutputsForType DEF Roles
<1>4. Outputs(o) = vaults \o wardens
  BY DEF Outputs
<1> HIDE DEF vaults, wardens
<1>5. Outputs(o) \in Seq(FitOutputs) /\ Len(Outputs(o)) = Len(vaults) + Len(wardens)
  BY <1>2, <1>3, <1>4, ConcatProperties
<1>6. Len(wardens) \in Nat
  BY <1>3, LenProperties
<1>7. Len(Outputs(o)) \in Nat \ {0}
  BY <1>2, <1>5, <1>6
<1>8. DOMAIN Outputs(o) = 1..Len(Outputs(o))
  BY <1>5, LenProperties
<1>9. \A i \in 1..Len(Outputs(o)) : Outputs(o)[i] \in FitOutputs
  BY <1>5, ElementOfSeq
<1>10. \A out \in FitOutputs : out.path \in Paths /\ out.stub \in Stubs
  BY DEF FitOutputs
<1> QED BY <1>5, <1>7, <1>8, <1>9, <1>10

-----------------------------------------------------------------------------
(* What a step does. *)

\* The next stub is there.
Takes(r) ==
    /\ pc[r] = "resolve" /\ ~AllResolved(Len(stubs[r]), opt[r])
    /\ stubs' = [stubs EXCEPT ![r] = Append(@, Outputs(opt[r])[Len(@) + 1].stub)]
    /\ UNCHANGED <<file, pc, opt, next, overlap>>

\* All stubs are there: on to the prompts and from prompt to prompt.
Proceeds(r) ==
    /\ pc[r] \in Resolving /\ Len(stubs[r]) = Len(Outputs(opt[r]))
    /\ \E state \in Resolving : GoTo(r, state)
    /\ UNCHANGED <<file, opt, stubs, next, overlap>>

\* The payloads are there.
Seals(r) ==
    /\ pc[r] = "seal" /\ GoTo(r, "create")
    /\ next' = [next EXCEPT ![r] = 1]
    /\ UNCHANGED <<file, opt, stubs, overlap>>

\* An output is opened.
Opens(r) ==
    /\ pc[r] = "create" /\ GoTo(r, "write")
    /\ file' = [file EXCEPT ![Output(r).path] = Partial(r)]
    /\ UNCHANGED <<opt, stubs, next, overlap>>

\* The run ends at once.
Stops(r) ==
    /\ Active(r)
    /\ \E state \in {"error", "crashed"} : GoTo(r, state)
    /\ UNCHANGED <<file, opt, stubs, next, overlap>>

\* A step begins a run, or is one of these.
LEMMA StepForms ==
    ASSUME IInv, NEW r \in Runs, RunStep(r)
    PROVE  \/ \E o \in Calls : Begin(r, o)
           \/ Takes(r) \/ Proceeds(r) \/ Seals(r) \/ Opens(r) \/ WriteOutput(r) \/ Stops(r)
<1>1. ASSUME ResolveStub(r) PROVE Takes(r) \/ Stops(r)
  BY <1>1 DEF ResolveStub, Takes, Stops, Active, Over
<1>2. ASSUME StubsResolved(r) PROVE Proceeds(r)
  BY <1>2 DEF StubsResolved, AllResolved, Proceeds, Resolving
<1>3. pc[r] \in {"password", "passphrase", "seal"} => Len(stubs[r]) = Len(Outputs(opt[r]))
  BY DEF IInv, StubsInOrder
<1>4. ASSUME NEW first, NEW again, VaultPassword(r, first, again)
      PROVE  Proceeds(r) \/ Stops(r)
  <2>1. \E state \in {"error", "seal", "passphrase"} : GoTo(r, state)
    <3>1. CASE first # again
      BY <1>4, <3>1 DEF VaultPassword
    <3>2. CASE first = again
      BY <1>4, <3>2 DEF VaultPassword
    <3> QED BY <3>1, <3>2
  <2>2. pc[r] = "password" /\ UNCHANGED <<file, opt, stubs, next, overlap>>
    BY <1>4 DEF VaultPassword
  <2> QED BY <1>3, <2>1, <2>2 DEF Proceeds, Stops, Active, Over, Resolving
<1>5. ASSUME NEW first, NEW again, WardenPassphrase(r, first, again)
      PROVE  Proceeds(r) \/ Stops(r)
  <2>1. \E state \in {"error", "seal"} : GoTo(r, state)
    <3>1. CASE first # again
      BY <1>5, <3>1 DEF WardenPassphrase
    <3>2. CASE first = again
      BY <1>5, <3>2 DEF WardenPassphrase
    <3> QED BY <3>1, <3>2
  <2>2. pc[r] = "passphrase" /\ UNCHANGED <<file, opt, stubs, next, overlap>>
    BY <1>5 DEF WardenPassphrase
  <2> QED BY <1>3, <2>1, <2>2 DEF Proceeds, Stops, Active, Over, Resolving
<1>6. ASSUME SealAssets(r) PROVE Seals(r) \/ Stops(r)
  BY <1>6 DEF SealAssets, Seals, Stops, Active, Over
<1>7. ASSUME CreateOutput(r) PROVE Opens(r) \/ Stops(r)
  BY <1>7 DEF CreateOutput, Opens, Stops, Active, Over
<1>8. ASSUME WriteFails(r) \/ Crash(r) PROVE Stops(r)
  BY <1>8 DEF WriteFails, Crash, Stops, Active, Over
<1> QED BY <1>1, <1>2, <1>4, <1>5, <1>6, <1>7, <1>8 DEF RunStep

\* A run that has begun has its options and outputs.
LEMMA OfRun ==
    ASSUME TypeOK, Begun, NEW r \in Runs, pc[r] # "idle"
    PROVE  /\ opt[r] \in Calls /\ opt[r] \in Options /\ opt[r] # Nil
           /\ Outputs(opt[r]) \in Seq(FitOutputs)
           /\ Len(Outputs(opt[r])) \in Nat \ {0}
           /\ next[r] \in 0..Len(Outputs(opt[r]))
<1>1. opt[r] \in Calls /\ opt[r] # Nil
  BY DEF TypeOK, Begun
<1>2. opt[r] \in Options
  BY <1>1, CallsAssumption
<1>3. next[r] \in 0..Len(Outputs(opt[r]))
  BY <1>1 DEF TypeOK
<1> QED BY <1>1, <1>2, <1>3, OutputsType

\* A run that writes is at one of its outputs, whose stub it has.
LEMMA OfWriter ==
    ASSUME IInv, NEW r \in Runs, pc[r] \in Writing
    PROVE  /\ next[r] \in 1..Len(Outputs(opt[r]))
           /\ Output(r) \in FitOutputs
           /\ Output(r).path \in Paths
           /\ StubBytes(r) = Output(r).stub
           /\ StubBytes(r) \in Stubs
<1>1. /\ opt[r] \in Options /\ opt[r] # Nil
      /\ Len(Outputs(opt[r])) \in Nat \ {0}
      /\ next[r] \in 0..Len(Outputs(opt[r]))
  BY OfRun DEF IInv, Writing
<1>2. next[r] # 0
  BY DEF IInv, Positions
<1>3. next[r] \in 1..Len(Outputs(opt[r]))
  BY <1>1, <1>2
<1>4. Output(r) \in FitOutputs /\ Output(r).path \in Paths /\ Output(r).stub \in Stubs
  BY <1>1, <1>3, OutputsType DEF Output
<1>5. Len(stubs[r]) = Len(Outputs(opt[r]))
  BY <1>2 DEF IInv, StubsInOrder
<1>6. StubBytes(r) = Output(r).stub
  BY <1>1, <1>3, <1>5 DEF IInv, StubsInOrder, StubBytes, Output
<1> QED BY <1>3, <1>4, <1>6

-----------------------------------------------------------------------------
(* Each part of the invariant is kept by each form of step. *)

\* The variables stay in their sets.
LEMMA TypeStep ==
    ASSUME IInv, NEW r \in Runs, RunStep(r)
    PROVE  TypeOK'
<1> USE DEF GoTo
<1>0. TypeOK /\ Begun /\ StubsInOrder
  BY DEF IInv
<1>1. ASSUME NEW o \in Calls, Begin(r, o) PROVE TypeOK'
  <2>1. opt' = [opt EXCEPT ![r] = o] /\ UNCHANGED <<file, stubs, next>>
    BY <1>1 DEF Begin
  <2>2. opt' \in [Runs -> Calls \cup {Nil}]
    BY <1>0, <2>1 DEF TypeOK
  <2>3. pc' \in [Runs -> States] /\ overlap' \in BOOLEAN
    BY <1>0, <1>1 DEF Begin, TypeOK, States
  <2>4. next[r] = 0
    BY <1>1 DEF Begin, IInv, Positions
  <2>5. Len(Outputs(o)) \in Nat \ {0}
    BY OutputsType, CallsAssumption
  <2>6. \A q \in Runs : opt'[q] # Nil => next'[q] \in 0..Len(Outputs(opt'[q]))
    BY <1>0, <2>1, <2>4, <2>5 DEF TypeOK
  <2>7. file' \in [Paths -> Contents \cup {Nil}] /\ stubs' \in [Runs -> Seq(Stubs)]
        /\ next' \in [Runs -> Nat]
    BY <1>0, <2>1 DEF TypeOK
  <2> QED BY <2>2, <2>3, <2>6, <2>7 DEF TypeOK
<1>2. ASSUME Takes(r) PROVE TypeOK'
  <2> DEFINE n == Len(stubs[r])
  <2>1. opt[r] # Nil /\ opt[r] \in Options /\ Len(Outputs(opt[r])) \in Nat \ {0}
    BY <1>0, <1>2, OfRun DEF Takes
  <2>2. n \in 0..Len(Outputs(opt[r])) /\ n # Len(Outputs(opt[r]))
    BY <1>0, <1>2, <2>1 DEF StubsInOrder, Takes, AllResolved
  <2>3. n + 1 \in 1..Len(Outputs(opt[r]))
    BY <2>1, <2>2
  <2>4. Outputs(opt[r])[n + 1].stub \in Stubs
    BY <2>1, <2>3, OutputsType
  <2>5. stubs[r] \in Seq(Stubs)
    BY <1>0 DEF TypeOK
  <2>6. Append(stubs[r], Outputs(opt[r])[n + 1].stub) \in Seq(Stubs)
    BY <2>4, <2>5, AppendProperties
  <2>7. stubs' \in [Runs -> Seq(Stubs)]
    BY <1>0, <1>2, <2>6 DEF TypeOK, Takes
  <2> QED BY <1>0, <1>2, <2>7 DEF TypeOK, Takes
<1>3. ASSUME Proceeds(r) PROVE TypeOK'
  BY <1>0, <1>3 DEF TypeOK, Proceeds, States, Resolving
<1>4. ASSUME Seals(r) PROVE TypeOK'
  <2>1. Len(Outputs(opt[r])) \in Nat \ {0} /\ opt[r] # Nil
    BY <1>0, <1>4, OfRun DEF Seals
  <2>2. next' \in [Runs -> Nat]
    BY <1>0, <1>4 DEF TypeOK, Seals
  <2>3. \A q \in Runs : opt'[q] # Nil => next'[q] \in 0..Len(Outputs(opt'[q]))
    <3> SUFFICES ASSUME NEW q \in Runs, opt'[q] # Nil
                 PROVE  next'[q] \in 0..Len(Outputs(opt'[q]))
      OBVIOUS
    <3>1. CASE q = r
      BY <1>0, <1>4, <2>1, <3>1 DEF TypeOK, Seals
    <3>2. CASE q # r
      BY <1>0, <1>4, <3>2 DEF TypeOK, Seals
    <3> QED BY <3>1, <3>2
  <2> QED BY <1>0, <1>4, <2>2, <2>3 DEF TypeOK, Seals, States
<1>5. ASSUME Opens(r) PROVE TypeOK'
  <2>1. Output(r).path \in Paths
    BY <1>5, OfWriter DEF Opens, Writing
  <2>2. Partial(r) \in Contents
    BY DEF Contents
  <2>3. file' \in [Paths -> Contents \cup {Nil}]
    BY <1>0, <1>5, <2>1, <2>2 DEF TypeOK, Opens
  <2> QED BY <1>0, <1>5, <2>3 DEF TypeOK, Opens, States
<1>6. ASSUME WriteOutput(r) PROVE TypeOK'
  <2>1. Output(r).path \in Paths /\ Output(r).path.role \in Roles /\ StubBytes(r) \in Stubs
        /\ next[r] \in 1..Len(Outputs(opt[r]))
    BY <1>6, OfWriter DEF WriteOutput, Writing, Paths
  <2>2. Mixed(r) \in Contents /\ Whole(r, Output(r).path.role, StubBytes(r)) \in Contents
    BY <2>1 DEF Contents
  <2>3. file' \in [Paths -> Contents \cup {Nil}]
    BY <1>0, <1>6, <2>1, <2>2 DEF TypeOK, WriteOutput
  <2>4. UNCHANGED <<opt, stubs, overlap>>
    BY <1>6 DEF WriteOutput
  <2>5. CASE LastOutput(r)
    <3>1. UNCHANGED next /\ pc' = [pc EXCEPT ![r] = "ok"]
      BY <1>6, <2>5 DEF WriteOutput
    <3> QED BY <1>0, <2>3, <2>4, <3>1 DEF TypeOK, States
  <2>6. CASE ~LastOutput(r)
    <3>1. next' = [next EXCEPT ![r] = @ + 1] /\ pc' = [pc EXCEPT ![r] = "create"]
      BY <1>6, <2>6 DEF WriteOutput
    <3>2. Len(Outputs(opt[r])) \in Nat \ {0} /\ opt[r] # Nil
      BY <1>0, <1>6, OfRun DEF WriteOutput
    <3>3. next[r] + 1 \in 0..Len(Outputs(opt[r]))
      BY <2>1, <2>6, <3>2 DEF LastOutput
    <3>4. next' \in [Runs -> Nat]
      BY <1>0, <3>1 DEF TypeOK
    <3>5. \A q \in Runs : opt'[q] # Nil => next'[q] \in 0..Len(Outputs(opt'[q]))
      <4> SUFFICES ASSUME NEW q \in Runs, opt'[q] # Nil
                   PROVE  next'[q] \in 0..Len(Outputs(opt'[q]))
        OBVIOUS
      <4>1. CASE q = r
        BY <1>0, <2>4, <3>1, <3>3, <4>1 DEF TypeOK
      <4>2. CASE q # r
        BY <1>0, <2>4, <3>1, <4>2 DEF TypeOK
      <4> QED BY <4>1, <4>2
    <3> QED BY <1>0, <2>3, <2>4, <3>1, <3>4, <3>5 DEF TypeOK, States
  <2> QED BY <2>5, <2>6
<1>7. ASSUME Stops(r) PROVE TypeOK'
  BY <1>0, <1>7 DEF TypeOK, Stops, States
<1> QED BY StepForms, <1>1, <1>2, <1>3, <1>4, <1>5, <1>6, <1>7

\* A write ends the run, or takes it to its next output.
LEMMA AfterWrite ==
    ASSUME IInv, NEW r \in Runs, WriteOutput(r)
    PROVE  /\ \A q \in Runs : next'[q] = 0 <=> next[q] = 0
           /\ \A q \in Runs \ {r} : next'[q] = next[q]
           /\ \/ pc' = [pc EXCEPT ![r] = "ok"]
                 /\ next' = next /\ next[r] = Len(Outputs(opt[r]))
              \/ pc' = [pc EXCEPT ![r] = "create"]
                 /\ next' = [next EXCEPT ![r] = @ + 1]
<1>1. next \in [Runs -> Nat] /\ next[r] # 0
  BY DEF IInv, TypeOK, Positions, WriteOutput, Writing
<1>2. CASE LastOutput(r)
  BY <1>2 DEF WriteOutput, LastOutput, GoTo
<1>3. CASE ~LastOutput(r)
  <2>1. pc' = [pc EXCEPT ![r] = "create"] /\ next' = [next EXCEPT ![r] = @ + 1]
    BY <1>3 DEF WriteOutput, GoTo
  <2>2. next[r] + 1 # 0
    BY <1>1
  <2> QED BY <1>1, <2>1, <2>2
<1> QED BY <1>2, <1>3

\* pc, opt and next go together.
LEMMA PositionsStep ==
    ASSUME IInv, NEW r \in Runs, RunStep(r)
    PROVE  Begun' /\ Positions'
<1> USE DEF GoTo, Begun, Positions, Resolving, Writing
<1>0. TypeOK /\ Begun /\ Positions
  BY DEF IInv
<1>1. ASSUME NEW o \in Calls, Begin(r, o) PROVE Begun' /\ Positions'
  BY <1>0, <1>1, NilAssumption DEF TypeOK, Begin
<1>2. ASSUME Takes(r) PROVE Begun' /\ Positions'
  BY <1>0, <1>2 DEF TypeOK, Takes
<1>3. ASSUME Proceeds(r) PROVE Begun' /\ Positions'
  BY <1>0, <1>3 DEF TypeOK, Proceeds
<1>4. ASSUME Seals(r) PROVE Begun' /\ Positions'
  BY <1>0, <1>4 DEF TypeOK, Seals
<1>5. ASSUME Opens(r) PROVE Begun' /\ Positions'
  BY <1>0, <1>5 DEF TypeOK, Opens
<1>6. ASSUME WriteOutput(r) PROVE Begun' /\ Positions'
  <2>1. pc[r] = "write" /\ UNCHANGED opt
    BY <1>6 DEF WriteOutput
  <2>2. pc' = [pc EXCEPT ![r] = "ok"] \/ pc' = [pc EXCEPT ![r] = "create"]
    BY <1>6 DEF WriteOutput
  <2>3. \A q \in Runs : next'[q] = 0 <=> next[q] = 0
    BY <1>6, AfterWrite
  <2> QED BY <1>0, <2>1, <2>2, <2>3 DEF TypeOK
<1>7. ASSUME Stops(r) PROVE Begun' /\ Positions'
  BY <1>0, <1>7 DEF TypeOK, Stops, Active
<1> QED BY StepForms, <1>1, <1>2, <1>3, <1>4, <1>5, <1>6, <1>7

\* Stubs are appended in the order of the outputs, and never after the prompts
\* have begun.
LEMMA StubsStep ==
    ASSUME IInv, NEW r \in Runs, RunStep(r)
    PROVE  StubsInOrder'
<1> USE DEF GoTo
<1>0. TypeOK /\ Begun /\ Positions /\ StubsInOrder
  BY DEF IInv
<1>1. ASSUME NEW o \in Calls, Begin(r, o) PROVE StubsInOrder'
  <2>1. opt' = [opt EXCEPT ![r] = o] /\ UNCHANGED <<stubs, next>>
        /\ (pc' = [pc EXCEPT ![r] = "error"] \/ pc' = [pc EXCEPT ![r] = "resolve"])
    BY <1>1 DEF Begin
  <2>2. stubs[r] = <<>> /\ next[r] = 0
    BY <1>0, <1>1 DEF Begin, Begun, StubsInOrder, Positions
  <2>3. Len(stubs[r]) = 0 /\ 0 \in 0..Len(Outputs(o)) /\ 1..0 = {}
    BY <2>2, EmptySeq, OutputsType, CallsAssumption
  <2>4. \A q \in Runs : stubs'[q] = stubs[q] /\ next'[q] = next[q]
                        /\ opt'[q] = (IF q = r THEN o ELSE opt[q])
                        /\ (q # r => pc'[q] = pc[q]) /\ pc'[r] \in {"error", "resolve"}
    BY <1>0, <2>1 DEF TypeOK
  <2>5. o # Nil
    BY NilAssumption
  <2> SUFFICES ASSUME NEW q \in Runs
               PROVE  /\ opt'[q] = Nil => stubs'[q] = <<>>
                      /\ opt'[q] # Nil =>
                            /\ Len(stubs'[q]) \in 0..Len(Outputs(opt'[q]))
                            /\ \A i \in 1..Len(stubs'[q]) : stubs'[q][i] = Outputs(opt'[q])[i].stub
                      /\ pc'[q] \in {"password", "passphrase", "seal"} \/ next'[q] # 0
                            => Len(stubs'[q]) = Len(Outputs(opt'[q]))
    BY DEF StubsInOrder
  <2>6. CASE q = r
    BY <2>2, <2>3, <2>4, <2>5, <2>6
  <2>7. CASE q # r
    BY <1>0, <2>4, <2>7 DEF StubsInOrder
  <2> QED BY <2>6, <2>7
<1>2. ASSUME Takes(r) PROVE StubsInOrder'
  <2> DEFINE n == Len(stubs[r])
  <2> DEFINE stub == Outputs(opt[r])[n + 1].stub
  <2>1. opt[r] # Nil /\ opt[r] \in Options /\ Len(Outputs(opt[r])) \in Nat \ {0}
    BY <1>0, <1>2, OfRun DEF Takes
  <2>2. n \in 0..Len(Outputs(opt[r])) /\ n # Len(Outputs(opt[r]))
    BY <1>0, <1>2, <2>1 DEF StubsInOrder, Takes, AllResolved
  <2>3. n + 1 \in 1..Len(Outputs(opt[r])) /\ n + 1 \in 0..Len(Outputs(opt[r]))
        /\ 1..(n + 1) = 1..n \cup {n + 1}
    BY <2>1, <2>2
  <2>4. stub \in Stubs /\ stubs[r] \in Seq(Stubs)
    BY <1>0, <2>1, <2>3, OutputsType DEF TypeOK
  <2>5. stubs'[r] = Append(stubs[r], stub)
    BY <1>0, <1>2 DEF Takes, TypeOK
  <2>6. /\ Len(stubs'[r]) = n + 1 /\ stubs'[r][n + 1] = stub
        /\ \A i \in 1..n : stubs'[r][i] = stubs[r][i]
    BY <2>4, <2>5, AppendProperties
  <2> HIDE DEF n
  <2>7. \A i \in 1..(n + 1) : stubs'[r][i] = Outputs(opt[r])[i].stub
    BY <1>0, <2>1, <2>3, <2>6 DEF StubsInOrder, n
  <2>8. pc[r] = "resolve" /\ next[r] = 0 /\ UNCHANGED <<pc, opt, next>>
    BY <1>0, <1>2 DEF Takes, Positions, Resolving
  <2>9. \A q \in Runs : q # r => stubs'[q] = stubs[q]
    BY <1>0, <1>2 DEF Takes, TypeOK
  <2> SUFFICES ASSUME NEW q \in Runs
               PROVE  /\ opt'[q] = Nil => stubs'[q] = <<>>
                      /\ opt'[q] # Nil =>
                            /\ Len(stubs'[q]) \in 0..Len(Outputs(opt'[q]))
                            /\ \A i \in 1..Len(stubs'[q]) : stubs'[q][i] = Outputs(opt'[q])[i].stub
                      /\ pc'[q] \in {"password", "passphrase", "seal"} \/ next'[q] # 0
                            => Len(stubs'[q]) = Len(Outputs(opt'[q]))
    BY DEF StubsInOrder
  <2>10. CASE q = r
    BY <2>1, <2>3, <2>6, <2>7, <2>8, <2>10
  <2>11. CASE q # r
    BY <1>0, <2>8, <2>9, <2>11 DEF StubsInOrder
  <2> QED BY <2>10, <2>11
<1>3. ASSUME UNCHANGED <<opt, stubs>>,
             \A q \in Runs : pc'[q] \in {"password", "passphrase", "seal"} \/ next'[q] # 0
                 => Len(stubs[q]) = Len(Outputs(opt[q]))
      PROVE  StubsInOrder'
  BY <1>0, <1>3 DEF StubsInOrder
<1>4. ASSUME Proceeds(r) PROVE StubsInOrder'
  <2>1. \A q \in Runs : pc'[q] \in {"password", "passphrase", "seal"} \/ next'[q] # 0
            => Len(stubs[q]) = Len(Outputs(opt[q]))
    BY <1>0, <1>4 DEF Proceeds, TypeOK, StubsInOrder
  <2> QED BY <1>3, <1>4, <2>1 DEF Proceeds
<1>5. ASSUME Seals(r) PROVE StubsInOrder'
  <2>1. \A q \in Runs : pc'[q] \in {"password", "passphrase", "seal"} \/ next'[q] # 0
            => Len(stubs[q]) = Len(Outputs(opt[q]))
    BY <1>0, <1>5 DEF Seals, TypeOK, StubsInOrder
  <2> QED BY <1>3, <1>5, <2>1 DEF Seals
<1>6. ASSUME Opens(r) PROVE StubsInOrder'
  <2>1. \A q \in Runs : pc'[q] \in {"password", "passphrase", "seal"} \/ next'[q] # 0
            => Len(stubs[q]) = Len(Outputs(opt[q]))
    BY <1>0, <1>6 DEF Opens, TypeOK, StubsInOrder
  <2> QED BY <1>3, <1>6, <2>1 DEF Opens
<1>7. ASSUME WriteOutput(r) PROVE StubsInOrder'
  <2>1. \A q \in Runs : pc'[q] \in {"password", "passphrase", "seal"} \/ next'[q] # 0
            => Len(stubs[q]) = Len(Outputs(opt[q]))
    BY <1>0, <1>7, AfterWrite DEF TypeOK, StubsInOrder
  <2> QED BY <1>3, <1>7, <2>1 DEF WriteOutput
<1>8. ASSUME Stops(r) PROVE StubsInOrder'
  <2>1. \A q \in Runs : pc'[q] \in {"password", "passphrase", "seal"} \/ next'[q] # 0
            => Len(stubs[q]) = Len(Outputs(opt[q]))
    BY <1>0, <1>8 DEF Stops, TypeOK, StubsInOrder
  <2> QED BY <1>3, <1>8, <2>1 DEF Stops
<1> QED BY StepForms, <1>1, <1>2, <1>4, <1>5, <1>6, <1>7, <1>8

\* Files are written by runs that have their payloads, each output with the stub
\* and the payload of its name.
LEMMA FilesStep ==
    ASSUME IInv, NEW r \in Runs, RunStep(r)
    PROVE  TouchedByWriters' /\ OutputsFit'
<1>0. TypeOK /\ Positions /\ TouchedByWriters /\ OutputsFit
  BY DEF IInv
<1>1. ASSUME UNCHANGED file, \A q \in Runs : next[q] # 0 => next'[q] # 0
      PROVE  TouchedByWriters' /\ OutputsFit'
  BY <1>0, <1>1 DEF TouchedByWriters, OutputsFit, Written
<1>2. ASSUME NEW path \in Paths, NEW content, file' = [file EXCEPT ![path] = content],
             content.by = r, next[r] # 0, \A q \in Runs : next[q] # 0 => next'[q] # 0,
             content.state = "whole" =>
                 /\ content.payload = path.role
                 /\ content.stub.role = path.role
                 /\ content.stub.target = IF path.suffix = "plain" THEN Host ELSE path.suffix
      PROVE  TouchedByWriters' /\ OutputsFit'
  <2>1. \A p \in Paths : file'[p] = IF p = path THEN content ELSE file[p]
    BY <1>0, <1>2 DEF TypeOK
  <2>2. TouchedByWriters'
    BY <1>0, <1>2, <2>1 DEF TouchedByWriters, Written
  <2>3. ASSUME NEW p \in Paths, file'[p] # Nil, file'[p].state = "whole"
        PROVE  /\ file'[p].payload = p.role
               /\ file'[p].stub.role = p.role
               /\ file'[p].stub.target = IF p.suffix = "plain" THEN Host ELSE p.suffix
    <3>1. CASE p = path
      BY <1>2, <2>1, <2>3, <3>1
    <3>2. CASE p # path
      BY <1>0, <2>1, <2>3, <3>2 DEF OutputsFit, Written
    <3> QED BY <3>1, <3>2
  <2>4. OutputsFit'
    BY <2>3 DEF OutputsFit, Written
  <2> QED BY <2>2, <2>4
<1>3. ASSUME NEW o \in Calls, Begin(r, o) PROVE TouchedByWriters' /\ OutputsFit'
  BY <1>1, <1>3 DEF Begin
<1>4. ASSUME Takes(r) \/ Proceeds(r) \/ Stops(r) PROVE TouchedByWriters' /\ OutputsFit'
  BY <1>1, <1>4 DEF Takes, Proceeds, Stops
<1>5. ASSUME Seals(r) PROVE TouchedByWriters' /\ OutputsFit'
  BY <1>0, <1>1, <1>5 DEF Seals, TypeOK
<1>6. ASSUME Opens(r) PROVE TouchedByWriters' /\ OutputsFit'
  <2>1. Output(r).path \in Paths /\ next[r] # 0
    BY <1>0, <1>6, OfWriter DEF Opens, Writing, Positions
  <2>2. Partial(r).by = r /\ Partial(r).state # "whole"
    BY DEF Partial
  <2> QED BY <1>2, <1>6, <2>1, <2>2 DEF Opens
<1>7. ASSUME WriteOutput(r) PROVE TouchedByWriters' /\ OutputsFit'
  <2> DEFINE path == Output(r).path
  <2> DEFINE content == IF file[path] = Partial(r)
                        THEN Whole(r, path.role, StubBytes(r)) ELSE Mixed(r)
  <2>1. Output(r) \in FitOutputs /\ path \in Paths /\ StubBytes(r) = Output(r).stub
    BY <1>7, OfWriter DEF WriteOutput, Writing
  <2>2. next[r] # 0 /\ \A q \in Runs : next[q] # 0 => next'[q] # 0
    BY <1>0, <1>7, AfterWrite DEF WriteOutput, Writing, Positions
  <2>3. file' = [file EXCEPT ![path] = content]
    BY <1>7 DEF WriteOutput
  <2>4. CASE file[path] = Partial(r)
    <3>1. content = Whole(r, path.role, Output(r).stub)
      BY <2>1, <2>4
    <3>2. content.by = r /\ content.payload = path.role /\ content.stub = Output(r).stub
      BY <3>1 DEF Whole
    <3>3. /\ content.stub.role = path.role
          /\ content.stub.target = IF path.suffix = "plain" THEN Host ELSE path.suffix
      BY <2>1, <3>2 DEF FitOutputs
    <3> HIDE DEF content, path
    <3> QED BY <1>2, <2>1, <2>2, <2>3, <3>2, <3>3 DEF path
  <2>5. CASE file[path] # Partial(r)
    <3>1. content.by = r /\ content.state # "whole"
      BY <2>5 DEF Mixed
    <3> HIDE DEF content
    <3> QED BY <1>2, <2>1, <2>2, <2>3, <3>1
  <2> QED BY <2>4, <2>5
<1> QED BY StepForms, <1>3, <1>4, <1>5, <1>6, <1>7

\* A run that begins while another is active makes overlap true.
LEMMA OverlapStep ==
    ASSUME IInv, NEW r \in Runs, RunStep(r)
    PROVE  OneAtATime' /\ (overlap => overlap')
<1> USE DEF GoTo, Active, Over
<1>0. TypeOK /\ OneAtATime
  BY DEF IInv
<1>1. ASSUME NEW o \in Calls, Begin(r, o) PROVE OneAtATime' /\ (overlap => overlap')
  <2>1. overlap' <=> (overlap \/ \E q \in Runs : Active(q))
    BY <1>1 DEF Begin
  <2>2. \A q \in Runs \ {r} : pc'[q] = pc[q]
    BY <1>0, <1>1 DEF Begin, TypeOK
  <2>3. ~overlap' => \A q \in Runs \ {r} : ~Active(q)'
    BY <2>1, <2>2
  <2> QED BY <2>1, <2>3 DEF OneAtATime
<1>2. ASSUME UNCHANGED overlap, \A q \in Runs : Active(q)' => Active(q)
      PROVE  OneAtATime' /\ (overlap => overlap')
  BY <1>0, <1>2 DEF OneAtATime
<1>3. ASSUME Takes(r) PROVE OneAtATime' /\ (overlap => overlap')
  BY <1>2, <1>3 DEF Takes
<1>4. ASSUME Proceeds(r) PROVE OneAtATime' /\ (overlap => overlap')
  BY <1>0, <1>2, <1>4 DEF Proceeds, TypeOK, Resolving
<1>5. ASSUME Seals(r) PROVE OneAtATime' /\ (overlap => overlap')
  BY <1>0, <1>2, <1>5 DEF Seals, TypeOK
<1>6. ASSUME Opens(r) PROVE OneAtATime' /\ (overlap => overlap')
  BY <1>0, <1>2, <1>6 DEF Opens, TypeOK
<1>7. ASSUME WriteOutput(r) PROVE OneAtATime' /\ (overlap => overlap')
  <2>1. pc[r] = "write" /\ UNCHANGED overlap
        /\ (pc' = [pc EXCEPT ![r] = "ok"] \/ pc' = [pc EXCEPT ![r] = "create"])
    BY <1>7 DEF WriteOutput
  <2> QED BY <1>0, <1>2, <2>1 DEF TypeOK
<1>8. ASSUME Stops(r) PROVE OneAtATime' /\ (overlap => overlap')
  BY <1>0, <1>2, <1>8 DEF Stops, TypeOK
<1> QED BY StepForms, <1>1, <1>3, <1>4, <1>5, <1>6, <1>7, <1>8

\* When an undisturbed run has completed an output, all up to that one are whole.
LEMMA WrittenSoFar ==
    ASSUME IInv, ~overlap, NEW r \in Runs, WriteOutput(r)
    PROVE  \A i \in 1..next[r] : IsWholeOf(r, Outputs(opt[r])[i].path)'
<1> DEFINE out == Output(r).path
<1>0. TypeOK /\ OwnWhole(r)
  BY DEF IInv, OwnOutputsWhole
<1>1. /\ out \in Paths /\ next[r] \in 1..Len(Outputs(opt[r]))
      /\ Len(Outputs(opt[r])) \in Nat /\ opt[r] \in Options /\ UNCHANGED opt
  BY OfRun, OfWriter DEF IInv, WriteOutput, Writing
<1>2. file[out] = Partial(r)
  BY <1>0 DEF OwnWhole, WriteOutput
<1>3. file' = [file EXCEPT ![out] = Whole(r, out.role, StubBytes(r))]
  BY <1>2 DEF WriteOutput
<1>4. \A p \in Paths : file'[p] = IF p = out THEN Whole(r, out.role, StubBytes(r)) ELSE file[p]
  BY <1>0, <1>1, <1>3 DEF TypeOK
<1>5. Whole(r, out.role, StubBytes(r)) # Nil
  <2>1. StubBytes(r) \in Stubs /\ out.role \in Roles
    BY <1>1, OfWriter DEF WriteOutput, Writing, Paths
  <2> QED BY <2>1, NilAssumption DEF Contents
<1>6. \A p \in Paths : p = out \/ IsWholeOf(r, p) =>
          file'[p] # Nil /\ file'[p].state = "whole" /\ file'[p].by = r
  BY <1>4, <1>5 DEF IsWholeOf, Whole
<1>7. ASSUME NEW i \in 1..next[r]
      PROVE  /\ Outputs(opt[r])[i].path \in Paths
             /\ Outputs(opt[r])[i].path = out \/ IsWholeOf(r, Outputs(opt[r])[i].path)
  <2>1. i \in 1..Len(Outputs(opt[r])) /\ (i = next[r] \/ i \in 1..next[r] - 1)
    BY <1>1
  <2>2. Outputs(opt[r])[i].path \in Paths
    BY <1>1, <2>1, OutputsType
  <2>3. CASE i = next[r]
    BY <2>2, <2>3 DEF Output
  <2>4. CASE i \in 1..next[r] - 1
    BY <1>0, <2>2, <2>4 DEF OwnWhole, WriteOutput, Writing
  <2> QED BY <2>1, <2>3, <2>4
<1> QED BY <1>1, <1>6, <1>7 DEF IsWholeOf

\* What a run does to its own outputs: it opens one, which is then the only one
\* that is not whole, and completes it.
LEMMA OwnWholeStep ==
    ASSUME IInv, NEW r \in Runs, RunStep(r), ~overlap'
    PROVE  \A q \in Runs : OwnWhole(q)'
<1> USE DEF GoTo
<1>0. TypeOK /\ Begun /\ Positions /\ OneAtATime /\ ~overlap /\ \A q \in Runs : OwnWhole(q)
  BY OverlapStep DEF IInv, OwnOutputsWhole
<1>1. ASSUME NEW q \in Runs, UNCHANGED <<file, next>>, opt'[q] = opt[q],
             pc'[q] \in Writing => pc'[q] = pc[q]
      PROVE  OwnWhole(q)'
  BY <1>0, <1>1 DEF OwnWhole, Output, IsWholeOf, Writing
<1>2. ASSUME NEW q \in Runs, pc'[q] \notin Writing PROVE OwnWhole(q)'
  BY <1>2 DEF OwnWhole, Writing
<1>3. ASSUME Active(r), NEW q \in Runs \ {r}, pc'[q] = pc[q] PROVE OwnWhole(q)'
  <2>1. pc[q] \notin Writing
    BY <1>0, <1>3 DEF OneAtATime, Active, Writing, Over
  <2> QED BY <1>2, <1>3, <2>1
<1>4. ASSUME NEW o \in Calls, Begin(r, o), NEW q \in Runs PROVE OwnWhole(q)'
  <2>1. CASE q = r
    <3>1. pc'[r] \in {"error", "resolve"}
      BY <1>0, <1>4 DEF Begin, TypeOK
    <3> QED BY <1>2, <2>1, <3>1 DEF Writing
  <2>2. CASE q # r
    <3>1. opt'[q] = opt[q] /\ pc'[q] = pc[q] /\ UNCHANGED <<file, next>>
      BY <1>0, <1>4, <2>2 DEF Begin, TypeOK
    <3> QED BY <1>1, <3>1
  <2> QED BY <2>1, <2>2
<1>5. ASSUME Takes(r), NEW q \in Runs PROVE OwnWhole(q)'
  BY <1>1, <1>5 DEF Takes
<1>6. ASSUME Proceeds(r), NEW q \in Runs PROVE OwnWhole(q)'
  BY <1>0, <1>1, <1>6 DEF Proceeds, TypeOK, Resolving, Writing
<1>7. ASSUME Seals(r), NEW q \in Runs PROVE OwnWhole(q)'
  <2>1. CASE q = r
    <3>1. pc'[r] = "create" /\ next'[r] = 1
      BY <1>0, <1>7 DEF Seals, TypeOK
    <3>2. 1..(1 - 1) = {}
      OBVIOUS
    <3> QED BY <2>1, <3>1, <3>2 DEF OwnWhole
  <2>2. CASE q # r
    BY <1>0, <1>3, <1>7, <2>2 DEF Seals, TypeOK, Active, Over
  <2> QED BY <2>1, <2>2
<1>8. ASSUME Opens(r), NEW q \in Runs PROVE OwnWhole(q)'
  <2>1. CASE q = r
    <3> DEFINE out == Output(r).path
    <3>1. out \in Paths
      BY <1>8, OfWriter DEF Opens, Writing
    <3>2. \A p \in Paths : file'[p] = IF p = out THEN Partial(r) ELSE file[p]
      BY <1>0, <1>8, <3>1 DEF Opens, TypeOK
    <3>3. pc'[r] = "write" /\ UNCHANGED <<opt, next>> /\ Output(r)' = Output(r)
      BY <1>0, <1>8 DEF Opens, TypeOK, Output
    <3>4. /\ pc[r] = "create" /\ opt[r] \in Options
          /\ next[r] \in 1..Len(Outputs(opt[r])) /\ Len(Outputs(opt[r])) \in Nat
      BY <1>0, <1>8, OfRun, OfWriter DEF Opens, Writing
    <3>5. ASSUME NEW i \in 1..next[r] - 1
          PROVE  \/ IsWholeOf(r, Outputs(opt[r])[i].path)'
                 \/ Outputs(opt[r])[i].path = out
      <4>1. i \in 1..Len(Outputs(opt[r]))
        BY <3>4
      <4>2. Outputs(opt[r])[i].path \in Paths
        BY <3>4, <4>1, OutputsType
      <4>3. IsWholeOf(r, Outputs(opt[r])[i].path)
        BY <1>0, <3>4 DEF OwnWhole, Writing
      <4> QED BY <3>2, <3>3, <4>2, <4>3 DEF IsWholeOf
    <3> QED BY <2>1, <3>1, <3>2, <3>3, <3>5 DEF OwnWhole
  <2>2. CASE q # r
    BY <1>0, <1>3, <1>8, <2>2 DEF Opens, TypeOK, Active, Over
  <2> QED BY <2>1, <2>2
<1>9. ASSUME WriteOutput(r), NEW q \in Runs PROVE OwnWhole(q)'
  <2>1. CASE q = r
    <3>1. CASE pc' = [pc EXCEPT ![r] = "ok"]
      BY <1>0, <1>2, <2>1, <3>1 DEF TypeOK, Writing
    <3>2. CASE pc' = [pc EXCEPT ![r] = "create"] /\ next' = [next EXCEPT ![r] = @ + 1]
      <4>1. pc'[r] = "create" /\ next'[r] = next[r] + 1 /\ UNCHANGED opt
        BY <1>0, <1>9, <3>2 DEF TypeOK, WriteOutput
      <4>2. next[r] \in Nat /\ (next[r] + 1) - 1 = next[r]
        BY <1>0 DEF TypeOK
      <4>3. \A i \in 1..next[r] : IsWholeOf(r, Outputs(opt[r])[i].path)'
        BY <1>0, <1>9, WrittenSoFar
      <4>4. \A i \in 1..next'[r] - 1 : IsWholeOf(r, Outputs(opt[r])[i].path)'
        BY <4>1, <4>2, <4>3
      <4> QED BY <2>1, <4>1, <4>4 DEF OwnWhole
    <3> QED BY <1>9, <3>1, <3>2, AfterWrite
  <2>2. CASE q # r
    <3>1. pc'[q] = pc[q]
      BY <1>0, <1>9, <2>2, AfterWrite DEF TypeOK
    <3> QED BY <1>3, <1>9, <2>2, <3>1 DEF WriteOutput, Active, Over
  <2> QED BY <2>1, <2>2
<1>10. ASSUME Stops(r), NEW q \in Runs PROVE OwnWhole(q)'
  BY <1>0, <1>1, <1>10 DEF Stops, TypeOK, Writing
<1> QED BY StepForms, <1>4, <1>5, <1>6, <1>7, <1>8, <1>9, <1>10

\* The last run that has written is the one whose files are all there.
LEMMA PairStep ==
    ASSUME IInv, NEW r \in Runs, RunStep(r), ~overlap', SameCall', Settled'
    PROVE  \E q \in Runs : AllOf(q)'
<1> USE DEF GoTo
<1>0. TypeOK /\ Begun /\ Positions /\ ~overlap /\ (SameCall /\ Settled => \E q \in Runs : AllOf(q))
  BY OverlapStep DEF IInv, PairOrNothing
<1>1. ASSUME NEW q \in Runs, AllOf(q), UNCHANGED file,
             \A p \in Runs : pc'[p] = "ok" => pc[p] = "ok" /\ opt'[p] = opt[p]
      PROVE  AllOf(q)'
  BY <1>1 DEF AllOf, IsWholeOf
<1>2. ASSUME NEW o \in Calls, Begin(r, o) PROVE \E q \in Runs : AllOf(q)'
  <2>1. /\ \A p \in Runs \ {r} : pc'[p] = pc[p] /\ opt'[p] = opt[p]
        /\ pc[r] = "idle" /\ pc'[r] \in {"error", "resolve"} /\ UNCHANGED <<file, next>>
    BY <1>0, <1>2 DEF Begin, TypeOK
  <2>2. opt[r] = Nil /\ next[r] = 0
    BY <1>0, <2>1 DEF Begun, Positions
  <2>3. SameCall /\ Settled
    BY <2>1, <2>2 DEF SameCall, Settled
  <2> QED BY <1>0, <1>1, <2>1, <2>3
<1>3. ASSUME Takes(r) PROVE \E q \in Runs : AllOf(q)'
  BY <1>0, <1>1, <1>3 DEF Takes, SameCall, Settled
<1>4. ASSUME Proceeds(r) PROVE \E q \in Runs : AllOf(q)'
  <2>1. /\ \A p \in Runs \ {r} : pc'[p] = pc[p]
        /\ pc[r] \in Resolving /\ pc'[r] # "ok" /\ UNCHANGED <<file, opt, next>>
    BY <1>0, <1>4 DEF Proceeds, TypeOK, Resolving
  <2>2. SameCall /\ Settled
    BY <1>0, <2>1 DEF SameCall, Settled, Positions
  <2> QED BY <1>0, <1>1, <2>1, <2>2
<1>5. ASSUME Stops(r) PROVE \E q \in Runs : AllOf(q)'
  <2>1. /\ \A p \in Runs \ {r} : pc'[p] = pc[p]
        /\ pc'[r] # "ok" /\ UNCHANGED <<file, opt, next>>
    BY <1>0, <1>5 DEF Stops, TypeOK
  <2>2. SameCall /\ Settled
    BY <2>1 DEF SameCall, Settled
  <2> QED BY <1>0, <1>1, <2>1, <2>2
<1>6. ASSUME Seals(r) PROVE FALSE
  BY <1>0, <1>6 DEF Seals, TypeOK, Settled
<1>7. ASSUME Opens(r) PROVE FALSE
  BY <1>0, <1>7 DEF Opens, TypeOK, Settled, Positions, Writing
<1>8. ASSUME WriteOutput(r) PROVE AllOf(r)'
  <2>1. pc[r] = "write" /\ next[r] # 0 /\ UNCHANGED opt
    BY <1>0, <1>8 DEF WriteOutput, Positions, Writing
  <2>2. CASE pc' = [pc EXCEPT ![r] = "create"]
    BY <1>0, <1>8, <2>1, <2>2, AfterWrite DEF Settled, TypeOK
  <2>3. CASE pc' = [pc EXCEPT ![r] = "ok"] /\ next[r] = Len(Outputs(opt[r]))
    <3>1. \A i \in 1..Len(Outputs(opt[r])) : IsWholeOf(r, Outputs(opt[r])[i].path)'
      BY <1>0, <1>8, <2>3, WrittenSoFar
    <3>2. ASSUME NEW p \in Runs, pc'[p] = "ok" PROVE opt'[p] = opt'[r]
      <4>1. pc[p] # "idle" /\ pc[r] # "idle"
        BY <1>0, <2>1, <2>3, <3>2 DEF TypeOK
      <4> QED BY <1>0, <2>1, <4>1 DEF Begun, SameCall
    <3> QED BY <2>1, <3>1, <3>2 DEF AllOf, IsWholeOf
  <2> QED BY <1>8, <2>2, <2>3, AfterWrite
<1> QED BY StepForms, <1>2, <1>3, <1>4, <1>5, <1>6, <1>7, <1>8

-----------------------------------------------------------------------------
(* The invariant, and what it says. *)

\* The invariant holds before any run has begun.
LEMMA IInvInit == Init => IInv
<1> SUFFICES ASSUME Init PROVE IInv
  OBVIOUS
<1>1. TypeOK
  BY EmptySeq DEF Init, TypeOK, States
<1>2. Begun /\ Positions
  BY DEF Init, Begun, Positions, Writing
<1>3. StubsInOrder
  BY DEF Init, StubsInOrder
<1>4. TouchedByWriters /\ OutputsFit
  BY DEF Init, TouchedByWriters, OutputsFit, Written
<1>5. OneAtATime /\ OwnOutputsWhole
  BY DEF Init, OneAtATime, Active, Over, OwnOutputsWhole, OwnWhole, Writing
<1>6. PairOrNothing
  BY RunsAssumption DEF Init, PairOrNothing, AllOf
<1> QED BY <1>1, <1>2, <1>3, <1>4, <1>5, <1>6 DEF IInv

\* A step of any run keeps the invariant.
LEMMA IInvStep == IInv /\ [Next]_vars => IInv'
<1> SUFFICES ASSUME IInv, [Next]_vars PROVE IInv'
  OBVIOUS
<1>1. ASSUME NEW r \in Runs, RunStep(r) PROVE IInv'
  <2>1. TypeOK' /\ Begun' /\ Positions' /\ StubsInOrder' /\ TouchedByWriters' /\ OutputsFit'
    BY <1>1, TypeStep, PositionsStep, StubsStep, FilesStep
  <2>2. OneAtATime'
    BY <1>1, OverlapStep
  <2>3. OwnOutputsWhole'
    BY <1>1, OwnWholeStep DEF OwnOutputsWhole
  <2>4. PairOrNothing'
    BY <1>1, PairStep DEF PairOrNothing
  <2> QED BY <2>1, <2>2, <2>3, <2>4 DEF IInv
<1>2. CASE UNCHANGED vars
  <2>1. TypeOK' /\ Begun' /\ Positions' /\ StubsInOrder'
    BY <1>2 DEF IInv, vars, TypeOK, Begun, Positions, StubsInOrder
  <2>2. TouchedByWriters' /\ OutputsFit'
    BY <1>2 DEF IInv, vars, TouchedByWriters, OutputsFit, Written
  <2>3. OneAtATime' /\ OwnOutputsWhole'
    BY <1>2 DEF IInv, vars, OneAtATime, Active, OwnOutputsWhole, OwnWhole, IsWholeOf, Output
  <2>4. PairOrNothing'
    BY <1>2 DEF IInv, vars, PairOrNothing, SameCall, Settled, AllOf, IsWholeOf
  <2> QED BY <2>1, <2>2, <2>3, <2>4 DEF IInv
<1> QED BY <1>1, <1>2 DEF Next

\* The invariant holds in every reachable state of any number of runs.
THEOREM Invariance == Spec => []IInv
<1> QED BY IInvInit, IInvStep, PTL DEF Spec

\* seal: every variable stays in its set; in particular the loop over the outputs
\* never leaves the list.
THEOREM TypeCorrect == Spec => []TypeOK
<1>1. IInv => TypeOK
  BY DEF IInv
<1> QED BY <1>1, Invariance, PTL

\* seal, resolveAll: a file is touched only by a run that has all of its stubs.
THEOREM ResolvedFirst == Spec => []NothingWrittenUnresolved
<1>1. IInv => NothingWrittenUnresolved
  BY DEF IInv, NothingWrittenUnresolved, TouchedByWriters, StubsInOrder
<1> QED BY <1>1, Invariance, PTL

\* seal: what was written without disturbance is the stub and the payload that
\* the name of the output says.
THEOREM NamesFit == Spec => []OutputsFit
<1>1. IInv => OutputsFit
  BY DEF IInv
<1> QED BY <1>1, Invariance, PTL

\* seal, over what earlier runs have left: if none was stopped while writing, the
\* outputs of those that succeeded are whole, and of one run.
THEOREM PairReplaced == Spec => []ResealReplacesPair
<1>1. ASSUME IInv PROVE ResealReplacesPair
  <2> SUFFICES ASSUME ~overlap, SameCall, \A r \in Runs : Harmless(r)
               PROVE  \E q \in Runs : \A r \in Runs : pc[r] = "ok" =>
                        \A i \in DOMAIN Outputs(opt[r]) :
                          LET content == file[Outputs(opt[r])[i].path] IN
                            content # Nil /\ content.state = "whole" /\ content.by = q
    BY DEF ResealReplacesPair
  <2>1. Settled
    BY <1>1 DEF IInv, Positions, Settled, Harmless
  <2>2. PICK q \in Runs : AllOf(q)
    BY <1>1, <2>1 DEF IInv, PairOrNothing
  <2>3. ASSUME NEW r \in Runs, pc[r] = "ok"
        PROVE  DOMAIN Outputs(opt[r]) = 1..Len(Outputs(opt[r]))
    BY <1>1, <2>3, OfRun, OutputsType DEF IInv
  <2>4. ASSUME NEW r \in Runs, pc[r] = "ok", NEW i \in DOMAIN Outputs(opt[r])
        PROVE  LET content == file[Outputs(opt[r])[i].path] IN
                 content # Nil /\ content.state = "whole" /\ content.by = q
    BY <2>2, <2>3, <2>4 DEF AllOf, IsWholeOf
  <2> QED BY <2>4
<1> QED BY <1>1, Invariance, PTL
=============================================================================
