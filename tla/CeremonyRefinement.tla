------------------------- MODULE CeremonyRefinement -------------------------
(***************************************************************************)
(* The ceremony implements Unlock: under the mapping of Ceremony the       *)
(* initial states are initial states of Unlock, and every step is a step   *)
(* of Unlock or changes nothing Unlock sees.                               *)
(***************************************************************************)
EXTENDS CeremonyProofs

-----------------------------------------------------------------------------
(* The mapped state of one session. *)

\* The state of a session in Unlock, from where its vault is.
LEMMA MappedState ==
    ASSUME NEW s \in Sessions
    PROVE  /\ vpc[s] = "idle" => UnlockState[s] = "idle"
           /\ vpc[s] \in {"password", "meta", "response"} => UnlockState[s] = "locked"
           /\ vpc[s] \in {"open", "serving"} => UnlockState[s] = "open"
           /\ vpc[s] \in {"stopped", "failed"} => UnlockState[s] = "closed"
           /\ vpc'[s] = "idle" => UnlockState'[s] = "idle"
           /\ vpc'[s] \in {"password", "meta", "response"} => UnlockState'[s] = "locked"
           /\ vpc'[s] \in {"open", "serving"} => UnlockState'[s] = "open"
           /\ vpc'[s] \in {"stopped", "failed"} => UnlockState'[s] = "closed"
BY DEF UnlockState, UnlockStateAt

\* The factors proved for it, before and after a step.
LEMMA MappedProved ==
    ASSUME IInv, IInv', NEW s \in Sessions
    PROVE  /\ UnlockProved[s] \subseteq {"password", "warden"}
           /\ "password" \in UnlockProved[s] <=> meta[s] # Nil
           /\ "warden" \in UnlockProved[s] <=> WardenProved(s)
           /\ UnlockProved'[s] \subseteq {"password", "warden"}
           /\ "password" \in UnlockProved'[s] <=> meta'[s] # Nil
           /\ "warden" \in UnlockProved'[s] <=> WardenProved(s)'
           /\ (meta'[s] # Nil <=> meta[s] # Nil) /\ (WardenProved(s)' <=> WardenProved(s))
                 => UnlockProved'[s] = UnlockProved[s]
           /\ (meta'[s] # Nil <=> meta[s] # Nil) /\ WardenProved(s)'
                 => UnlockProved'[s] = UnlockProved[s] \cup {"warden"}
<1>1. \A vp : SealedMeta(vp).p = vp.metaCT.key
      BY DEF SealedMeta
<1>2. /\ meta[s] # Nil => meta[s] = SealedMeta(Sealed(s))
      /\ meta'[s] # Nil => meta'[s] = SealedMeta(Sealed(s)')
      BY DEF IInv, SessionInv, Sealed
<1>3. /\ PasswordProved(s) <=> meta[s] # Nil
      /\ PasswordProved(s)' <=> meta'[s] # Nil
      BY <1>1, <1>2, Zenon DEF PasswordProved
<1> QED BY <1>3 DEF UnlockProved

\* The factors it needs, before and after a step.
LEMMA MappedRequired ==
    ASSUME IInv, IInv', NEW s \in Sessions
    PROVE  /\ vbin[s] = Nil => UnlockRequired[s] = {}
           /\ vbin[s] # Nil => UnlockRequired[s] =
                IF TwoFactor(s) THEN {"password", "warden"} ELSE {"password"}
           /\ vbin'[s] = Nil => UnlockRequired'[s] = {}
           /\ vbin'[s] # Nil => UnlockRequired'[s] =
                IF TwoFactor(s)' THEN {"password", "warden"} ELSE {"password"}
BY DEF UnlockRequired

\* The required factors change only when the session is started.
LEMMA RequiredIsSteady ==
    ASSUME IInv, IInv', [Next]_vars, NEW s \in Sessions, vpc[s] # "idle"
    PROVE  UnlockRequired'[s] = UnlockRequired[s]
<1>1. vbin'[s] = vbin[s] /\ vbin[s] # Nil
      BY SessionsAreSteady, NilAssumption DEF IInv, SessionInv
<1> QED BY <1>1, FactorsAreSteady, MappedRequired

\* What OpenAssets and OpenAssetsSolo return is not Nil.
LEMMA FilesReleased ==
    ASSUME IInv, NEW s \in Sessions, vpc[s] \in {"meta", "response"}
    PROVE  Assets(meta[s]) # Nil
<1>1. /\ vbin[s] \in Pairs /\ vault[vbin[s]] \in VaultsOf(vbin[s])
      /\ meta[s] = SealedMeta(vault[vbin[s]])
      BY DEF IInv, SessionInv, BinariesInv
<1>2. vault[vbin[s]].assetCT.plaintext = Files(vbin[s])
      BY <1>1, VaultShape
<1>3. Files(vbin[s]) \in AllFiles
      BY <1>1 DEF AllFiles
<1> QED BY <1>1, <1>2, <1>3, NilAssumption DEF SealedMeta, Assets

\* A step of one vault session maps to a change of that session alone.
LEMMA VaultFrame ==
    ASSUME IInv, IInv', NEW s \in Sessions, VaultStep(s)
    PROVE  /\ UnlockState' = [UnlockState EXCEPT ![s] = UnlockState'[s]]
           /\ UnlockRequired' = [UnlockRequired EXCEPT ![s] = UnlockRequired'[s]]
           /\ UnlockProved' = [UnlockProved EXCEPT ![s] = UnlockProved'[s]]
           /\ UNCHANGED <<vault, wardenVars>>
<1>1. UNCHANGED <<vault, wardenVars>>
      BY DEF VaultStep, VaultStart, VaultPasswordRight, VaultPasswordWrong,
             VaultChallenge, VaultSolo, VaultResponseRight, VaultResponseWrong,
             VaultServe, VaultStop, VaultAbort, sealVars, wardenVars
<1>2. ASSUME NEW t \in Sessions, t # s
      PROVE  /\ vpc'[t] = vpc[t] /\ vbin'[t] = vbin[t]
             /\ meta'[t] = meta[t] /\ ePriv'[t] = ePriv[t]
      BY <1>2 DEF IInv, TypeOK, VaultStep, VaultStart, VaultPasswordRight,
             VaultPasswordWrong, VaultChallenge, VaultSolo, VaultResponseRight,
             VaultResponseWrong, VaultServe, VaultStop, VaultAbort
<1>3. ASSUME NEW t \in Sessions, t # s
      PROVE  /\ UnlockState'[t] = UnlockState[t]
             /\ UnlockRequired'[t] = UnlockRequired[t]
             /\ UnlockProved'[t] = UnlockProved[t]
  <2>1. UnlockState'[t] = UnlockState[t]
        BY <1>2, <1>3 DEF UnlockState
  <2>2. Sealed(t)' = Sealed(t)
        BY <1>1, <1>2, <1>3 DEF Sealed
  <2>3. UnlockRequired'[t] = UnlockRequired[t]
        BY <1>2, <1>3, <2>2 DEF UnlockRequired, TwoFactor
  <2>4. WardenProved(t)' <=> WardenProved(t)
        BY <1>1, <1>2, <1>3 DEF WardenProved, Answered, wardenVars, PublicKey
  <2>5. PasswordProved(t)' <=> PasswordProved(t)
        BY <1>2, <1>3, <2>2 DEF PasswordProved
  <2>6. UnlockProved'[t] = UnlockProved[t]
        BY <2>4, <2>5 DEF UnlockProved
  <2> QED BY <2>1, <2>3, <2>6
<1>4. UnlockState' = [UnlockState EXCEPT ![s] = UnlockState'[s]]
  <2>1. /\ UnlockState = [t \in Sessions |-> UnlockState[t]]
        /\ UnlockState' = [t \in Sessions |-> UnlockState'[t]]
        BY DEF UnlockState
  <2> QED BY <1>3, <2>1
<1>5. UnlockRequired' = [UnlockRequired EXCEPT ![s] = UnlockRequired'[s]]
      BY <1>3 DEF UnlockRequired
<1>6. UnlockProved' = [UnlockProved EXCEPT ![s] = UnlockProved'[s]]
      BY <1>3 DEF UnlockProved
<1> QED BY <1>1, <1>4, <1>5, <1>6

-----------------------------------------------------------------------------
(* The steps. *)

AbstractStep == Promise!Next \/ UNCHANGED <<UnlockState, UnlockRequired, UnlockProved>>

\* A vault step of s that changes the mapped state of s as a step of Unlock does.
LEMMA VaultSimulated ==
    ASSUME FullInv, FullInv', NEW s \in Sessions, VaultStep(s),
           \/ /\ UnlockState'[s] = UnlockState[s]
              /\ UnlockRequired'[s] = UnlockRequired[s]
              /\ UnlockProved'[s] = UnlockProved[s]
           \/ /\ UnlockState[s] = "idle" /\ UnlockState'[s] = "locked"
              /\ UnlockRequired'[s] \in Promise!Kinds
              /\ UnlockProved'[s] = UnlockProved[s]
           \/ /\ UnlockState[s] = "locked" /\ UnlockState'[s] = "locked"
              /\ UnlockRequired'[s] = UnlockRequired[s]
              /\ UnlockProved'[s] = UnlockProved[s] \cup {"password"}
           \/ /\ UnlockState'[s] = UnlockState[s]
              /\ UnlockProved[s] = {"password"}
              /\ UnlockRequired[s] = {"password", "warden"}
              /\ UnlockRequired'[s] = UnlockRequired[s]
              /\ UnlockProved'[s] = UnlockProved[s] \cup {"warden"}
           \/ /\ UnlockState[s] = "locked" /\ UnlockState'[s] = "open"
              /\ UnlockRequired[s] \subseteq UnlockProved[s]
              /\ UnlockRequired'[s] = UnlockRequired[s]
              /\ UnlockProved'[s] = UnlockProved[s]
           \/ /\ UnlockState[s] \in {"locked", "open"} /\ UnlockState'[s] = "closed"
              /\ UnlockRequired'[s] = UnlockRequired[s]
              /\ UnlockProved'[s] = UnlockProved[s]
    PROVE  AbstractStep
<1>1. /\ UnlockState' = [UnlockState EXCEPT ![s] = UnlockState'[s]]
      /\ UnlockRequired' = [UnlockRequired EXCEPT ![s] = UnlockRequired'[s]]
      /\ UnlockProved' = [UnlockProved EXCEPT ![s] = UnlockProved'[s]]
      BY VaultFrame DEF FullInv
<1>2. /\ UnlockState = [t \in Sessions |-> UnlockState[t]]
      /\ UnlockRequired = [t \in Sessions |-> UnlockRequired[t]]
      /\ UnlockProved = [t \in Sessions |-> UnlockProved[t]]
      BY DEF UnlockState, UnlockRequired, UnlockProved
<1> QED BY <1>1, <1>2
        DEF AbstractStep, Promise!Next, Promise!Step, Promise!Begin, Promise!Kinds,
            Promise!ProvePassword, Promise!ProveWarden, Promise!Release, Promise!Close

\* The steps of a vault are steps of its session in Unlock, or stutters.
LEMMA VaultRefines ==
    ASSUME FullInv, FullInv', NEW s \in Sessions, VaultStep(s)
    PROVE  AbstractStep
<1> USE DEF FullInv
<1>1. [Next]_vars /\ IInv /\ IInv'
      BY DEF Next
<1>2. UNCHANGED wardenVars
      BY VaultFrame
<1>3. UNCHANGED <<vbin, ePriv>> => (WardenProved(s)' <=> WardenProved(s))
      BY <1>2 DEF WardenProved, Answered, PublicKey, wardenVars
<1>4. UNCHANGED <<vbin, meta, ePriv>> => UnlockProved'[s] = UnlockProved[s]
      BY <1>1, <1>3, MappedProved
<1>5. vpc[s] # "idle" => UnlockRequired'[s] = UnlockRequired[s]
      BY <1>1, RequiredIsSteady
<1>6. CASE \E p \in Pairs : VaultStart(s, p)
  <2>1. UnlockState[s] = "idle" /\ UnlockState'[s] = "locked"
        BY <1>1, <1>6, MappedState DEF VaultStart, IInv, TypeOK
  <2>2. UnlockRequired'[s] \in Promise!Kinds
        BY <1>1, <1>6, MappedRequired, NilAssumption
        DEF VaultStart, IInv, TypeOK, Promise!Kinds
  <2>3. UnlockProved'[s] = UnlockProved[s]
    <3>1. /\ meta[s] = Nil /\ meta'[s] = Nil
          /\ ~WardenProved(s) /\ ~WardenProved(s)'
          BY <1>1, <1>6 DEF VaultStart, IInv, SessionInv, WardenProved
    <3> QED BY <1>1, <3>1, MappedProved
  <2> QED BY <2>1, <2>2, <2>3, VaultSimulated
<1>7. CASE \E pw \in Passwords : VaultPasswordRight(s, pw)
  <2>1. UnlockState[s] = "locked" /\ UnlockState'[s] = "locked"
        BY <1>1, <1>7, MappedState DEF VaultPasswordRight, IInv, TypeOK
  <2>2. meta'[s] # Nil /\ UNCHANGED <<vbin, ePriv>> /\ vpc[s] # "idle"
        BY <1>1, <1>7 DEF VaultPasswordRight, IInv, SessionInv, TypeOK
  <2>3. UnlockProved'[s] = UnlockProved[s] \cup {"password"}
        BY <1>1, <1>3, <2>2, MappedProved
  <2> QED BY <1>5, <2>1, <2>2, <2>3, VaultSimulated
<1>8. CASE VaultChallenge(s)
  <2>1. UnlockState[s] = "locked" /\ UnlockState'[s] = "locked" /\ vpc[s] # "idle"
        BY <1>1, <1>8, MappedState DEF VaultChallenge, IInv, TypeOK
  <2>2. /\ meta[s] # Nil /\ meta'[s] = meta[s]
        /\ ~WardenProved(s) /\ vbin[s] # Nil
        BY <1>1, <1>8, NilAssumption
        DEF VaultChallenge, IInv, SessionInv, WardenProved
  <2>3. meta[s] = SealedMeta(Sealed(s)) /\ meta[s].twoFactor
        BY <1>1, <1>8 DEF VaultChallenge, IInv, SessionInv, Sealed
  <2>4. TwoFactor(s)
    <3>1. SealedMeta(Sealed(s)).twoFactor = Sealed(s).metaCT.plaintext.twoFactor
          BY DEF SealedMeta
    <3> QED BY <2>3, <3>1, Zenon DEF TwoFactor
  <2>5. UnlockRequired[s] = {"password", "warden"}
        BY <1>1, <2>1, <2>2, <2>4, FactorsAreSteady, MappedRequired
  <2>6. UnlockProved[s] = {"password"}
        BY <1>1, <2>2, MappedProved
  <2>7. UnlockProved'[s] \in {{"password"}, {"password", "warden"}}
        BY <1>1, <2>2, MappedProved
  <2> QED BY <1>5, <2>1, <2>5, <2>6, <2>7, VaultSimulated
<1>9. CASE VaultSolo(s) \/ \E r \in Responses \cup {GarbledResponse} : VaultResponseRight(s, r)
  <2>1. UNCHANGED <<vbin, meta, ePriv>> /\ vpc[s] \in {"meta", "response"}
        BY <1>9 DEF VaultSolo, VaultResponseRight
  <2>2. CASE vpc'[s] = "failed"
        BY <1>4, <1>5, <2>1, <2>2, MappedState, VaultSimulated
  <2>3. CASE vpc'[s] # "failed"
    <3>1. vpc'[s] = "open" /\ files'[s] = Assets(meta[s])
          BY <1>1, <1>9, <2>3 DEF VaultSolo, VaultResponseRight, IInv, TypeOK
    <3>2. files'[s] # Nil
          BY <1>1, <2>1, <3>1, FilesReleased
    <3>3. meta[s] # Nil /\ vbin[s] # Nil
          BY <1>1, <2>1, NilAssumption DEF IInv, SessionInv
    <3>4. TwoFactor(s) => WardenProved(s)
          BY <1>1, <1>3, <2>1, <3>2, FactorsAreSteady DEF WardenFactor
    <3>5. UnlockRequired[s] \subseteq UnlockProved[s]
          BY <1>1, <3>3, <3>4, MappedRequired, MappedProved
    <3> QED BY <1>4, <1>5, <2>1, <3>1, <3>5, MappedState, VaultSimulated
  <2> QED BY <2>2, <2>3
<1>10. CASE \/ \E pw \in Passwords : VaultPasswordWrong(s, pw)
            \/ \E r \in Responses \cup {GarbledResponse} : VaultResponseWrong(s, r)
            \/ VaultServe(s) \/ VaultStop(s) \/ VaultAbort(s)
  <2>1. /\ UNCHANGED <<vbin, meta, ePriv>>
        /\ vpc[s] \notin {"idle", "stopped", "failed"}
        /\ \/ vpc'[s] = vpc[s]
           \/ vpc'[s] \in {"stopped", "failed"}
           \/ vpc[s] = "open" /\ vpc'[s] = "serving"
        BY <1>1, <1>10 DEF VaultPasswordWrong, VaultResponseWrong, VaultServe, VaultStop,
                           VaultAbort, IInv, TypeOK
  <2>2. vpc[s] \in VaultStates
        BY <1>1 DEF IInv, TypeOK
  <2> QED BY <1>4, <1>5, <2>1, <2>2, MappedState, VaultSimulated DEF VaultStates
<1> QED BY <1>6, <1>7, <1>8, <1>9, <1>10 DEF VaultStep

\* The steps of a warden are stutters, but for an answer to its own vault.
LEMMA WardenRefines ==
    ASSUME FullInv, FullInv', NEW w \in WardenRuns, WardenStep(w)
    PROVE  AbstractStep
<1> USE DEF FullInv
<1>1. [Next]_vars /\ IInv /\ IInv'
      BY DEF Next
<1>2. UNCHANGED <<sealVars, vaultVars>>
      BY DEF WardenStep, WardenStart, WardenPassphraseRight, WardenPassphraseWrong,
             WardenChallenge, WardenAbort
<1>3. UnlockState' = UnlockState /\ UnlockRequired' = UnlockRequired
      BY <1>2 DEF UnlockState, UnlockRequired, TwoFactor, Sealed, sealVars, vaultVars
<1>4. ASSUME NEW s \in Sessions
      PROVE  /\ WardenProved(s) => WardenProved(s)'
             /\ UnlockProved'[s] = IF WardenProved(s)' THEN UnlockProved[s] \cup {"warden"}
                                                       ELSE UnlockProved[s]
  <2>1. WardenProved(s) => WardenProved(s)'
    <3>1. WardenProved(s) => vpc[s] # "idle"
          BY <1>1 DEF WardenProved, IInv, SessionInv
    <3> QED BY <1>1, <3>1, FactorsAreSteady
  <2>2. meta' = meta
        BY <1>2 DEF vaultVars
  <2> QED BY <1>1, <2>1, <2>2, MappedProved
<1>5. CASE \E s \in Sessions : WardenProved(s)' /\ ~WardenProved(s)
  <2>1. PICK s \in Sessions : WardenProved(s)' /\ ~WardenProved(s)
        BY <1>5
  <2>2. ePriv[s] # Nil /\ ePriv' = ePriv /\ vbin' = vbin
        BY <1>2, <2>1 DEF WardenProved, vaultVars
  <2>3. \A v \in WardenRuns : v # w =>
            /\ wbin'[v] = wbin[v] /\ wchal'[v] = wchal[v]
            /\ v \in Answered' <=> v \in Answered
        BY <1>1 DEF WardenStep, WardenStart, WardenPassphraseRight, Answered,
                    WardenPassphraseWrong, WardenChallenge, WardenAbort, IInv, TypeOK
  <2>4. ASSUME NEW t \in Sessions, WardenProved(t)', ~WardenProved(t)
        PROVE  wchal'[w] = PublicKey(ePriv[t]) /\ ePriv[t] = NewChallenge(t)
    <3>1. ePriv[t] # Nil
          BY <2>2, <2>4 DEF WardenProved
    <3>2. PICK v \in Answered' : wbin'[v] = vbin[t] /\ wchal'[v] = PublicKey(ePriv[t])
          BY <2>2, <2>4 DEF WardenProved, PublicKey
    <3>3. v = w
          BY <2>3, <2>4, <3>1, <3>2 DEF WardenProved, Answered
    <3> QED BY <1>1, <3>1, <3>2, <3>3, ChallengedSession
  <2>5. ASSUME NEW t \in Sessions, t # s PROVE WardenProved(t)' => WardenProved(t)
    <3>1. NewChallenge(t) # NewChallenge(s)
          BY <2>5 DEF NewChallenge, NewKeyPair
    <3>2. PublicKey(NewChallenge(t)) # PublicKey(NewChallenge(s))
          BY <3>1 DEF PublicKey
    <3> QED BY <2>1, <2>4, <3>2
  <2>6. UnlockProved'[s] = UnlockProved[s] \cup {"warden"}
        BY <1>4, <2>1
  <2>7. ASSUME NEW t \in Sessions, t # s PROVE UnlockProved'[t] = UnlockProved[t]
        BY <1>1, <1>4, <2>5, <2>7, MappedProved
  <2>8. UnlockProved' = [UnlockProved EXCEPT ![s] = @ \cup {"warden"}]
        BY <2>6, <2>7 DEF UnlockProved
  <2>9. UnlockProved[s] = {"password"} /\ UnlockRequired[s] = {"password", "warden"}
    <3>1. TwoFactor(s) /\ meta[s] # Nil /\ vbin[s] # Nil
          BY <1>1, <2>2, ChallengedSession, NilAssumption
    <3> QED BY <1>1, <2>1, <3>1, MappedProved, MappedRequired
  <2> QED BY <1>3, <2>8, <2>9
          DEF AbstractStep, Promise!Next, Promise!Step, Promise!ProveWarden
<1>6. CASE \A s \in Sessions : WardenProved(s)' => WardenProved(s)
  <2>1. \A s \in Sessions : UnlockProved'[s] = UnlockProved[s]
        BY <1>1, <1>4, <1>6, MappedProved
  <2>2. UnlockProved' = UnlockProved
        BY <2>1 DEF UnlockProved
  <2> QED BY <1>3, <2>2 DEF AbstractStep
<1> QED BY <1>5, <1>6

\* Sealing is a stutter.
LEMMA SealRefines ==
    ASSUME FullInv, FullInv', SealStep
    PROVE  AbstractStep
<1>1. [Next]_vars /\ IInv /\ IInv'
      BY DEF Next, FullInv
<1>2. UNCHANGED <<vaultVars, wardenVars>>
      BY DEF SealStep, SealPair
<1>3. UnlockState' = UnlockState
      BY <1>2 DEF UnlockState, vaultVars
<1>4. ASSUME NEW s \in Sessions
      PROVE  UnlockRequired'[s] = UnlockRequired[s] /\ UnlockProved'[s] = UnlockProved[s]
  <2>1. WardenProved(s)' <=> WardenProved(s)
        BY <1>2 DEF WardenProved, Answered, PublicKey, vaultVars, wardenVars
  <2>2. UnlockProved'[s] = UnlockProved[s]
        BY <1>1, <1>2, <2>1, MappedProved DEF vaultVars
  <2>3. CASE vpc[s] = "idle"
        BY <1>1, <1>2, <2>2, <2>3, MappedRequired DEF IInv, SessionInv, vaultVars
  <2>4. CASE vpc[s] # "idle"
        BY <1>1, <2>2, <2>4, RequiredIsSteady
  <2> QED BY <2>3, <2>4
<1>5. UnlockRequired' = UnlockRequired /\ UnlockProved' = UnlockProved
      BY <1>4 DEF UnlockRequired, UnlockProved
<1> QED BY <1>3, <1>5 DEF AbstractStep

\* For any pairs, sessions, wardens and people, what happens is something Unlock
\* allows: no files without every factor, the warden only after the password,
\* and no session that comes back to life.
THEOREM Refinement == Spec => ImplementsUnlock
<1>1. Init => Promise!Init
      BY DEF Init, Promise!Init, UnlockState, UnlockStateAt, UnlockRequired, UnlockProved,
             PasswordProved, WardenProved
<1>2. ASSUME FullInv, FullInv', [Next]_vars
      PROVE  [Promise!Next]_<<UnlockState, UnlockRequired, UnlockProved>>
  <2>1. CASE Next
        BY <1>2, <2>1, SealRefines, VaultRefines, WardenRefines DEF Next, AbstractStep
  <2>2. CASE UNCHANGED vars
        BY <2>2 DEF vars, sealVars, vaultVars, wardenVars, UnlockState, UnlockRequired,
                    UnlockProved, TwoFactor, Sealed, PasswordProved, WardenProved, Answered,
                    PublicKey
  <2> QED BY <1>2, <2>1, <2>2
<1>3. FullInv /\ FullInv' /\ [Next]_vars => [Promise!Next]_(Promise!vars)
      BY <1>2 DEF Promise!vars
<1> QED BY <1>1, <1>3, FullInvariance, PTL DEF Spec, ImplementsUnlock, Promise!Spec
=============================================================================
