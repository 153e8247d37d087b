--------------------------- MODULE CeremonyProofs ---------------------------
(***************************************************************************)
(* Proofs about Ceremony, for every set of pairs, sessions, warden runs    *)
(* and passwords and every number of attempts.                             *)
(***************************************************************************)
EXTENDS Ceremony, FiniteSetTheorems, TLAPS

-----------------------------------------------------------------------------
(* The inductive invariant. *)

VaultsOf(p) ==
    {SealVault(p, pw, noWarden) : pw \in Passwords, noWarden \in BOOLEAN}
WardensOf(p) == {SealWarden(p, pw) : pw \in Passwords}

\* What OpenVaultMeta returns for the password the vault was sealed with.
SealedMeta(vp) ==
    [twoFactor |-> vp.metaCT.plaintext.twoFactor,
     pk        |-> vp.metaCT.plaintext.pk,
     p         |-> vp.metaCT.key,
     assetCT   |-> vp.assetCT]

\* A binary, once written, is the one its seal run made.
BinariesInv ==
    \A p \in Pairs :
        /\ vault[p] # Nil => vault[p] \in VaultsOf(p)
        /\ warden[p] # Nil => warden[p] \in WardensOf(p) /\ vault[p] # Nil

\* How far a session has come, and what it then holds.
SessionInv(s) ==
    /\ vpc[s] = "idle" => vbin[s] = Nil
    /\ vpc[s] # "idle" => vbin[s] \in Pairs /\ vault[vbin[s]] # Nil
    /\ vpc[s] \in {"idle", "password", "response"} => vtries[s] < Attempts
    /\ vpc[s] \in {"idle", "password"} => meta[s] = Nil
    /\ vpc[s] \in {"idle", "password", "meta"} => ePriv[s] = Nil /\ files[s] = Nil
    /\ vpc[s] \in {"meta", "response"} => meta[s] # Nil
    /\ meta[s] # Nil => meta[s] = SealedMeta(vault[vbin[s]])
    /\ vpc[s] = "response" => ePriv[s] # Nil
    /\ ePriv[s] # Nil =>
        ePriv[s] = NewChallenge(s) /\ meta[s] # Nil /\ meta[s].twoFactor
    /\ files[s] # Nil => meta[s] # Nil /\ files[s] = Files(vbin[s])

\* How far a warden run has come, and what it then holds.
WardenInv(w) ==
    /\ wpc[w] # "idle" => wbin[w] \in Pairs /\ warden[wbin[w]] # Nil
    /\ wpc[w] \in {"idle", "passphrase"} => wtries[w] < Attempts
    /\ wpc[w] \in {"challenge", "answered"} => wkey[w] = SealKey(wbin[w])
    /\ wpc[w] = "answered" => wchal[w] \in AllChallenges

IInv ==
    /\ TypeOK
    /\ BinariesInv
    /\ \A s \in Sessions : SessionInv(s)
    /\ \A w \in WardenRuns : WardenInv(w)

-----------------------------------------------------------------------------
(* What sealing and opening return. *)

\* A vault payload has these fields, whichever kind it is.
LEMMA VaultShape ==
    ASSUME NEW p \in Pairs, NEW vp \in VaultsOf(p)
    PROVE  /\ vp \in VaultPayloads
           /\ vp.salt = NewSalt("vault salt", p)
           /\ vp.metaCT.plaintext.twoFactor \in BOOLEAN
           /\ vp.metaCT.plaintext.twoFactor =>
                /\ vp.metaCT.plaintext.pk = PublicKey(SealKey(p))
                /\ vp.assetCT.key = DeriveAssetKey(DeriveShare(SealKey(p)), vp.metaCT.key)
           /\ ~vp.metaCT.plaintext.twoFactor =>
                vp.assetCT.key = DeriveAssetKeySolo(vp.metaCT.key)
           /\ vp.assetCT.plaintext = Files(p)
<1>1. PICK pw \in Passwords, noWarden \in BOOLEAN : vp = SealVault(p, pw, noWarden)
      BY DEF VaultsOf
<1>2. vp \in VaultPayloads
      BY <1>1 DEF VaultPayloads
<1>3. CASE noWarden
      BY <1>1, <1>2, <1>3 DEF SealVault, Seal
<1>4. CASE ~noWarden
      BY <1>1, <1>2, <1>4 DEF SealVault, Seal
<1> QED BY <1>3, <1>4

\* The metadata that opens with the password typed is the sealed metadata, and
\* is what OpenVaultMeta can return.
LEMMA MetaShape ==
    ASSUME NEW p \in Pairs, NEW vp \in VaultsOf(p), NEW pw \in Passwords,
           MetaOpens(vp, pw)
    PROVE  /\ OpenVaultMeta(vp, pw) = SealedMeta(vp)
           /\ OpenVaultMeta(vp, pw) \in Metas
           /\ OpenVaultMeta(vp, pw) # Nil
<1>1. vp \in VaultPayloads
      BY VaultShape
<1>2. OpenVaultMeta(vp, pw) \in Metas
      BY <1>1 DEF Metas
<1>3. OpenVaultMeta(vp, pw) = SealedMeta(vp)
      BY DEF MetaOpens, Opens, OpenVaultMeta, SealedMeta
<1> QED BY <1>2, <1>3, NilAssumption

\* A warden payload gives up the key of its own pair.
LEMMA WardenShape ==
    ASSUME NEW p \in Pairs, NEW wp \in WardensOf(p)
    PROVE  /\ wp \in WardenPayloads
           /\ OpenWarden(wp) = SealKey(p)
<1>1. PICK pw \in Passwords : wp = SealWarden(p, pw)
      BY DEF WardensOf
<1>2. wp \in WardenPayloads
      BY <1>1 DEF WardenPayloads
<1>3. OpenWarden(wp) = SealKey(p)
      BY <1>1 DEF SealWarden, Seal, OpenWarden
<1> QED BY <1>2, <1>3

-----------------------------------------------------------------------------
(* The invariant is inductive. *)

\* Before anything is sealed there is nothing to be wrong.
LEMMA InitIInv == Init => IInv
BY AttemptsAssumption
DEF Init, IInv, TypeOK, BinariesInv, SessionInv, WardenInv, VaultStates, WardenStates

\* Sealing a pair touches no binary that any process runs.
LEMMA SealIInv ==
    ASSUME IInv, NEW p \in Pairs, NEW pw \in Passwords, NEW pass \in Passwords,
           NEW noWarden \in BOOLEAN, SealPair(p, pw, pass, noWarden)
    PROVE  IInv'
<1> USE DEF IInv
<1> DEFINE vp == SealVault(p, pw, noWarden)
           wp == SealWarden(p, pass)
<1>1. vp \in VaultsOf(p) /\ wp \in WardensOf(p)
      BY DEF VaultsOf, WardensOf
<1>2. vp \in VaultPayloads /\ wp \in WardenPayloads
      BY <1>1, VaultShape, WardenShape
<1>3. /\ vault' = [vault EXCEPT ![p] = vp]
      /\ warden' = [warden EXCEPT ![p] = IF noWarden THEN Nil ELSE wp]
      /\ vault[p] = Nil
      /\ UNCHANGED <<vaultVars, wardenVars>>
      BY DEF SealPair
<1> HIDE DEF vp, wp
<1>4. TypeOK'
      BY <1>2, <1>3 DEF TypeOK, vaultVars, wardenVars
<1>5. vp # Nil
      BY <1>2, NilAssumption
<1>6. BinariesInv'
      BY <1>1, <1>3, <1>5 DEF TypeOK, BinariesInv
<1>7. ASSUME NEW s \in Sessions PROVE SessionInv(s)'
  <2>1. vpc[s] # "idle" => vbin[s] # p
        BY <1>3 DEF SessionInv
  <2>2. vpc[s] # "idle" => vault'[vbin[s]] = vault[vbin[s]]
        BY <1>3, <2>1 DEF SessionInv, TypeOK
  <2>3. meta[s] # Nil => vpc[s] # "idle"
        BY DEF SessionInv
  <2> QED BY <1>3, <2>2, <2>3 DEF SessionInv, vaultVars
<1>8. ASSUME NEW w \in WardenRuns PROVE WardenInv(w)'
  <2>1. \A q \in Pairs : warden[q] # Nil => warden'[q] = warden[q]
        BY <1>3 DEF TypeOK, BinariesInv
  <2> QED BY <1>3, <2>1 DEF WardenInv, wardenVars
<1> QED BY <1>4, <1>6, <1>7, <1>8

\* A vault step of session s leaves every other session as it was.
LEMMA VaultIInv ==
    ASSUME IInv, NEW s \in Sessions, VaultStep(s)
    PROVE  IInv'
<1> USE DEF IInv
<1>1. ASSUME NEW p \in Pairs, VaultStart(s, p) PROVE IInv'
  <2>1. TypeOK'
        BY <1>1 DEF VaultStart, TypeOK, VaultStates, sealVars, wardenVars
  <2>2. ASSUME NEW t \in Sessions PROVE SessionInv(t)'
        BY <1>1, AttemptsAssumption
        DEF VaultStart, TypeOK, SessionInv, sealVars
  <2> QED BY <1>1, <2>1, <2>2 DEF VaultStart, BinariesInv, WardenInv, sealVars, wardenVars
<1>2. ASSUME NEW pw \in Passwords, VaultPasswordRight(s, pw) PROVE IInv'
  <2>1. vault[vbin[s]] \in VaultsOf(vbin[s]) /\ vbin[s] \in Pairs
        BY <1>2 DEF VaultPasswordRight, SessionInv, BinariesInv
  <2>2. LET m == OpenVaultMeta(vault[vbin[s]], pw)
        IN  m = SealedMeta(vault[vbin[s]]) /\ m \in Metas /\ m # Nil
        BY <1>2, <2>1, MetaShape DEF VaultPasswordRight
  <2>3. TypeOK'
        BY <1>2, <2>2 DEF VaultPasswordRight, TypeOK, VaultStates, sealVars, wardenVars
  <2>4. ASSUME NEW t \in Sessions PROVE SessionInv(t)'
        BY <1>2, <2>2 DEF VaultPasswordRight, TypeOK, SessionInv, sealVars
  <2> QED BY <1>2, <2>3, <2>4 DEF VaultPasswordRight, BinariesInv, WardenInv, sealVars, wardenVars
<1>3. ASSUME NEW pw \in Passwords, VaultPasswordWrong(s, pw) PROVE IInv'
  <2>1. vtries[s] \in 0..Attempts /\ vtries[s] < Attempts
        BY <1>3 DEF VaultPasswordWrong, SessionInv, TypeOK
  <2>2. vtries[s] + 1 \in 0..Attempts /\ (LastAttempt(vtries[s]) \/ vtries[s] + 1 < Attempts)
        BY <2>1, AttemptsAssumption DEF LastAttempt
  <2>3. TypeOK'
        BY <1>3, <2>2 DEF VaultPasswordWrong, TypeOK, VaultStates, sealVars, wardenVars
  <2>4. ASSUME NEW t \in Sessions PROVE SessionInv(t)'
        BY <1>3, <2>2 DEF VaultPasswordWrong, TypeOK, SessionInv, sealVars
  <2> QED BY <1>3, <2>3, <2>4 DEF VaultPasswordWrong, BinariesInv, WardenInv, sealVars, wardenVars
<1>4. ASSUME VaultChallenge(s) PROVE IInv'
  <2>1. NewChallenge(s) \in EphemeralKeys /\ NewChallenge(s) # Nil
        BY NilAssumption DEF EphemeralKeys
  <2>2. TypeOK'
        BY <1>4, <2>1, AttemptsAssumption
        DEF VaultChallenge, TypeOK, VaultStates, sealVars, wardenVars
  <2>3. ASSUME NEW t \in Sessions PROVE SessionInv(t)'
        BY <1>4, <2>1, AttemptsAssumption DEF VaultChallenge, TypeOK, SessionInv, sealVars
  <2> QED BY <1>4, <2>2, <2>3 DEF VaultChallenge, BinariesInv, WardenInv, sealVars, wardenVars
<1>5. ASSUME vpc[s] \in {"meta", "response"} PROVE Assets(meta[s]) = Files(vbin[s])
  <2>1. /\ vbin[s] \in Pairs /\ vault[vbin[s]] \in VaultsOf(vbin[s])
        /\ meta[s] = SealedMeta(vault[vbin[s]])
        BY <1>5 DEF SessionInv, BinariesInv
  <2>2. vault[vbin[s]].assetCT.plaintext = Files(vbin[s])
        BY <2>1, VaultShape
  <2> QED BY <2>1, <2>2 DEF SealedMeta, Assets
<1>6. ASSUME vpc[s] \in {"meta", "response"} PROVE Assets(meta[s]) \in AllFiles
  <2>1. vbin[s] \in Pairs
        BY <1>6 DEF SessionInv
  <2> QED BY <1>5, <1>6, <2>1 DEF AllFiles
<1>7. ASSUME VaultSolo(s) PROVE IInv'
  <2>1. TypeOK'
        BY <1>6, <1>7 DEF VaultSolo, TypeOK, VaultStates, sealVars, wardenVars
  <2>2. ASSUME NEW t \in Sessions PROVE SessionInv(t)'
        BY <1>5, <1>7 DEF VaultSolo, TypeOK, SessionInv, sealVars
  <2> QED BY <1>7, <2>1, <2>2 DEF VaultSolo, BinariesInv, WardenInv, sealVars, wardenVars
<1>8. ASSUME NEW r, VaultResponseRight(s, r) PROVE IInv'
  <2>1. TypeOK'
        BY <1>6, <1>8 DEF VaultResponseRight, TypeOK, VaultStates, sealVars, wardenVars
  <2>2. ASSUME NEW t \in Sessions PROVE SessionInv(t)'
        BY <1>5, <1>8 DEF VaultResponseRight, TypeOK, SessionInv, sealVars
  <2> QED BY <1>8, <2>1, <2>2 DEF VaultResponseRight, BinariesInv, WardenInv, sealVars, wardenVars
<1>9. ASSUME NEW r, VaultResponseWrong(s, r) PROVE IInv'
  <2>1. vtries[s] \in 0..Attempts /\ vtries[s] < Attempts
        BY <1>9 DEF VaultResponseWrong, SessionInv, TypeOK
  <2>2. vtries[s] + 1 \in 0..Attempts /\ (LastAttempt(vtries[s]) \/ vtries[s] + 1 < Attempts)
        BY <2>1, AttemptsAssumption DEF LastAttempt
  <2>3. TypeOK'
        BY <1>9, <2>2 DEF VaultResponseWrong, TypeOK, VaultStates, sealVars, wardenVars
  <2>4. ASSUME NEW t \in Sessions PROVE SessionInv(t)'
        BY <1>9, <2>2 DEF VaultResponseWrong, TypeOK, SessionInv, sealVars
  <2> QED BY <1>9, <2>3, <2>4 DEF VaultResponseWrong, BinariesInv, WardenInv, sealVars, wardenVars
<1>10. ASSUME VaultServe(s) \/ VaultStop(s) \/ VaultAbort(s) PROVE IInv'
  <2>1. TypeOK'
        BY <1>10
        DEF VaultServe, VaultStop, VaultAbort, TypeOK, VaultStates, sealVars, wardenVars
  <2>2. ASSUME NEW t \in Sessions PROVE SessionInv(t)'
        BY <1>10 DEF VaultServe, VaultStop, VaultAbort, TypeOK, SessionInv, sealVars
  <2> QED BY <1>10, <2>1, <2>2
          DEF VaultServe, VaultStop, VaultAbort, BinariesInv, WardenInv, sealVars, wardenVars
<1> QED BY <1>1, <1>2, <1>3, <1>4, <1>7, <1>8, <1>9, <1>10 DEF VaultStep

\* A warden run keeps it, and holds the key of the pair it was started from.
LEMMA WardenIInv ==
    ASSUME IInv, NEW w \in WardenRuns, WardenStep(w)
    PROVE  IInv'
<1> USE DEF IInv
<1>1. ASSUME NEW p \in Pairs, WardenStart(w, p) PROVE IInv'
  <2>1. OpenWarden(warden[p]) = SealKey(p) /\ SealKey(p) \in SealKeys
        BY <1>1, WardenShape DEF WardenStart, BinariesInv, SealKeys
  <2>2. TypeOK'
        BY <1>1, <2>1 DEF WardenStart, TypeOK, WardenStates, sealVars, vaultVars
  <2>3. ASSUME NEW v \in WardenRuns PROVE WardenInv(v)'
        BY <1>1, <2>1, AttemptsAssumption DEF WardenStart, TypeOK, WardenInv, sealVars
  <2> QED BY <1>1, <2>2, <2>3 DEF WardenStart, BinariesInv, SessionInv, sealVars, vaultVars
<1>2. ASSUME NEW pass \in Passwords, WardenPassphraseRight(w, pass) PROVE IInv'
  <2>1. wbin[w] \in Pairs /\ warden[wbin[w]] # Nil
        BY <1>2 DEF WardenPassphraseRight, WardenInv
  <2>2. OpenWarden(warden[wbin[w]]) = SealKey(wbin[w]) /\ SealKey(wbin[w]) \in SealKeys
        BY <2>1, WardenShape DEF BinariesInv, SealKeys
  <2>3. TypeOK'
        BY <1>2, <2>2 DEF WardenPassphraseRight, TypeOK, WardenStates, sealVars, vaultVars
  <2>4. ASSUME NEW v \in WardenRuns PROVE WardenInv(v)'
        BY <1>2, <2>2 DEF WardenPassphraseRight, TypeOK, WardenInv, sealVars
  <2> QED BY <1>2, <2>3, <2>4 DEF WardenPassphraseRight, BinariesInv, SessionInv, sealVars, vaultVars
<1>3. ASSUME NEW pass \in Passwords, WardenPassphraseWrong(w, pass) PROVE IInv'
  <2>1. wtries[w] \in 0..Attempts /\ wtries[w] < Attempts
        BY <1>3 DEF WardenPassphraseWrong, WardenInv, TypeOK
  <2>2. wtries[w] + 1 \in 0..Attempts /\ (LastAttempt(wtries[w]) \/ wtries[w] + 1 < Attempts)
        BY <2>1, AttemptsAssumption DEF LastAttempt
  <2>3. TypeOK'
        BY <1>3, <2>2 DEF WardenPassphraseWrong, TypeOK, WardenStates, sealVars, vaultVars
  <2>4. ASSUME NEW v \in WardenRuns PROVE WardenInv(v)'
        BY <1>3, <2>2 DEF WardenPassphraseWrong, TypeOK, WardenInv, sealVars
  <2> QED BY <1>3, <2>3, <2>4 DEF WardenPassphraseWrong, BinariesInv, SessionInv, sealVars, vaultVars
<1>4. ASSUME NEW c \in Challenges \cup {GarbledChallenge, LowOrderPoint}, WardenChallenge(w, c)
      PROVE IInv'
  <2>1. c \in AllChallenges
        BY DEF Challenges, AllChallenges, TypeOK
  <2>2. TypeOK'
        BY <1>4, <2>1 DEF WardenChallenge, TypeOK, WardenStates, sealVars, vaultVars
  <2>3. ASSUME NEW v \in WardenRuns PROVE WardenInv(v)'
        BY <1>4, <2>1 DEF WardenChallenge, TypeOK, WardenInv, sealVars
  <2> QED BY <1>4, <2>2, <2>3 DEF WardenChallenge, BinariesInv, SessionInv, sealVars, vaultVars
<1>5. ASSUME WardenAbort(w) PROVE IInv'
  <2>1. TypeOK'
        BY <1>5 DEF WardenAbort, TypeOK, WardenStates, sealVars, vaultVars
  <2>2. ASSUME NEW v \in WardenRuns PROVE WardenInv(v)'
        BY <1>5 DEF WardenAbort, TypeOK, WardenInv, sealVars
  <2> QED BY <1>5, <2>1, <2>2 DEF WardenAbort, BinariesInv, SessionInv, sealVars, vaultVars
<1> QED BY <1>1, <1>2, <1>3, <1>4, <1>5 DEF WardenStep

\* So does every step.
LEMMA NextIInv == IInv /\ [Next]_vars => IInv'
<1> SUFFICES ASSUME IInv, [Next]_vars PROVE IInv'
    OBVIOUS
<1>1. CASE SealStep
      BY <1>1, SealIInv DEF SealStep
<1>2. CASE \E s \in Sessions : VaultStep(s)
      BY <1>2, VaultIInv
<1>3. CASE \E w \in WardenRuns : WardenStep(w)
      BY <1>3, WardenIInv
<1>4. CASE UNCHANGED vars
      BY <1>4
      DEF IInv, TypeOK, BinariesInv, SessionInv, WardenInv, vars, sealVars, vaultVars, wardenVars
<1> QED BY <1>1, <1>2, <1>3, <1>4 DEF Next

\* What the proofs of the properties rest on holds in every reachable state.
THEOREM Invariance == Spec => []IInv
BY InitIInv, NextIInv, PTL DEF Spec

\* Type correctness of the ceremony: each process holds, at each point of the
\* code, what the code expects there.
THEOREM TypeCorrect == Spec => []TypeOK
<1>1. IInv => TypeOK
      BY DEF IInv
<1> QED BY <1>1, Invariance, PTL

-----------------------------------------------------------------------------
(* The answer that opens a vault. *)

\* Masking the share of a with the pad of b and unmasking it with the pad of c
\* gives the share of d.
Unmasks(a, b, c, d) ==
    Xor(Xor({<<"asset-share", a>>}, {<<"response-pad", b>>}),
        {<<"response-pad", c>>}) = {<<"asset-share", d>>}

\* The pad comes off only if it is the pad that was put on, and what is left is
\* the share of p only if it is the share of the warden that answered.
LEMMA UnmaskedShare == \A a, b, c, d : Unmasks(a, b, c, d) => b = c /\ a = d
<1> SUFFICES ASSUME NEW a, NEW b, NEW c, NEW d, Unmasks(a, b, c, d)
             PROVE  b = c /\ a = d
    OBVIOUS
<1> DEFINE X == Xor({<<"asset-share", a>>}, {<<"response-pad", b>>})
           Y == Xor(X, {<<"response-pad", c>>})
<1>1. <<"response-pad", b>> \in X /\ <<"asset-share", a>> \in X
      BY DEF Xor
<1>2. Y = {<<"asset-share", d>>}
      BY DEF Unmasks
<1>3. <<"response-pad", b>> \notin Y
      BY <1>2
<1>4. <<"response-pad", b>> \in {<<"response-pad", c>>}
  <2> HIDE DEF X
  <2> QED BY <1>1, <1>3 DEF Xor
<1>5. <<"asset-share", a>> \in Y
  <2> HIDE DEF X
  <2> QED BY <1>1 DEF Xor
<1> QED BY <1>2, <1>4, <1>5

\* Two Diffie-Hellman secrets are equal only if the keys are the same: a warden
\* of p has the secret of session s only from the challenge of s.
LEMMA MatchingSecret ==
    ASSUME NEW p, NEW s \in Sessions, NEW c \in AllChallenges,
           ECDH(SealKey(p), c) = ECDH(NewChallenge(s), PublicKey(SealKey(p)))
    PROVE  c = PublicKey(NewChallenge(s))
<1>1. NewChallenge(s) \in {SealKey(p), c[2]}
      BY DEF ECDH, PublicKey
<1>2. NewChallenge(s) = c[2]
      BY <1>1 DEF NewChallenge, SealKey, NewKeyPair
<1>3. PICK k : c = PublicKey(k)
      BY DEF AllChallenges, GarbledChallenge, LowOrderPoint
<1>4. c[2] = k
      BY <1>3 DEF PublicKey
<1> QED BY <1>2, <1>3, <1>4

\* A response opens the assets of p in session s only if a warden of p made it
\* for the challenge of s.
LEMMA OnlyOwnAnswer ==
    ASSUME NEW p, NEW q, NEW s \in Sessions, NEW c \in AllChallenges,
           RecoverShare(NewChallenge(s), PublicKey(SealKey(p)), Respond(SealKey(q), c))
               = DeriveShare(SealKey(p))
    PROVE  q = p /\ c = PublicKey(NewChallenge(s))
<1> DEFINE asked == ECDH(SealKey(q), c)
           own == ECDH(NewChallenge(s), PublicKey(SealKey(p)))
<1>1. Unmasks(SealKey(q), asked, own, SealKey(p))
      BY DEF Unmasks, RecoverShare, Respond, DeriveShare, ResponsePad
<1>2. asked = own /\ SealKey(q) = SealKey(p)
      BY <1>1, UnmaskedShare
<1>3. q = p
      BY <1>2 DEF SealKey, NewKeyPair
<1> QED BY <1>2, <1>3, MatchingSecret

\* And that answer does open them.
LEMMA OwnAnswer ==
    ASSUME NEW p, NEW s
    PROVE  RecoverShare(NewChallenge(s), PublicKey(SealKey(p)),
                        Respond(SealKey(p), PublicKey(NewChallenge(s))))
               = DeriveShare(SealKey(p))
<1>1. ECDH(SealKey(p), PublicKey(NewChallenge(s)))
          = ECDH(NewChallenge(s), PublicKey(SealKey(p)))
      BY DEF ECDH, PublicKey
<1>2. ASSUME NEW A, NEW B PROVE Xor(Xor(A, B), B) = A
      BY DEF Xor
<1> QED BY <1>1, <1>2 DEF RecoverShare, Respond

\* A garbled response opens nothing.
LEMMA GarbledOpensNothing ==
    ASSUME NEW p, NEW e, NEW k
    PROVE  RecoverShare(e, k, GarbledResponse) # DeriveShare(SealKey(p))
<1>1. <<"garbled">> \in RecoverShare(e, k, GarbledResponse)
      BY DEF RecoverShare, GarbledResponse, Xor, ResponsePad
<1>2. <<"garbled">> \notin DeriveShare(SealKey(p))
      BY DEF DeriveShare
<1> QED BY <1>1, <1>2

-----------------------------------------------------------------------------
(* What follows from the invariant in every state. *)

\* The metadata a session with a challenge holds.
LEMMA ChallengedSession ==
    ASSUME IInv, NEW s \in Sessions, ePriv[s] # Nil
    PROVE  /\ vbin[s] \in Pairs
           /\ ePriv[s] = NewChallenge(s)
           /\ TwoFactor(s) /\ meta[s].twoFactor
           /\ meta[s] # Nil
           /\ meta[s].pk = PublicKey(SealKey(vbin[s]))
           /\ meta[s].p = Sealed(s).metaCT.key
           /\ meta[s].assetCT.key
                  = DeriveAssetKey(DeriveShare(SealKey(vbin[s])), meta[s].p)
<1>1. /\ meta[s] # Nil /\ meta[s].twoFactor /\ ePriv[s] = NewChallenge(s)
      /\ meta[s] = SealedMeta(vault[vbin[s]])
      BY DEF IInv, SessionInv
<1>2. vbin[s] \in Pairs /\ vault[vbin[s]] # Nil
      BY <1>1 DEF IInv, SessionInv
<1>3. vault[vbin[s]] \in VaultsOf(vbin[s])
      BY <1>2 DEF IInv, BinariesInv
<1>4. /\ meta[s].twoFactor = vault[vbin[s]].metaCT.plaintext.twoFactor
      /\ meta[s].pk = vault[vbin[s]].metaCT.plaintext.pk
      /\ meta[s].p = vault[vbin[s]].metaCT.key
      /\ meta[s].assetCT = vault[vbin[s]].assetCT
  <2>1. \A vp : /\ SealedMeta(vp).twoFactor = vp.metaCT.plaintext.twoFactor
                /\ SealedMeta(vp).pk = vp.metaCT.plaintext.pk
                /\ SealedMeta(vp).p = vp.metaCT.key
                /\ SealedMeta(vp).assetCT = vp.assetCT
        BY DEF SealedMeta
  <2> QED BY <1>1, <2>1, Zenon
<1>5. /\ vault[vbin[s]].metaCT.plaintext.pk = PublicKey(SealKey(vbin[s]))
      /\ vault[vbin[s]].assetCT.key = DeriveAssetKey(DeriveShare(SealKey(vbin[s])),
                                                     vault[vbin[s]].metaCT.key)
      BY <1>1, <1>2, <1>3, <1>4, VaultShape
<1> QED BY <1>1, <1>2, <1>4, <1>5 DEF TwoFactor, Sealed

\* Opening the assets is recovering the share of the session's own pair.
LEMMA OpeningIsRecovering ==
    ASSUME IInv, NEW s \in Sessions, ePriv[s] # Nil
    PROVE  \A r : AssetsOpen(meta[s], ePriv[s], r) <=>
                 RecoverShare(NewChallenge(s), PublicKey(SealKey(vbin[s])), r)
                     = DeriveShare(SealKey(vbin[s]))
BY ChallengedSession DEF AssetsOpen, Opens, DeriveAssetKey

\* The response of an answered run is its pair's answer to its challenge.
LEMMA AnsweredRun ==
    ASSUME IInv, NEW w \in Answered
    PROVE  /\ w \in WardenRuns /\ wbin[w] \in Pairs
           /\ wchal[w] \in AllChallenges
           /\ Response(w) = Respond(SealKey(wbin[w]), wchal[w])
BY DEF IInv, WardenInv, Answered, Response

\* A response that opens a session's assets is its own warden's, to its own
\* challenge.
LEMMA OpeningResponse ==
    ASSUME IInv, NEW s \in Sessions, ePriv[s] # Nil, NEW w \in Answered,
           AssetsOpen(meta[s], ePriv[s], Response(w))
    PROVE  wbin[w] = vbin[s] /\ wchal[w] = PublicKey(ePriv[s])
<1>1. RecoverShare(NewChallenge(s), PublicKey(SealKey(vbin[s])), Response(w))
          = DeriveShare(SealKey(vbin[s]))
      BY OpeningIsRecovering
<1>2. /\ wchal[w] \in AllChallenges
      /\ Response(w) = Respond(SealKey(wbin[w]), wchal[w])
      BY AnsweredRun
<1>3. wbin[w] = vbin[s] /\ wchal[w] = PublicKey(NewChallenge(s))
      BY <1>1, <1>2, OnlyOwnAnswer
<1> QED BY <1>3, ChallengedSession

\* No response opens two sessions.
THEOREM OneSession == Spec => []ResponseIsForOneSession
<1>1. ASSUME IInv PROVE ResponseIsForOneSession
  <2> SUFFICES ASSUME NEW w \in Answered, NEW s \in Sessions, NEW t \in Sessions,
                      ePriv[s] # Nil, AssetsOpen(meta[s], ePriv[s], Response(w)),
                      ePriv[t] # Nil, AssetsOpen(meta[t], ePriv[t], Response(w))
               PROVE  s = t
      BY DEF ResponseIsForOneSession, Responses
  <2>1. PublicKey(ePriv[s]) = PublicKey(ePriv[t])
        BY <1>1, OpeningResponse
  <2>2. ePriv[s] = NewChallenge(s) /\ ePriv[t] = NewChallenge(t)
        BY <1>1, ChallengedSession
  <2>3. ePriv[s] = ePriv[t]
        BY <2>1 DEF PublicKey
  <2>4. NewChallenge(s) = NewChallenge(t)
        BY <2>2, <2>3
  <2> QED BY <2>4 DEF NewChallenge, NewKeyPair
<1> QED BY <1>1, Invariance, PTL

\* The right warden's answer is never refused.
THEOREM Completeness == Spec => []AnsweredMeansOpenable
<1>1. ASSUME IInv PROVE AnsweredMeansOpenable
  <2> SUFFICES ASSUME NEW s \in Sessions, ePriv[s] # Nil, NEW w \in Answered,
                      wbin[w] = vbin[s], wchal[w] = PublicKey(ePriv[s])
               PROVE  AssetsOpen(meta[s], ePriv[s], Response(w))
      BY DEF AnsweredMeansOpenable
  <2>1. Response(w) = Respond(SealKey(vbin[s]), PublicKey(NewChallenge(s)))
        BY <1>1, AnsweredRun, ChallengedSession
  <2>2. RecoverShare(NewChallenge(s), PublicKey(SealKey(vbin[s])), Response(w))
            = DeriveShare(SealKey(vbin[s]))
        BY <2>1, OwnAnswer
  <2> QED BY <1>1, <2>2, OpeningIsRecovering
<1> QED BY <1>1, Invariance, PTL

\* No challenge, garbled ones included, has a warden's key in it, so a pad tells
\* which warden made it and for which challenge.
LEMMA PadsDiffer ==
    ASSUME NEW p, NEW q, NEW c \in AllChallenges, NEW d \in AllChallenges,
           ResponsePad(ECDH(SealKey(p), c)) = ResponsePad(ECDH(SealKey(q), d))
    PROVE  p = q /\ c = d
<1>1. ECDH(SealKey(p), c) = ECDH(SealKey(q), d)
  <2>1. <<"response-pad", ECDH(SealKey(p), c)>> = <<"response-pad", ECDH(SealKey(q), d)>>
        BY DEF ResponsePad
  <2> QED BY <2>1
<1>2. ASSUME NEW e \in AllChallenges
      PROVE  e = PublicKey(e[2]) /\ \A x : e[2] # SealKey(x)
  <2>1. \E use \in {"ephemeral", "none"} : \E owner : e = PublicKey(<<use, owner>>)
    <3>1. CASE e = GarbledChallenge
          BY <3>1 DEF GarbledChallenge
    <3>2. CASE e = LowOrderPoint
          BY <3>2 DEF LowOrderPoint
    <3>3. CASE \E s \in Sessions : e = PublicKey(NewChallenge(s))
          BY <3>3 DEF NewChallenge, NewKeyPair
    <3> QED BY <3>1, <3>2, <3>3 DEF AllChallenges, EphemeralKeys
  <2>2. PICK use \in {"ephemeral", "none"} : \E owner : e = PublicKey(<<use, owner>>)
        BY <2>1
  <2>3. PICK owner : e = PublicKey(<<use, owner>>)
        BY <2>2
  <2>4. e[2] = <<use, owner>> /\ e = PublicKey(e[2])
        BY <2>3 DEF PublicKey
  <2> QED BY <2>4 DEF SealKey, NewKeyPair
<1>3. SealKey(p) \in {SealKey(q), d[2]} /\ c[2] \in {SealKey(q), d[2]}
      BY <1>1 DEF ECDH
<1>4. SealKey(p) = SealKey(q) /\ c[2] = d[2]
      BY <1>2, <1>3
<1> QED BY <1>2, <1>4 DEF SealKey, NewKeyPair

\* A response is a share and its pad, which is in no other response: no XOR of
\* responses gets rid of it.
THEOREM SharesMasked == Spec => []SharesStayMasked
<1>1. ASSUME IInv PROVE SharesStayMasked
  <2> SUFFICES ASSUME NEW R \in SUBSET Responses, NEW p \in Pairs,
                      XorAll(R) = DeriveShare(SealKey(p))
               PROVE  FALSE
      BY DEF SharesStayMasked
  <2> DEFINE share == <<"asset-share", SealKey(p)>>
  <2>1. PICK r \in R : share \in r
    <3>1. share \in XorAll(R)
          BY DEF DeriveShare
    <3> QED BY <3>1 DEF XorAll
  <2>2. PICK w \in Answered : r = Response(w)
        BY DEF Responses
  <2>3. wchal[w] \in AllChallenges /\ r = Respond(SealKey(wbin[w]), wchal[w])
        BY <1>1, <2>2, AnsweredRun
  <2> DEFINE pad == <<"response-pad", ECDH(SealKey(wbin[w]), wchal[w])>>
  <2>4. pad \in r
    <3>1. pad \notin DeriveShare(SealKey(wbin[w])) /\ pad \in ResponsePad(ECDH(SealKey(wbin[w]), wchal[w]))
          BY DEF DeriveShare, ResponsePad
    <3> QED BY <2>3, <3>1 DEF Respond, Xor
  <2>5. ASSUME NEW t \in R, pad \in t PROVE t = r
    <3>1. PICK v \in Answered : t = Response(v)
          BY DEF Responses
    <3>2. wchal[v] \in AllChallenges /\ t = Respond(SealKey(wbin[v]), wchal[v])
          BY <1>1, <3>1, AnsweredRun
    <3>3. pad \notin DeriveShare(SealKey(wbin[v]))
          BY DEF DeriveShare
    <3>4. pad \in ResponsePad(ECDH(SealKey(wbin[v]), wchal[v]))
          BY <2>5, <3>2, <3>3 DEF Respond, Xor
    <3>5. ResponsePad(ECDH(SealKey(wbin[w]), wchal[w]))
              = ResponsePad(ECDH(SealKey(wbin[v]), wchal[v]))
          BY <3>4 DEF ResponsePad
    <3>6. wbin[w] = wbin[v] /\ wchal[w] = wchal[v]
          BY <2>3, <3>2, <3>5, PadsDiffer
    <3> QED BY <2>3, <3>2, <3>6
  <2>6. Cardinality({t \in R : pad \in t}) = 1
    <3>1. {t \in R : pad \in t} = {r}
          BY <2>4, <2>5
    <3> QED BY <3>1, FS_Singleton
  <2>7. pad \in XorAll(R)
    <3>1. pad \in UNION R
          BY <2>4
    <3>2. Cardinality({t \in R : pad \in t}) % 2 = 1
          BY <2>6
    <3> QED BY <3>1, <3>2 DEF XorAll
  <2>8. pad \notin DeriveShare(SealKey(p))
        BY DEF DeriveShare
  <2> QED BY <2>7, <2>8
<1> QED BY <1>1, Invariance, PTL

\* A challenge on the screen means the sealed password was typed.
THEOREM PasswordFirst == Spec => []WrongPasswordShowsNoChallenge
<1>1. IInv => WrongPasswordShowsNoChallenge
      BY ChallengedSession DEF WrongPasswordShowsNoChallenge, PasswordProved
<1> QED BY <1>1, Invariance, PTL

-----------------------------------------------------------------------------
(* What a step does not undo. *)

\* A session keeps its binary, and its challenge once it has one.
LEMMA SessionsAreSteady ==
    ASSUME IInv, [Next]_vars, NEW s \in Sessions, vpc[s] # "idle"
    PROVE  /\ vbin'[s] = vbin[s]
           /\ vault'[vbin[s]] = vault[vbin[s]]
           /\ meta[s] # Nil => meta'[s] = meta[s]
           /\ ePriv[s] # Nil => ePriv'[s] = ePriv[s]
<1> USE DEF IInv
<1>1. CASE SealStep
  <2>1. PICK p \in Pairs, pw, pass \in Passwords, noWarden \in BOOLEAN :
            SealPair(p, pw, pass, noWarden)
        BY <1>1 DEF SealStep
  <2>2. vbin[s] # p
        BY <2>1 DEF SealPair, SessionInv
  <2> QED BY <2>1, <2>2 DEF SealPair, SessionInv, TypeOK, vaultVars
<1>2. CASE \E t \in Sessions : VaultStep(t)
  <2>1. PICK t \in Sessions : VaultStep(t)
        BY <1>2
  <2> USE DEF TypeOK, SessionInv, sealVars
  <2>2. ASSUME NEW p \in Pairs, VaultStart(t, p)
        PROVE  vbin'[s] = vbin[s] /\ UNCHANGED <<vault, meta, ePriv>>
        BY <2>2 DEF VaultStart
  <2>3. ASSUME NEW pw \in Passwords, VaultPasswordRight(t, pw)
        PROVE  /\ UNCHANGED <<vault, vbin, ePriv>>
               /\ meta[s] # Nil => meta'[s] = meta[s]
        BY <2>3 DEF VaultPasswordRight
  <2>4. ASSUME VaultChallenge(t)
        PROVE  /\ UNCHANGED <<vault, vbin, meta>>
               /\ ePriv[s] # Nil => ePriv'[s] = ePriv[s]
        BY <2>4 DEF VaultChallenge
  <2>5. ASSUME \/ \E pw \in Passwords : VaultPasswordWrong(t, pw)
               \/ VaultSolo(t) \/ VaultServe(t) \/ VaultStop(t) \/ VaultAbort(t)
               \/ \E r : VaultResponseRight(t, r) \/ VaultResponseWrong(t, r)
        PROVE  UNCHANGED <<vault, vbin, meta, ePriv>>
        BY <2>5 DEF VaultPasswordWrong, VaultSolo, VaultServe, VaultStop, VaultAbort,
                    VaultResponseRight, VaultResponseWrong
  <2> QED BY <2>1, <2>2, <2>3, <2>4, <2>5 DEF VaultStep
<1>3. CASE \E w \in WardenRuns : WardenStep(w)
      BY <1>3 DEF WardenStep, WardenStart, WardenPassphraseRight, WardenPassphraseWrong,
                  WardenChallenge, WardenAbort, sealVars, vaultVars
<1>4. CASE UNCHANGED vars
      BY <1>4 DEF vars, sealVars, vaultVars
<1> QED BY <1>1, <1>2, <1>3, <1>4 DEF Next

\* What a warden has answered stays on its screen.
LEMMA AnswersAreSteady ==
    ASSUME IInv, [Next]_vars, NEW w \in Answered
    PROVE  w \in Answered' /\ wbin'[w] = wbin[w] /\ wchal'[w] = wchal[w]
<1> USE DEF IInv, Answered
<1>1. CASE SealStep
      BY <1>1 DEF SealStep, SealPair, wardenVars
<1>2. CASE \E s \in Sessions : VaultStep(s)
      BY <1>2 DEF VaultStep, VaultStart, VaultPasswordRight, VaultPasswordWrong,
                  VaultChallenge, VaultSolo, VaultResponseRight, VaultResponseWrong,
                  VaultServe, VaultStop, VaultAbort, wardenVars
<1>3. CASE \E v \in WardenRuns : WardenStep(v)
      BY <1>3 DEF WardenStep, WardenStart, WardenPassphraseRight, WardenPassphraseWrong,
                  WardenChallenge, WardenAbort, TypeOK
<1>4. CASE UNCHANGED vars
      BY <1>4 DEF vars, wardenVars
<1> QED BY <1>1, <1>2, <1>3, <1>4 DEF Next

\* A factor once proved to a session stays proved.
LEMMA FactorsAreSteady ==
    ASSUME IInv, [Next]_vars, NEW s \in Sessions, vpc[s] # "idle"
    PROVE  /\ TwoFactor(s)' = TwoFactor(s)
           /\ PasswordProved(s) => PasswordProved(s)'
           /\ WardenProved(s) => WardenProved(s)'
<1>1. Sealed(s)' = Sealed(s)
      BY SessionsAreSteady DEF Sealed
<1>2. TwoFactor(s)' = TwoFactor(s)
      BY <1>1 DEF TwoFactor
<1>3. PasswordProved(s) => PasswordProved(s)'
      BY <1>1, SessionsAreSteady DEF PasswordProved
<1>4. ASSUME WardenProved(s) PROVE WardenProved(s)'
  <2>1. PICK w \in Answered : wbin[w] = vbin[s] /\ wchal[w] = PublicKey(ePriv[s])
        BY <1>4 DEF WardenProved
  <2>2. ePriv[s] # Nil /\ ePriv'[s] = ePriv[s] /\ vbin'[s] = vbin[s]
        BY <1>4, SessionsAreSteady DEF WardenProved
  <2> QED BY <2>1, <2>2, AnswersAreSteady DEF WardenProved, PublicKey
<1> QED BY <1>2, <1>3, <1>4

-----------------------------------------------------------------------------
(* Files are released only for the factors the vault was sealed with. *)

\* The warden's half of BothFactors; the rest is part of IInv.
WardenFactor ==
    \A s \in Sessions : files[s] # Nil => (TwoFactor(s) => WardenProved(s))

\* The only steps that put files into memory are OpenAssets, which only the
\* session's own answer gets through, and OpenAssetsSolo, which refuses a
\* two-factor vault.
LEMMA WardenFactorStep == IInv /\ WardenFactor /\ [Next]_vars => WardenFactor'
<1> SUFFICES ASSUME IInv, WardenFactor, [Next]_vars, NEW s \in Sessions,
                    files'[s] # Nil, TwoFactor(s)'
             PROVE  WardenProved(s)'
    BY DEF WardenFactor
<1>1. CASE files[s] # Nil
  <2>1. vpc[s] # "idle"
        BY <1>1 DEF IInv, SessionInv
  <2> QED BY <1>1, <2>1, FactorsAreSteady DEF WardenFactor
<1>2. CASE files[s] = Nil
  <2>1. PICK t \in Sessions : VaultStep(t) /\ files' # files
    <3>1. ASSUME SealStep PROVE UNCHANGED files
          BY <3>1 DEF SealStep, SealPair, vaultVars
    <3>2. ASSUME \E w \in WardenRuns : WardenStep(w) PROVE UNCHANGED files
          BY <3>2 DEF WardenStep, WardenStart, WardenPassphraseRight, WardenPassphraseWrong,
                      WardenChallenge, WardenAbort, vaultVars
    <3> QED BY <1>2, <3>1, <3>2 DEF Next, vars, vaultVars
  <2>2. VaultSolo(t) \/ \E r \in Responses \cup {GarbledResponse} : VaultResponseRight(t, r)
        BY <2>1 DEF VaultStep, VaultStart, VaultPasswordRight, VaultPasswordWrong,
                    VaultChallenge, VaultResponseWrong, VaultServe, VaultStop, VaultAbort
  <2>3. t = s /\ vpc[s] # "idle"
        BY <1>2, <2>2 DEF VaultSolo, VaultResponseRight, IInv, TypeOK
  <2>4. TwoFactor(s)
        BY <2>3, FactorsAreSteady
  <2>5. CASE VaultSolo(s)
    <3>1. meta[s] = SealedMeta(Sealed(s)) /\ ~meta[s].twoFactor
          BY <2>5 DEF VaultSolo, IInv, SessionInv, Sealed
    <3>2. SealedMeta(Sealed(s)).twoFactor = Sealed(s).metaCT.plaintext.twoFactor
          BY DEF SealedMeta
    <3> QED BY <2>4, <3>1, <3>2, Zenon DEF TwoFactor
  <2>6. CASE \E r \in Responses \cup {GarbledResponse} : VaultResponseRight(s, r)
    <3>1. PICK r \in Responses \cup {GarbledResponse} : AssetsOpen(meta[s], ePriv[s], r)
          BY <2>6 DEF VaultResponseRight
    <3>2. ePriv[s] # Nil
          BY <2>6 DEF VaultResponseRight, IInv, SessionInv
    <3>3. RecoverShare(NewChallenge(s), PublicKey(SealKey(vbin[s])), r)
              = DeriveShare(SealKey(vbin[s]))
          BY <3>1, <3>2, OpeningIsRecovering
    <3>4. r # GarbledResponse
          BY <3>3, GarbledOpensNothing
    <3>5. PICK w \in Answered : r = Response(w)
          BY <3>1, <3>4 DEF Responses
    <3>6. wbin[w] = vbin[s] /\ wchal[w] = PublicKey(ePriv[s])
          BY <3>1, <3>2, <3>5, OpeningResponse
    <3>7. WardenProved(s)
          BY <3>2, <3>6 DEF WardenProved
    <3> QED BY <2>3, <3>7, FactorsAreSteady
  <2> QED BY <2>2, <2>3, <2>5, <2>6
<1> QED BY <1>1, <1>2

\* The invariant of the ceremony with its main safety property.
FullInv == IInv /\ WardenFactor

\* It holds in every reachable state: files come out only with the warden's help.
THEOREM FullInvariance == Spec => []FullInv
<1>1. Init => FullInv
      BY InitIInv DEF FullInv, WardenFactor, Init
<1>2. FullInv /\ [Next]_vars => FullInv'
      BY NextIInv, WardenFactorStep DEF FullInv
<1> QED BY <1>1, <1>2, PTL DEF Spec

\* And it says that both factors were proved.
LEMMA FullInvBothFactors == FullInv => BothFactors
<1> SUFFICES ASSUME FullInv, NEW s \in Sessions, files[s] # Nil
             PROVE  /\ PasswordProved(s)
                    /\ TwoFactor(s) => WardenProved(s)
                    /\ files[s] = Files(vbin[s])
    BY DEF BothFactors
<1>1. /\ meta[s] # Nil /\ meta[s] = SealedMeta(vault[vbin[s]])
      /\ files[s] = Files(vbin[s])
      BY DEF FullInv, IInv, SessionInv
<1>2. PasswordProved(s)
      BY <1>1 DEF PasswordProved, SealedMeta, Sealed
<1> QED BY <1>1, <1>2 DEF FullInv, WardenFactor

\* Nobody gets at the files of a vault without its password and, if it was
\* sealed with a warden, an answer of that warden to this session's challenge.
THEOREM FactorsRequired == Spec => []BothFactors
BY FullInvBothFactors, FullInvariance, PTL
=============================================================================
