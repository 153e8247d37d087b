------------------------------- MODULE Scheme -------------------------------
(***************************************************************************)
(* internal/scheme: what sealing puts into the two payloads, and what the  *)
(* vault and the warden get back out of them.  The wordlist both payloads  *)
(* carry and the tar framing of the files are data nothing here tells      *)
(* apart; the files of seal p are the term Files(p).                       *)
(*                                                                         *)
(* An operation of the code that returns (value, err) is a condition, true *)
(* when err is nil, and an operator for the value.                         *)
(***************************************************************************)
EXTENDS CryptoCore

CONSTANTS Nil,     \* the nil pointer, the empty key
          NoPass   \* the empty passphrase

Files(p) == <<"files", p>>

\* sk of seal p.
SealKey(p) == NewKeyPair("seal", p)

\* FAULT: every session of a vault uses the same key.
FaultFixedChallenge(s) == NewKeyPair("ephemeral", "any session")

\* ePriv of vault session s; its public half is the challenge.
NewChallenge(s) == NewKeyPair("ephemeral", s)

-----------------------------------------------------------------------------
\* Seal, the vault half: meta under P, the files under K_a.
SealVault(p, password, noWarden) ==
    LET salt == NewSalt("vault salt", p)
        P    == DeriveP(password, salt)
        ka   == IF noWarden
                THEN DeriveAssetKeySolo(P)
                ELSE DeriveAssetKey(DeriveShare(SealKey(p)), P)
        meta == IF noWarden
                THEN [twoFactor |-> FALSE, pk |-> Nil]
                ELSE [twoFactor |-> TRUE, pk |-> PublicKey(SealKey(p))]
    IN  [salt    |-> salt,
         metaCT  |-> Seal(P, meta),
         assetCT |-> Seal(ka, Files(p))]

StaticKey == <<"warden-static-obfuscation">>

\* sealWarden: sk under the passphrase, or only obfuscated without one.
SealWarden(p, pass) ==
    LET salt == NewSalt("warden salt", p)
        key  == IF pass # NoPass THEN DeriveP(pass, salt) ELSE StaticKey
    IN  [hasPass |-> pass # NoPass, salt |-> salt, ct |-> Seal(key, SealKey(p))]

-----------------------------------------------------------------------------
\* OpenVaultMeta: a wrong password fails here.
MetaOpens(vp, password) == Opens(DeriveP(password, vp.salt), vp.metaCT)

\* The VaultMeta it returns keeps P and the asset ciphertext for later.
OpenVaultMeta(vp, password) ==
    [twoFactor |-> vp.metaCT.plaintext.twoFactor,
     pk        |-> vp.metaCT.plaintext.pk,
     p         |-> DeriveP(password, vp.salt),
     assetCT   |-> vp.assetCT]

\* OpenAssets and OpenAssetsSolo: each refuses the other kind of vault.
AssetsOpen(m, ePriv, response) ==
    /\ m.twoFactor
    /\ Opens(DeriveAssetKey(RecoverShare(ePriv, m.pk, response), m.p), m.assetCT)

AssetsOpenSolo(m) == ~m.twoFactor /\ Opens(DeriveAssetKeySolo(m.p), m.assetCT)

\* Both then return the plaintext of the asset ciphertext.
Assets(m) == m.assetCT.plaintext

-----------------------------------------------------------------------------
\* OpenWarden: without a passphrase on the payload, what was typed is ignored.
WardenOpens(wp, pass) ==
    IF wp.hasPass
    THEN pass # NoPass /\ Opens(DeriveP(pass, wp.salt), wp.ct)
    ELSE Opens(StaticKey, wp.ct)

OpenWarden(wp) == wp.ct.plaintext

\* WardenKey.Respond: X25519 refuses a low-order challenge.
Responds(challenge) == challenge # LowOrderPoint
=============================================================================
