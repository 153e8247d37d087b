------------------------------ MODULE Ceremony ------------------------------
(***************************************************************************)
(* The unlock ceremony: sealed vaults and wardens, any number of runs of   *)
(* each, and the person who carries phrases between their screens.         *)
(*                                                                         *)
(* cmd/vault (main.run, unlockMeta, handshake) is one process per session, *)
(* cmd/warden (main.run, unlockWarden) one per warden run.  They share     *)
(* nothing but what the person reads off one screen and types at another;  *)
(* the person may start the wrong binary, type a phrase of another         *)
(* session, an old one, or one garbled in a way the checksum accepts.  A   *)
(* typing mistake that the checksum rejects is asked for again inside      *)
(* prompt.ReadPhrase and changes nothing here.                             *)
(***************************************************************************)
EXTENDS Scheme, Integers, FiniteSets

CONSTANTS
    Pairs,      \* runs of the seal command, each making a vault (and a warden)
    Sessions,   \* runs of vault binaries
    WardenRuns, \* runs of warden binaries
    Passwords,  \* what may be typed at a password prompt; NoPass is one
    Attempts    \* wrong guesses a prompt allows

ASSUME AttemptsAssumption == Attempts \in Nat \ {0}

VARIABLES
    vault,  \* of each pair: the payload of the sealed vault binary, or Nil
    warden, \* of each pair: the payload of the sealed warden binary, or Nil
    \* a vault session
    vpc, vbin, vtries, \* where it is, the binary it runs, wrong guesses so far
    meta, ePriv,       \* the opened metadata, the private key of the challenge
    files,             \* the decrypted files
    \* a warden run
    wpc, wbin, wtries,
    wkey, wchal        \* its private key, the challenge it was asked

sealVars == <<vault, warden>>
vaultVars == <<vpc, vbin, vtries, meta, ePriv, files>>
wardenVars == <<wpc, wbin, wtries, wkey, wchal>>
vars == <<sealVars, vaultVars, wardenVars>>

-----------------------------------------------------------------------------
\* What the screens have shown so far.
Challenges == {PublicKey(ePriv[s]) : s \in {t \in Sessions : ePriv[t] # Nil}}

Response(w) == Respond(wkey[w], wchal[w])

Answered == {w \in WardenRuns : wpc[w] = "answered"}

Responses == {Response(w) : w \in Answered}

\* Phrases nobody's screen has shown but whose checksum is right.
GarbledChallenge == PublicKey(<<"none", "garbled">>)
GarbledResponse == {<<"garbled">>}

-----------------------------------------------------------------------------
(* Types.  A key or a challenge is a member of a set of terms. *)

EphemeralKeys == {NewChallenge(s) : s \in Sessions}
SealKeys == {SealKey(p) : p \in Pairs}

VaultPayloads ==
    {SealVault(p, pw, noWarden) : p \in Pairs, pw \in Passwords, noWarden \in BOOLEAN}
WardenPayloads == {SealWarden(p, pw) : p \in Pairs, pw \in Passwords}
Metas == {OpenVaultMeta(vp, pw) : vp \in VaultPayloads, pw \in Passwords}
AllChallenges ==
    {PublicKey(k) : k \in EphemeralKeys} \cup {GarbledChallenge, LowOrderPoint}
AllFiles == {Files(p) : p \in Pairs}

\* Nil is no pair, payload, metadata, key or set of files.
ASSUME NilAssumption ==
    /\ Nil \notin Pairs
    /\ Nil \notin VaultPayloads /\ Nil \notin WardenPayloads
    /\ Nil \notin Metas /\ Nil \notin EphemeralKeys /\ Nil \notin AllFiles

VaultStates == {"idle", "password", "meta", "response", "open", "serving",
                "stopped", "failed"}
WardenStates == {"idle", "passphrase", "challenge", "answered", "failed"}

\* Every variable holds what its Go counterpart can hold.
TypeOK ==
    /\ vault \in [Pairs -> VaultPayloads \cup {Nil}]
    /\ warden \in [Pairs -> WardenPayloads \cup {Nil}]
    /\ vpc \in [Sessions -> VaultStates]
    /\ vbin \in [Sessions -> Pairs \cup {Nil}]
    /\ vtries \in [Sessions -> 0..Attempts]
    /\ meta \in [Sessions -> Metas \cup {Nil}]
    /\ ePriv \in [Sessions -> EphemeralKeys \cup {Nil}]
    /\ files \in [Sessions -> AllFiles \cup {Nil}]
    /\ wpc \in [WardenRuns -> WardenStates]
    /\ wbin \in [WardenRuns -> Pairs \cup {Nil}]
    /\ wtries \in [WardenRuns -> 0..Attempts]
    /\ wkey \in [WardenRuns -> SealKeys \cup {Nil}]
    /\ wchal \in [WardenRuns -> AllChallenges \cup {Nil}]

Init ==
    /\ vault = [p \in Pairs |-> Nil]
    /\ warden = [p \in Pairs |-> Nil]
    /\ vpc = [s \in Sessions |-> "idle"]
    /\ vbin = [s \in Sessions |-> Nil]
    /\ vtries = [s \in Sessions |-> 0]
    /\ meta = [s \in Sessions |-> Nil]
    /\ ePriv = [s \in Sessions |-> Nil]
    /\ files = [s \in Sessions |-> Nil]
    /\ wpc = [w \in WardenRuns |-> "idle"]
    /\ wbin = [w \in WardenRuns |-> Nil]
    /\ wtries = [w \in WardenRuns |-> 0]
    /\ wkey = [w \in WardenRuns |-> Nil]
    /\ wchal = [w \in WardenRuns |-> Nil]

-----------------------------------------------------------------------------
\* scheme.Seal for one vault: with noWarden the passphrase is ignored and there
\* is no warden binary.
SealPair(p, password, pass, noWarden) ==
    /\ vault[p] = Nil
    /\ vault' = [vault EXCEPT ![p] = SealVault(p, password, noWarden)]
    /\ warden' = [warden EXCEPT ![p] = IF noWarden THEN Nil ELSE SealWarden(p, pass)]
    /\ UNCHANGED <<vaultVars, wardenVars>>

-----------------------------------------------------------------------------
(* A vault session. *)

\* FAULT: the last of the Attempts guesses is not allowed.
FaultOneFewer(tries) == tries + 2 >= Attempts

\* FAULT: the guesses are not counted.
FaultNeverLast(tries) == FALSE

\* A wrong guess after this many others was the last one.
LastAttempt(tries) == tries + 1 = Attempts

\* main.run reads the payload off its own binary and asks for the password.
VaultStart(s, p) ==
    /\ vpc[s] = "idle"
    /\ vault[p] # Nil
    /\ vpc' = [vpc EXCEPT ![s] = "password"]
    /\ vbin' = [vbin EXCEPT ![s] = p]
    /\ UNCHANGED <<sealVars, vtries, meta, ePriv, files, wardenVars>>

\* unlockMeta: OpenVaultMeta accepts the password.
VaultPasswordRight(s, pw) ==
    /\ vpc[s] = "password"
    /\ MetaOpens(vault[vbin[s]], pw)
    /\ meta' = [meta EXCEPT ![s] = OpenVaultMeta(vault[vbin[s]], pw)]
    /\ vpc' = [vpc EXCEPT ![s] = "meta"]
    /\ UNCHANGED <<sealVars, vbin, vtries, ePriv, files, wardenVars>>

\* unlockMeta: it refuses it; the last refusal ends the process.
VaultPasswordWrong(s, pw) ==
    /\ vpc[s] = "password"
    /\ ~MetaOpens(vault[vbin[s]], pw)
    /\ vtries' = [vtries EXCEPT ![s] = @ + 1]
    /\ vpc' = [vpc EXCEPT ![s] = IF LastAttempt(vtries[s]) THEN "failed" ELSE @]
    /\ UNCHANGED <<sealVars, vbin, meta, ePriv, files, wardenVars>>

\* handshake, up to the challenge on the screen; its loop counts from zero.
VaultChallenge(s) ==
    /\ vpc[s] = "meta"
    /\ meta[s].twoFactor
    /\ ePriv' = [ePriv EXCEPT ![s] = NewChallenge(s)]
    /\ vtries' = [vtries EXCEPT ![s] = 0]
    /\ vpc' = [vpc EXCEPT ![s] = "response"]
    /\ UNCHANGED <<sealVars, vbin, meta, files, wardenVars>>

\* run, for a single-factor vault: OpenAssetsSolo, with no way to try again.
VaultSolo(s) ==
    /\ vpc[s] = "meta"
    /\ ~meta[s].twoFactor
    /\ IF AssetsOpenSolo(meta[s])
       THEN /\ files' = [files EXCEPT ![s] = Assets(meta[s])]
            /\ vpc' = [vpc EXCEPT ![s] = "open"]
       ELSE /\ vpc' = [vpc EXCEPT ![s] = "failed"]
            /\ UNCHANGED files
    /\ UNCHANGED <<sealVars, vbin, vtries, meta, ePriv, wardenVars>>

\* handshake: the response typed opens the assets.
VaultResponseRight(s, r) ==
    /\ vpc[s] = "response"
    /\ AssetsOpen(meta[s], ePriv[s], r)
    /\ files' = [files EXCEPT ![s] = Assets(meta[s])]
    /\ vpc' = [vpc EXCEPT ![s] = "open"]
    /\ UNCHANGED <<sealVars, vbin, vtries, meta, ePriv, wardenVars>>

\* handshake: it does not; the challenge stays the same for the next attempt.
VaultResponseWrong(s, r) ==
    /\ vpc[s] = "response"
    /\ ~AssetsOpen(meta[s], ePriv[s], r)
    /\ vtries' = [vtries EXCEPT ![s] = @ + 1]
    /\ vpc' = [vpc EXCEPT ![s] = IF LastAttempt(vtries[s]) THEN "failed" ELSE @]
    /\ UNCHANGED <<sealVars, vbin, meta, ePriv, files, wardenVars>>

\* serve.New has its listener and main.run calls Run.
VaultServe(s) ==
    /\ vpc[s] = "open"
    /\ vpc' = [vpc EXCEPT ![s] = "serving"]
    /\ UNCHANGED <<sealVars, vbin, vtries, meta, ePriv, files, wardenVars>>

\* Run returns: interrupted, or idle for too long.  Nothing is overwritten.
VaultStop(s) ==
    /\ vpc[s] = "serving"
    /\ vpc' = [vpc EXCEPT ![s] = "stopped"]
    /\ UNCHANGED <<sealVars, vbin, vtries, meta, ePriv, files, wardenVars>>

\* A prompt returns an error (end of input, Ctrl-C), or serve.New or Run does, or
\* the process is killed.
VaultAbort(s) ==
    /\ vpc[s] \in {"password", "meta", "response", "open", "serving"}
    /\ vpc' = [vpc EXCEPT ![s] = "failed"]
    /\ UNCHANGED <<sealVars, vbin, vtries, meta, ePriv, files, wardenVars>>

VaultStep(s) ==
    \/ \E p \in Pairs : VaultStart(s, p)
    \/ \E pw \in Passwords : VaultPasswordRight(s, pw)
    \/ \E pw \in Passwords : VaultPasswordWrong(s, pw)
    \/ VaultChallenge(s)
    \/ VaultSolo(s)
    \/ \E r \in Responses \cup {GarbledResponse} : VaultResponseRight(s, r)
    \/ \E r \in Responses \cup {GarbledResponse} : VaultResponseWrong(s, r)
    \/ VaultServe(s)
    \/ VaultStop(s)
    \/ VaultAbort(s)

-----------------------------------------------------------------------------
(* A warden run. *)

\* main.run: without a passphrase the key is opened at once.
WardenStart(w, p) ==
    /\ wpc[w] = "idle"
    /\ warden[p] # Nil
    /\ wbin' = [wbin EXCEPT ![w] = p]
    /\ IF warden[p].hasPass
       THEN /\ wpc' = [wpc EXCEPT ![w] = "passphrase"]
            /\ UNCHANGED wkey
       ELSE /\ WardenOpens(warden[p], NoPass)
            /\ wkey' = [wkey EXCEPT ![w] = OpenWarden(warden[p])]
            /\ wpc' = [wpc EXCEPT ![w] = "challenge"]
    /\ UNCHANGED <<sealVars, vaultVars, wtries, wchal>>

\* unlockWarden: OpenWarden accepts the passphrase.
WardenPassphraseRight(w, pass) ==
    /\ wpc[w] = "passphrase"
    /\ WardenOpens(warden[wbin[w]], pass)
    /\ wkey' = [wkey EXCEPT ![w] = OpenWarden(warden[wbin[w]])]
    /\ wpc' = [wpc EXCEPT ![w] = "challenge"]
    /\ UNCHANGED <<sealVars, vaultVars, wbin, wtries, wchal>>

\* unlockWarden: it refuses it (an empty one is refused unread, and counts).
WardenPassphraseWrong(w, pass) ==
    /\ wpc[w] = "passphrase"
    /\ ~WardenOpens(warden[wbin[w]], pass)
    /\ wtries' = [wtries EXCEPT ![w] = @ + 1]
    /\ wpc' = [wpc EXCEPT ![w] = IF LastAttempt(wtries[w]) THEN "failed" ELSE @]
    /\ UNCHANGED <<sealVars, vaultVars, wbin, wkey, wchal>>

\* main.run: one challenge, one response on the screen, and the process ends.
\* A challenge that X25519 refuses ends it with an error.
WardenChallenge(w, c) ==
    /\ wpc[w] = "challenge"
    /\ wchal' = [wchal EXCEPT ![w] = c]
    /\ wpc' = [wpc EXCEPT ![w] = IF Responds(c) THEN "answered" ELSE "failed"]
    /\ UNCHANGED <<sealVars, vaultVars, wbin, wtries, wkey>>

\* A prompt returns an error, or the process is killed.
WardenAbort(w) ==
    /\ wpc[w] \in {"passphrase", "challenge"}
    /\ wpc' = [wpc EXCEPT ![w] = "failed"]
    /\ UNCHANGED <<sealVars, vaultVars, wbin, wtries, wkey, wchal>>

WardenStep(w) ==
    \/ \E p \in Pairs : WardenStart(w, p)
    \/ \E pass \in Passwords : WardenPassphraseRight(w, pass)
    \/ \E pass \in Passwords : WardenPassphraseWrong(w, pass)
    \/ \E c \in Challenges \cup {GarbledChallenge, LowOrderPoint} : WardenChallenge(w, c)
    \/ WardenAbort(w)

-----------------------------------------------------------------------------
SealStep ==
    \E p \in Pairs, password, pass \in Passwords, noWarden \in BOOLEAN :
        SealPair(p, password, pass, noWarden)

Next ==
    \/ SealStep
    \/ \E s \in Sessions : VaultStep(s)
    \/ \E w \in WardenRuns : WardenStep(w)

Spec == Init /\ [][Next]_vars

-----------------------------------------------------------------------------
(* Properties. *)

Sealed(s) == vault[vbin[s]]
TwoFactor(s) == Sealed(s).metaCT.plaintext.twoFactor

\* The password that was typed is the one the vault was sealed with.
PasswordProved(s) == meta[s] # Nil /\ meta[s].p = Sealed(s).metaCT.key

\* A warden of the vault's own pair has answered the session's own challenge.
WardenProved(s) ==
    /\ ePriv[s] # Nil
    /\ \E w \in Answered : wbin[w] = vbin[s] /\ wchal[w] = PublicKey(ePriv[s])

\* Files are in memory (handshake, OpenAssetsSolo have returned them) only after
\* every factor the vault was sealed with was proved to this very session, and
\* they are the files of the vault that was started.
BothFactors ==
    \A s \in Sessions : files[s] # Nil =>
        /\ PasswordProved(s)
        /\ TwoFactor(s) => WardenProved(s)
        /\ files[s] = Files(vbin[s])

\* A wrong password is noticed before the handshake: no challenge is ever shown
\* by a session that was not given the sealed password of a two-factor vault.
WrongPasswordShowsNoChallenge ==
    \A s \in Sessions : ePriv[s] # Nil => PasswordProved(s) /\ TwoFactor(s)

\* A response is good for one session only, however many sessions of the same
\* vault are waiting: an old or another session's answer is refused.
ResponseIsForOneSession ==
    \A r \in Responses : \A s, t \in Sessions :
        (/\ ePriv[s] # Nil /\ AssetsOpen(meta[s], ePriv[s], r)
         /\ ePriv[t] # Nil /\ AssetsOpen(meta[t], ePriv[t], r)) => s = t

\* A session whose challenge its own warden has answered can be opened: what
\* the warden's screen shows is accepted, whatever else went on before.
AnsweredMeansOpenable ==
    \A s \in Sessions : ePriv[s] # Nil => \A w \in Answered :
        (wbin[w] = vbin[s] /\ wchal[w] = PublicKey(ePriv[s]))
            => AssetsOpen(meta[s], ePriv[s], Response(w))

\* The XOR of a set of phrases.
XorAll(R) == {x \in UNION R : Cardinality({r \in R : x \in r}) % 2 = 1}

\* The share S of a pair is not on any screen, nor is it the XOR of phrases that
\* have been: the pad of each response is used once.
SharesStayMasked ==
    \A R \in SUBSET Responses : \A p \in Pairs : XorAll(R) # DeriveShare(SealKey(p))

\* vault's message on stopping: "Stopped; keys wiped."
KeysWipedOnStop ==
    \A s \in Sessions : vpc[s] = "stopped" =>
        meta[s] = Nil /\ ePriv[s] = Nil /\ files[s] = Nil

-----------------------------------------------------------------------------
(* The ceremony implements Unlock. *)

UnlockStateAt(pc) ==
    CASE pc = "idle" -> "idle"
      [] pc \in {"password", "meta", "response"} -> "locked"
      [] pc \in {"open", "serving"} -> "open"
      [] pc \in {"stopped", "failed"} -> "closed"

UnlockState == [s \in Sessions |-> UnlockStateAt(vpc[s])]

UnlockRequired == [s \in Sessions |->
    IF vbin[s] = Nil THEN {}
    ELSE IF TwoFactor(s) THEN {"password", "warden"} ELSE {"password"}]

UnlockProved == [s \in Sessions |->
    {f \in {"password", "warden"} :
        IF f = "password" THEN PasswordProved(s) ELSE WardenProved(s)}]

Promise == INSTANCE Unlock WITH
    state <- UnlockState, required <- UnlockRequired, proved <- UnlockProved

\* Every behaviour of vaults, wardens and the person is one Unlock allows.
ImplementsUnlock == Promise!Spec
=============================================================================
