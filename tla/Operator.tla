------------------------------ MODULE Operator ------------------------------
(***************************************************************************)
(* The ceremony with a person who means to unlock the vault: nobody aborts *)
(* a prompt, at each prompt there are fewer wrong entries than the program *)
(* forgives, and for each session a warden of the right pair is run with   *)
(* the challenge on that session's screen.  The program must then serve.   *)
(***************************************************************************)
EXTENDS Ceremony

\* The warden run of a session bears its name.
ASSUME WardenRunsAssumption == WardenRuns = Sessions

MayErr(tries) == tries + 1 < Attempts

VaultCode(s) == VaultChallenge(s) \/ VaultSolo(s) \/ VaultServe(s)

RightEntry(s) ==
    \/ \E pw \in Passwords : VaultPasswordRight(s, pw)
    \/ \E r \in Responses : VaultResponseRight(s, r)

WrongEntry(s) ==
    /\ MayErr(vtries[s])
    /\ \/ \E pw \in Passwords : VaultPasswordWrong(s, pw)
       \/ \E r \in Responses \cup {GarbledResponse} : VaultResponseWrong(s, r)

RunWarden(s) ==
    \/ vpc[s] = "response" /\ WardenStart(s, vbin[s])
    \/ \E pass \in Passwords : WardenPassphraseRight(s, pass)
    \/ WardenChallenge(s, PublicKey(ePriv[s]))

WrongPassphrase(s) ==
    MayErr(wtries[s]) /\ \E pass \in Passwords : WardenPassphraseWrong(s, pass)

CarefulNext ==
    \/ SealStep
    \/ \E s \in Sessions :
        \/ \E p \in Pairs : VaultStart(s, p)
        \/ VaultCode(s) \/ RightEntry(s) \/ WrongEntry(s)
        \/ RunWarden(s) \/ WrongPassphrase(s)
        \/ VaultStop(s)

\* The person gets round to every right entry; sealing, starting, stopping and
\* making mistakes is never required of them.
CarefulSpec ==
    /\ Init /\ [][CarefulNext]_vars
    /\ \A s \in Sessions :
        /\ WF_vars(VaultCode(s))
        /\ WF_vars(RightEntry(s))
        /\ WF_vars(RunWarden(s))

\* A session that has been started gets to serving: neither the mistakes the
\* prompts forgive nor what other sessions and their wardens do prevents it.
EventuallyServed ==
    \A s \in Sessions : vpc[s] = "password" ~> vpc[s] = "serving"
=============================================================================
