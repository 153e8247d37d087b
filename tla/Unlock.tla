------------------------------- MODULE Unlock -------------------------------
(***************************************************************************)
(* What unlocking a vault promises, with no word about keys or phrases.    *)
(*                                                                         *)
(* A session starts locked and needs one factor (a --no-warden vault) or   *)
(* two.  The password is always the first to be proved; the warden is      *)
(* never asked before it.  The files are released only when every needed   *)
(* factor has been proved for this very session, and once a session is     *)
(* closed it stays closed.                                                 *)
(***************************************************************************)
CONSTANT Sessions

VARIABLES state,    \* of each session: "idle", "locked", "open" or "closed"
          required, \* the factors the session needs
          proved    \* the factors that have been proved for it

vars == <<state, required, proved>>

Kinds == {{"password"}, {"password", "warden"}}

TypeOK ==
    /\ state \in [Sessions -> {"idle", "locked", "open", "closed"}]
    /\ required \in [Sessions -> Kinds \cup {{}}]
    /\ proved \in [Sessions -> SUBSET {"password", "warden"}]

Init ==
    /\ state = [s \in Sessions |-> "idle"]
    /\ required = [s \in Sessions |-> {}]
    /\ proved = [s \in Sessions |-> {}]

Begin(s) ==
    /\ state[s] = "idle"
    /\ state' = [state EXCEPT ![s] = "locked"]
    /\ \E kind \in Kinds : required' = [required EXCEPT ![s] = kind]
    /\ UNCHANGED proved

ProvePassword(s) ==
    /\ state[s] = "locked"
    /\ proved' = [proved EXCEPT ![s] = @ \cup {"password"}]
    /\ UNCHANGED <<state, required>>

\* The warden may answer a challenge whose session has ended meanwhile.
ProveWarden(s) ==
    /\ proved[s] = {"password"}
    /\ required[s] = {"password", "warden"}
    /\ proved' = [proved EXCEPT ![s] = @ \cup {"warden"}]
    /\ UNCHANGED <<state, required>>

Release(s) ==
    /\ state[s] = "locked"
    /\ required[s] \subseteq proved[s]
    /\ state' = [state EXCEPT ![s] = "open"]
    /\ UNCHANGED <<required, proved>>

Close(s) ==
    /\ state[s] \in {"locked", "open"}
    /\ state' = [state EXCEPT ![s] = "closed"]
    /\ UNCHANGED <<required, proved>>

Step(s) ==
    Begin(s) \/ ProvePassword(s) \/ ProveWarden(s) \/ Release(s) \/ Close(s)

Next == \E s \in Sessions : Step(s)

Spec == Init /\ [][Next]_vars
=============================================================================
