------------------------- MODULE MobileCredentials -------------------------
(***************************************************************************)
(* What the mobile session service promises: a session is a chain of       *)
(* refresh tokens, each exchanged once for the next, and only the last one *)
(* works, until the session is revoked or forgotten, which is for good.    *)
(***************************************************************************)
CONSTANTS Names, None

VARIABLES
    current,     \* the refresh token that works in each session, or None
    issued,      \* the names used so far, for sessions and tokens
    exchanged    \* the refresh tokens that were exchanged

vars == <<current, issued, exchanged>>

Init ==
    /\ current = [s \in Names |-> None]
    /\ issued = {}
    /\ exchanged = {}

Ended(sessions) == [s \in Names |-> IF s \in sessions THEN None ELSE current[s]]

SignIn(s, ended) ==
    /\ s \notin issued
    /\ s \notin ended
    /\ current' = [Ended(ended) EXCEPT ![s] = s]
    /\ issued' = issued \cup {s}
    /\ UNCHANGED exchanged

Exchange(s, next) ==
    /\ current[s] # None
    /\ current[s] \notin exchanged
    /\ next \notin issued
    /\ current' = [current EXCEPT ![s] = next]
    /\ issued' = issued \cup {next}
    /\ exchanged' = exchanged \cup {current[s]}

End(sessions) ==
    /\ current' = Ended(sessions)
    /\ UNCHANGED <<issued, exchanged>>

Next ==
    \/ \E s \in Names : (\E ended \in SUBSET Names : SignIn(s, ended)) \/ (\E n \in Names : Exchange(s, n))
    \/ \E sessions \in SUBSET Names : End(sessions)

Spec == Init /\ [][Next]_vars
=============================================================================
