-------------------------- MODULE MCSnapshotStore --------------------------
(***************************************************************************)
(* SnapshotStore for TLC: two users, the first with three requests (enough *)
(* to start, use and end a tutorial, or to queue behind oneself) and the   *)
(* second with one.                                                        *)
(***************************************************************************)
EXTENDS SnapshotStore, TLC

CONSTANTS u1, u2, r1, r2, r3, r4

TwoUsers == {u1, u2}
FourRequests == {r1, r2, r3, r4}
SignedIn == r1 :> u1 @@ r2 :> u1 @@ r3 :> u1 @@ r4 :> u2

\* The three requests of the first user are interchangeable: they arrive in this order.
InOrder == (pc[r2] # "idle" => pc[r1] # "idle") /\ (pc[r3] # "idle" => pc[r2] # "idle")
=============================================================================
