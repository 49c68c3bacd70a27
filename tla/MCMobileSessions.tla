-------------------------- MODULE MCMobileSessions --------------------------
(***************************************************************************)
(* MobileSessions for TLC.  Four requests are the fewest that sign in,     *)
(* exchange a token, and present the old and the new one together; two of  *)
(* them can sign in at once, so that a device has two sessions and a       *)
(* logout of all has several to end.  Requests are interchangeable.        *)
(***************************************************************************)
EXTENDS MobileSessions, TLC

CONSTANTS q1, q2, q3, q4, phone

FourRequests == {q1, q2, q3, q4}
OneDevice == {phone}
Interchangeable == Permutations(Requests)
=============================================================================
