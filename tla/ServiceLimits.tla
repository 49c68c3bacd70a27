---------------------------- MODULE ServiceLimits ----------------------------
(***************************************************************************)
(* What one process grants to whom: requests per address and window        *)
(* (src/security/requestLimits.ts), bytes of media uploads per account and *)
(* hour (src/storage/mediaUploadService.ts), and the preferences file      *)
(* (src/data/userPreferencesStore.ts).  The first two are kept in memory   *)
(* only.  Signing the address of an upload is awaited between the checks   *)
(* of an upload and its reservation.                                       *)
(*                                                                         *)
(* Abstractions: one scope of limits; one team, so that accounts stand for *)
(* quota keys; sizes in units; a configured storage.  Time counts units of *)
(* which windows and hours are multiples.                                  *)
(***************************************************************************)
EXTENDS Naturals, Sequences, FiniteSets

CONSTANTS
  Addresses, Accounts,
  Uploads,                  \* requests to upload
  People, Themes,           \* whose preferences, and what they can be
  MaxRequests, Window,      \* the policy: so many requests in a window
  Quota, Hour, MaxBytes,    \* so many bytes an hour, and at most so many at once
  CleanupInterval,
  MaxTime,                  \* bound on the clock
  None

VARIABLES
  now,
  records, lastCleanup,     \* address -> [count, resetAt], or None
  reservations,             \* account -> [bytes, startedAt], or None
  upload,                   \* upload -> [at, by, size], where at is its stage
  preferences, file,        \* person -> theme, in memory and on disk
  accepted, granted         \* when each request and unit was granted, since the process started

limits == <<records, lastCleanup, accepted>>
quotas == <<reservations, granted>>
settings == <<preferences, file>>
vars == <<now, limits, quotas, upload, settings>>

Times == 0..MaxTime
Idle == [at |-> "idle", by |-> None, size |-> 0]

Unlimited == [x \in Addresses |-> None]
Unreserved == [a \in Accounts |-> None]
Never(who) == [w \in who |-> <<>>]

Init ==
  /\ now = 0
  /\ records = Unlimited /\ lastCleanup = None /\ accepted = Never(Addresses)
  /\ reservations = Unreserved /\ granted = Never(Accounts)
  /\ upload = [u \in Uploads |-> Idle]
  /\ file \in [People -> Themes]
  /\ preferences = file

-----------------------------------------------------------------------------
(* Requests.                                                                *)

Live(record) == record # None /\ record.resetAt > now

\* cleanupExpiredRecords: now and then, and at once in a new process, the
\* records of all addresses
CleanupDue == lastCleanup = None \/ now - lastCleanup >= CleanupInterval
CleanedUp ==
  IF CleanupDue THEN [x \in Addresses |-> IF Live(records[x]) THEN records[x] ELSE None]
  ELSE records

Full(x) == Live(records[x]) /\ records[x].count >= MaxRequests

Counted(x) ==
  LET old == CleanedUp[x]
      record == IF Live(old) THEN old ELSE [count |-> 0, resetAt |-> now + Window]
  IN  [CleanedUp EXCEPT ![x] = [record EXCEPT !.count = @ + 1]]

\* enforceRequestLimit: a refused request cleans up too
Enforce(x) ==
  /\ records' = IF Full(x) THEN CleanedUp ELSE Counted(x)
  /\ lastCleanup' = IF CleanupDue THEN now ELSE lastCleanup
  /\ accepted' = IF Full(x) THEN accepted ELSE [accepted EXCEPT ![x] = Append(@, now)]

Serve(x) == Enforce(x) /\ UNCHANGED <<now, quotas, upload, settings>>

-----------------------------------------------------------------------------
(* Uploads: presignMediaUpload and its routes.                              *)

BeginUpload(u, x, a, size) ==
  /\ upload[u].at = "idle"
  /\ Enforce(x)
  /\ upload' = [upload EXCEPT ![u] =
       [at |-> IF Full(x) THEN "limited" ELSE IF size > MaxBytes THEN "too big" ELSE "signing",
        by |-> a, size |-> size]]
  /\ UNCHANGED <<now, quotas, settings>>

Current(a) ==
  LET current == reservations[a]
  IN  IF current # None /\ now - current.startedAt < Hour THEN current
      ELSE [bytes |-> 0, startedAt |-> now]

FitsAlone(u) == upload[u].size <= Quota     \* mutant: checked without what others took meanwhile
Fits(u) == Current(upload[u].by).bytes + upload[u].size <= Quota

\* the address is signed, or cannot be; then reserveUploadQuota
Sign(u) ==
  /\ upload[u].at = "signing"
  /\ LET a == upload[u].by
     IN  \/ /\ Fits(u)
            /\ reservations' = [reservations EXCEPT ![a] =
                 [Current(a) EXCEPT !.bytes = @ + upload[u].size]]
            /\ granted' = [granted EXCEPT ![a] = @ \o [i \in 1..upload[u].size |-> now]]
            /\ upload' = [upload EXCEPT ![u].at = "granted"]
         \/ /\ ~Fits(u)
            /\ upload' = [upload EXCEPT ![u].at = "over quota"]
            /\ UNCHANGED quotas
         \/ /\ upload' = [upload EXCEPT ![u].at = "failed"]
            /\ UNCHANGED quotas
  /\ UNCHANGED <<now, limits, settings>>

-----------------------------------------------------------------------------
(* Preferences: the file is replaced as a whole, from the memory and before *)
(* it; when that fails, neither changes.                                    *)

Update(p, theme) ==
  /\ file' = [preferences EXCEPT ![p] = theme]
  /\ preferences' = file'
  /\ UNCHANGED <<now, limits, quotas, upload>>

-----------------------------------------------------------------------------
Tick ==
  /\ now < MaxTime
  /\ now' = now + 1
  /\ UNCHANGED <<limits, quotas, upload, settings>>

\* The process ends, maybe between the file and the answer, and another starts.
Restart ==
  /\ records' = Unlimited /\ lastCleanup' = None /\ accepted' = Never(Addresses)
  /\ reservations' = Unreserved /\ granted' = Never(Accounts)
  /\ upload' = [u \in Uploads |-> IF upload[u].at = "signing" THEN [upload[u] EXCEPT !.at = "failed"]
                                  ELSE upload[u]]
  /\ \/ file' = file
     \/ \E p \in People, theme \in Themes : file' = [file EXCEPT ![p] = theme]
  /\ preferences' = file'
  /\ UNCHANGED now

Sizes == 1..MaxBytes + 1

Next ==
  \/ \E x \in Addresses : Serve(x)
  \/ \E u \in Uploads, x \in Addresses, a \in Accounts, size \in Sizes : BeginUpload(u, x, a, size)
  \/ \E u \in Uploads : Sign(u)
  \/ \E p \in People, theme \in Themes : Update(p, theme)
  \/ Tick
  \/ Restart

Spec == Init /\ [][Next]_vars /\ \A u \in Uploads : WF_vars(Sign(u))

-----------------------------------------------------------------------------
TypeOK ==
  /\ now \in Times
  /\ records \in [Addresses -> [count : 1..MaxRequests, resetAt : Nat] \cup {None}]
  /\ lastCleanup \in 0..now \cup {None}
  /\ reservations \in [Accounts -> [bytes : 1..Quota, startedAt : 0..now] \cup {None}]
  /\ \A u \in Uploads :
       /\ upload[u].at \in {"idle", "limited", "too big", "signing", "granted", "over quota", "failed"}
       /\ upload[u].at \in {"signing", "granted"} => upload[u].size <= MaxBytes
  /\ preferences \in [People -> Themes]

\* at most n of those times in any span of so long
AtMost(n, times, span) == \A i \in DOMAIN times : i > n => times[i] - times[i - n] >= span

\* However windows and cleanups fall, no address gets more than two windows'
\* worth of requests in the time of one, and no account more than two hours'
\* worth of bytes in an hour, whatever uploads are being signed at once; what
\* is counted is what was granted; and preferences are those in the file.
LimitsHold ==
  /\ \A x \in Addresses :
       /\ AtMost(2 * MaxRequests, accepted[x], Window)
       /\ Live(records[x]) =>
            records[x].count = Cardinality({i \in DOMAIN accepted[x] : accepted[x][i] + Window >= records[x].resetAt})
  /\ \A a \in Accounts : AtMost(2 * Quota, granted[a], Hour) /\ Current(a).bytes <= Quota
  /\ preferences = file

\* Every upload is answered.
EveryUploadEnds == []<>(\A u \in Uploads : upload[u].at # "signing")
=============================================================================
