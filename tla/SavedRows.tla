----------------------------- MODULE SavedRows ------------------------------
(***************************************************************************)
(* What requests write and what a start accepts (src/data/store.ts with    *)
(* src/routes/routeSchemas.ts, and src/data/platformSnapshotFile.ts).  A   *)
(* start parses every row of the saved file with the schema that requests  *)
(* for such rows are parsed with, and refuses the whole file when one row  *)
(* does not fit.  Some rows are not written by such a request: a purchase  *)
(* comes with a part definition and takes its name, and a follow-up task   *)
(* comes with a QA report and takes the title the reviewer gave.           *)
(*                                                                         *)
(* One action is one accepted request, written to the file before it is    *)
(* answered (SnapshotStore), or a step of the process.  Abstractions: of a *)
(* row only its kind and the length of its title or name are kept, and of  *)
(* the lengths those the schemas tell apart; 3 stands for 3 and more.      *)
(***************************************************************************)
EXTENDS Naturals

VARIABLES
  file,      \* the rows that are saved: [kind, length]
  process    \* "running", "stopped", or "refused": it cannot start

savedVars == <<file, process>>

\* the shortest title or name the schema of each kind of row accepts
Shortest == [task |-> 3, purchase |-> 3, definition |-> 2]
Row(kind, length) == [kind |-> kind, length |-> length]

SavedInit ==
  /\ file = {Row("task", 3)}
  /\ process = "running"

RequestRow(kind) ==     \* create or rename a task, purchase or definition
  /\ process = "running"
  /\ \E length \in Shortest[kind]..3 : file' = file \cup {Row(kind, length)}
  /\ UNCHANGED process

\* createPartDefinitionWithAcquisition: a bought part's purchase has its name,
\* a fabricated part's a longer one.
AcquireDefinition ==
  /\ process = "running"
  /\ \E length \in Shortest["definition"]..3 : \E title \in {length, 3} :
       file' = file \cup {Row("definition", length), Row("task", 3), Row("purchase", title)}
  /\ UNCHANGED process

\* submitQaReport, not passing: an empty title becomes a generated one
SubmitQaReport ==
  /\ process = "running"
  /\ \E length \in 0..3 : file' = file \cup {Row("task", IF length = 0 THEN 3 ELSE length)}
  /\ UNCHANGED process

Stop ==
  /\ process = "running"
  /\ process' = "stopped"
  /\ UNCHANGED file

\* looksLikePlatformSnapshot
Fits(row) == row.length >= Shortest[row.kind]

Start ==
  /\ process = "stopped"
  /\ process' = IF \A row \in file : Fits(row) THEN "running" ELSE "refused"
  /\ UNCHANGED file

SavedNext ==
  \/ \E kind \in DOMAIN Shortest : RequestRow(kind)
  \/ AcquireDefinition \/ SubmitQaReport
  \/ Stop \/ Start

SavedSpec == SavedInit /\ [][SavedNext]_savedVars

-----------------------------------------------------------------------------
\* "default development platform stores acknowledge only durable commits and
\* survive forced process exit" (test/platformSnapshotPersistence.test.ts:41):
\* whatever was acknowledged, a process that stopped starts again on it.
AcknowledgedCommitsLoad == process # "refused"
=============================================================================
