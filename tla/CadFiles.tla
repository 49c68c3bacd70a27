------------------------------ MODULE CadFiles ------------------------------
(***************************************************************************)
(* What CAD data is given to the parsers and the views: STEP files, each   *)
(* with a snapshot before it, the one made of it, and their mappings;      *)
(* bills of materials that Onshape sends, as tables or as lists of the     *)
(* instances of an assembly.  Nothing changes one of them.                 *)
(***************************************************************************)
EXTENDS CadViews, OnshapeGraph

CONSTANTS
    StepFiles,           \* [file, old, new, was, is]; the mappings was and is are of old and new
    Tables,
    InstanceLists,
    WorkspaceRecords     \* what mappings may have as targets, by kind and name

\* Snapshots come from a parser, and a file with usages has been parsed as it is.
ASSUME StepFilesAssumption ==
    \A f \in StepFiles :
        /\ IsSnapshot(f.old)
        /\ IF f.file.usages = <<>> THEN IsSnapshot(f.new)
           ELSE IsFile(f.file) /\ f.new = Parsed(f.file)

ASSUME BillsAssumption ==
    /\ \A rows \in Tables : IsTable(rows)
    /\ \A instances \in InstanceLists : IsList(instances)

VARIABLES side, files

FilesInit ==
    \/ side = "files" /\ files \in StepFiles
    \/ side = "tables" /\ files \in Tables
    \/ side = "instances" /\ files \in InstanceLists

FilesSpec == FilesInit /\ [][FALSE]_<<side, files>>

-----------------------------------------------------------------------------
\* StepTree and OnshapeGraph: a STEP file is kept as it is, in any combination of usages,
\* and so is a bill of materials, imported once or again.
FilesAreKept ==
    /\ side = "files" /\ files.file.usages # <<>> => Kept(files.file)
    /\ side = "tables" => TableKept(files)
    /\ side = "instances" => InstancesKept(files)

\* CadViews: the views of a snapshot agree with each other, and a diff tells what changed.
ViewsAgree == side = "files" =>
    /\ files.file.usages # <<>> => Agreeing(files.new, files.is, WorkspaceRecords)
    /\ Telling(files.old, files.new, files.was, files.is)
=============================================================================
