----------------------------- MODULE ApmDataDumper -----------------------------
(***************************************************************************)
(* logging/apm_data_dumper: a debug file for each name, in the working     *)
(* directory, which can be written.  A file is opened, and what an earlier *)
(* run left in it is lost, when this instance first dumps to its name; the *)
(* files of the other names stay as they are.                              *)
(***************************************************************************)
EXTENDS Naturals

CONSTANT MaxRecords    \* bound: the dumps counted

VARIABLE raw_files     \* the records in the file of each name opened

DumperInit == raw_files = [name \in {} |-> 0]

Opened(name) == name \in DOMAIN raw_files

\* A mutant of the definition that follows: a file is opened for every dump.
GetRawFileAlways(name) == 0

\* The records in the file that is opened or found.
GetRawFile(name) == IF Opened(name) THEN raw_files[name] ELSE 0

\* A dump to each of the names.
DumpRaw(names) ==
  raw_files' = [name \in names \cup DOMAIN raw_files |->
                  IF name \in names /\ GetRawFile(name) < MaxRecords
                  THEN GetRawFile(name) + 1
                  ELSE GetRawFile(name)]
================================================================================
