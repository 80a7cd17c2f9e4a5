---------------------------- MODULE MCServerLife ----------------------------
(***************************************************************************)
(* A process of the present version and one of the version before, on a    *)
(* new database, in environments that are good, hasty or refused.          *)
(***************************************************************************)
EXTENDS ServerLife

CONSTANTS new, old

Binaries == [s \in {new, old} |-> IF s = old THEN 1 ELSE 2]

\* The shape of 000001_create_notes.sql and 000002_add_note_status.sql: seven
\* statements, one of them a block, and one statement.
CreateNotes ==
  <<"up", "comment", "sql;", "comment", "sql", "sql;", "sql", "sql;",
    "sql", "sql;", "sql", "sql;", "comment", "begin", "sql", "sql;", "sql;",
    "end", "sql", "sql;", "down", "begin", "sql;", "end", "sql;", "comment">>
AddNoteStatus == <<"up", "sql", "sql;", "down", "sql;">>

FileStatements == <<7, 1>>
ASSUME FileAssumption == FileStatements =
  <<Len(ParseDBMateUp(CreateNotes)), Len(ParseDBMateUp(AddNoteStatus))>>

Unset == [set |-> FALSE, n |-> 0]
Set(n) == [set |-> TRUE, n |-> n]
Usual == [wellFormed |-> TRUE, mode |-> "jwt", token |-> FALSE, secret |-> TRUE,
          user |-> Unset, shutdown |-> Unset, request |-> Unset]

\* Good: a handler ends in time, and a shutdown outlasts it.
Patient == [Usual EXCEPT !.shutdown = Set(3), !.request = Set(1)]
EnvironmentSets == [s \in {new, old} |-> IF s = old THEN {Usual} ELSE {
  Patient,
  [Patient EXCEPT !.request = Set(3), !.shutdown = Set(4)],
  [Patient EXCEPT !.request = Set(5)],
  [Patient EXCEPT !.mode = "dev", !.token = TRUE, !.user = Set(0)]}]
=============================================================================
