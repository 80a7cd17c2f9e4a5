--------------------------- MODULE MCNotesServer ---------------------------
(***************************************************************************)
(* Small instances of NotesServer: two or three requests, which may all    *)
(* meet on one note of owner 1, tags limited to two of three.              *)
(***************************************************************************)
EXTENDS NotesServer

CONSTANTS r1, r2, r3, n1, n2, n3

MCNoteIDs == {n1, n2, n3}
MCRawTags == {"Go", "go", "db", "ui", " "}
MCNorm == [t \in MCRawTags |->
             CASE t = "Go" -> "go" [] t = " " -> "" [] OTHER -> t]
MCBodies == {"", "text"}

\* Notes that exist when the server starts.
NoteRow(owner) == [NoRow EXCEPT !.owner = owner, !.body = "old"]
OldBodies == MCBodies \cup {"old"}
NoNotes == [rows |-> [n \in MCNoteIDs |-> NoRow],
            tags |-> [n \in MCNoteIDs |-> {}]]
OneNote == [rows |-> [NoNotes.rows EXCEPT ![n1] = NoteRow(1)],
            tags |-> [NoNotes.tags EXCEPT ![n1] = {"go"}]]
TwoNotes == [rows |-> [OneNote.rows EXCEPT ![n2] = NoteRow(2)],
             tags |-> [OneNote.tags EXCEPT ![n2] = {"db"}]]
JustOneNote == {OneNote}
BothNotes == {TwoNotes}

\* Calls of owner 1 on note n1, unless changed.
A(op) == [op |-> op, user |-> 1, scopes |-> {"notes:read", "notes:write"},
          note |-> n1, titled |-> TRUE, body |-> "text", status |-> "absent",
          tags |-> {}]
Create(tags) == [A("create") EXCEPT !.note = NilID, !.tags = tags]
Add(tags) == [A("add") EXCEPT !.tags = tags]
Update(tags) == [A("update") EXCEPT !.tags = tags, !.status = "final"]
Get == A("get")
Delete == A("delete")

\* Everything that can happen to one note at once.
Writes == {Add({"Go", "db"}), Add({"db"}), Add({"ui"}), Update({"go", "ui"}), Update({}),
           Create({"db", "ui"}), Delete}
RaceCalls == [r \in {r1, r2, r3} |->
                CASE r = r1 -> {Add({"Go", "db"}), Add({"ui"}), Update({"go", "ui"}), Delete}
                  [] r = r2 -> Writes
                  [] r = r3 -> {Add({"ui"}), Update({"db"}), Get, Delete}]

\* Callers who lack something: a token, a scope, the note, a valid request.
Strangers ==
  {[c EXCEPT !.user = u, !.scopes = s] :
     c \in {Get, Add({"ui"}), Update({"ui"}), Delete},
     u \in {0, 2}, s \in {{"notes:read"}, {"notes:write"}, {"notes:admin"}}}
Malformed ==
  {Add({}), Add({" ", "go"}), Add({"go", "db", "ui"}),
   [Update({}) EXCEPT !.titled = FALSE], [Update({}) EXCEPT !.status = "unspecified"],
   [Delete EXCEPT !.note = NilID], [Get EXCEPT !.note = n2], [Delete EXCEPT !.note = n3],
   Create({"Go", "go"})}
FaultCalls == [r \in {r1, r2} |->
                 IF r = r1 THEN Writes \cup {Get} ELSE Writes \cup {Get} \cup Strangers \cup Malformed]

\* An AddTags that overlaps an update which replaces the tags.
MergeCalls == [r \in {r1, r2, r3} |->
                 CASE r = r1 -> {Add({"ui"})} [] r = r2 -> {Update({})} [] r = r3 -> {Get}]
\* Updates whose body is empty.
EmptyBodyCalls == [r \in {r1, r2, r3} |->
                     IF r = r1 THEN {[Update({}) EXCEPT !.body = ""]} ELSE {Get}]
=============================================================================
