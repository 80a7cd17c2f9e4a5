---------------------------- MODULE NotesServer ----------------------------
(***************************************************************************)
(* NotesService as it runs: the goroutines of the Connect server, each     *)
(* handling one request, share a bounded connection pool and PostgreSQL.   *)
(* One action is one statement or one critical step of a handler.          *)
(*                                                                         *)
(* PostgreSQL (READ COMMITTED) is modelled from how the repository uses    *)
(* it.  A statement sees what is committed and what its own transaction    *)
(* wrote.  An UPDATE or DELETE of a row waits for the transaction that     *)
(* changed the row last, then looks at the row again.  A transaction's     *)
(* writes are published, and its locks released, by COMMIT.                *)
(***************************************************************************)
EXTENDS NotesRules

CONSTANTS
  Requests,        \* requests, each handled once
  Calls,           \* Calls[r]: what request r may ask for
  InitialStores,   \* contents of the database when the server starts
  MaxConns,        \* size of the pgx pool
  Faults           \* whether timeouts, database errors and crashes occur

VARIABLES
  rows,      \* rows[n]: the committed row of table notes, or NoRow
  noteTags,  \* noteTags[n]: the committed tags of table note_tags
  issued,    \* ids that uuid_generate_v4 has produced
  clock,     \* clock_timestamp(): the last instant used as a timestamp
  call,      \* call[r]: what request r asks for
  pc,        \* pc[r]: the next step of r's handler
  tx,        \* tx[r]: the handler's working data and uncommitted writes
  resp,      \* resp[r]: the response
  applied    \* history: the requests whose writes were committed

vars == <<rows, noteTags, issued, clock, call, pc, tx, resp, applied>>
db == <<rows, noteTags>>

\* start: when the transaction began; want: the tags to insert; row, del and
\* ins: what it has done to its note's row and tags.
Tx == [id : NoteIDs \cup {NilID}, start : Nat, want : SUBSET Tags,
       row : Row, del : SUBSET Tags, ins : SUBSET Tags]

NewTx(c) == [id |-> c.note, start |-> 0, want |-> normalizeTags(c.tags),
             row |-> NoRow, del |-> {}, ins |-> {}]

StoreContents == [rows : [NoteIDs -> Row], tags : [NoteIDs -> SUBSET Tags]]

\* Notes written before the server starts are stamped 0, before clock ticks.
WellFormed(s) == \A n \in NoteIDs :
  /\ s.rows[n].updated = 0
  /\ Cardinality(s.tags[n]) <= MaxTags
  /\ s.rows[n].owner = 0 => s.rows[n] = NoRow /\ s.tags[n] = {}

ASSUME ServerAssumption ==
  /\ IsFiniteSet(Requests)
  /\ Calls \in [Requests -> SUBSET Call]
  /\ InitialStores \subseteq StoreContents
  /\ \A s \in InitialStores : WellFormed(s)
  /\ MaxConns \in Nat \ {0}
  /\ Faults \in BOOLEAN

-----------------------------------------------------------------------------
\* Variant: the connection is given back only after the note was read again.
HoldsConnDeferred == {"insert", "touch", "update", "delete", "count", "clear",
                      "tags", "commit", "reread"}

\* Steps at which a handler holds a pool connection: within a transaction, or
\* within DeleteNote's statement.
HoldsConn == {"insert", "touch", "update", "delete", "count", "clear",
              "tags", "commit"}

PoolHasRoom == Cardinality({r \in Requests : pc[r] \in HoldsConn}) < MaxConns

\* Steps at which a transaction has written, and so locked, its note's row.
Wrote == {"count", "clear", "tags", "commit"}
Locks(r, n) == pc[r] \in Wrote /\ tx[r].id = n
RowFree(n) == \A r \in Requests : ~Locks(r, n)

Steps == HoldsConn \cup {"receive", "read", "begin", "reread", "done"}
InFlight == Steps \ {"receive", "done"}

\* WHERE owner_user_id = $1 AND id = $2
Visible(r, n) == rows[n].owner = call[r].user
NoteAt(n) == [row |-> rows[n], tags |-> noteTags[n]]

Goto(r, step) == pc' = [pc EXCEPT ![r] = step]
Respond(r, answer) == Goto(r, "done") /\ resp' = [resp EXCEPT ![r] = answer]

-----------------------------------------------------------------------------
\* Interceptors, handler and service, up to the first use of the repository.
Receive(r) ==
  /\ pc[r] = "receive"
  /\ IF Admit(call[r]) # "ok"
       THEN Respond(r, Refuse(Admit(call[r]))) /\ UNCHANGED tx
       ELSE /\ Goto(r, CASE call[r].op = "get" -> "reread"
                         [] call[r].op = "add" -> "read"
                         [] OTHER -> "begin")
            /\ tx' = [tx EXCEPT ![r] = NewTx(call[r])]
            /\ UNCHANGED resp
  /\ UNCHANGED <<db, issued, clock, call, applied>>

\* Service.AddTags reads the note on a connection of its own, then normalises
\* what it read together with what was asked; that is what it will insert.
ReadExisting(r) ==
  /\ pc[r] = "read" /\ PoolHasRoom
  /\ LET n == tx[r].id
         merged == normalizeTags(noteTags[n] \cup call[r].tags)
     IN IF ~Visible(r, n) THEN Respond(r, Refuse("not_found")) /\ UNCHANGED tx
        ELSE IF TooManyTags(merged)
          THEN Respond(r, Refuse("invalid_argument")) /\ UNCHANGED tx
        ELSE /\ Goto(r, "begin") /\ tx' = [tx EXCEPT ![r].want = merged]
             /\ UNCHANGED resp
  /\ UNCHANGED <<db, issued, clock, call, applied>>

\* pool.Begin, or pool.Exec taking a connection for DeleteNote.
Begin(r) ==
  /\ pc[r] = "begin" /\ PoolHasRoom
  /\ clock' = clock + 1
  /\ tx' = [tx EXCEPT ![r].start = clock']
  /\ Goto(r, CASE call[r].op = "create" -> "insert"
               [] call[r].op = "add" -> "touch"
               [] call[r].op = "update" -> "update"
               [] call[r].op = "delete" -> "delete")
  /\ UNCHANGED <<db, issued, call, resp, applied>>

\* Variant: the INSERT runs outside the transaction and is visible at once.
InsertNoteAutocommit(r) == \E n \in NoteIDs \ issued :
  /\ pc[r] = "insert"
  /\ issued' = issued \cup {n}
  /\ rows' = [rows EXCEPT ![n] =
                 [owner |-> call[r].user, body |-> call[r].body,
                  status |-> normalizeStatus(call[r].status),
                  created |-> tx[r].start, updated |-> tx[r].start]]
  /\ tx' = [tx EXCEPT ![r].id = n, ![r].row = rows'[n]]
  /\ Goto(r, "tags")
  /\ UNCHANGED <<noteTags, clock, call, resp, applied>>

\* INSERT INTO notes with a new UUID; NOW() is the start of the transaction.
InsertNote(r) == \E n \in NoteIDs \ issued :
  /\ pc[r] = "insert"
  /\ issued' = issued \cup {n}
  /\ tx' = [tx EXCEPT ![r].id = n, ![r].row =
              [owner |-> call[r].user, body |-> call[r].body,
               status |-> normalizeStatus(call[r].status),
               created |-> tx[r].start, updated |-> tx[r].start]]
  /\ Goto(r, "tags")
  /\ UNCHANGED <<db, clock, call, resp, applied>>

\* Variant: the row is read and written without waiting for its lock.
WriteRowUnlocked(r, from, to, row) ==
  /\ pc[r] = from /\ Visible(r, tx[r].id)
  /\ clock' = clock + 1
  /\ tx' = [tx EXCEPT ![r].row = row]
  /\ Goto(r, to)
  /\ UNCHANGED <<db, issued, call, applied, resp>>

\* UPDATE notes: waits for the row, then writes it if it is the caller's.  The
\* trigger set_notes_updated_at stamps it with clock_timestamp().
WriteRow(r, from, to, row) ==
  /\ pc[r] = from /\ RowFree(tx[r].id)
  /\ IF Visible(r, tx[r].id)
       THEN /\ clock' = clock + 1
            /\ tx' = [tx EXCEPT ![r].row = row]
            /\ Goto(r, to) /\ UNCHANGED resp
       ELSE Respond(r, Refuse("not_found")) /\ UNCHANGED <<clock, tx>>
  /\ UNCHANGED <<db, issued, call, applied>>

\* Variant: AddTags looks the note up with a SELECT and takes no row.
TouchNoteBySelect(r) ==
  /\ pc[r] = "touch"
  /\ IF Visible(r, tx[r].id)
       THEN /\ tx' = [tx EXCEPT ![r].row = rows[tx[r].id]]
            /\ Goto(r, "count") /\ UNCHANGED resp
       ELSE Respond(r, Refuse("not_found")) /\ UNCHANGED tx
  /\ UNCHANGED <<db, issued, clock, call, applied>>

TouchNote(r) ==
  WriteRow(r, "touch", "count", [rows[tx[r].id] EXCEPT !.updated = clock + 1])

\* Variant: updated_at = NOW(), the instant the transaction began.
UpdateNoteAtStart(r) ==
  WriteRow(r, "update", "clear",
           [rows[tx[r].id] EXCEPT !.body = call[r].body,
                                  !.status = normalizeStatus(call[r].status),
                                  !.updated = tx[r].start])

UpdateNote(r) ==
  WriteRow(r, "update", "clear",
           [rows[tx[r].id] EXCEPT !.body = call[r].body,
                                  !.status = normalizeStatus(call[r].status),
                                  !.updated = clock + 1])

\* Variant: AddTags trusts the count the service made before.
CountTagsNever(r) ==
  /\ pc[r] = "count" /\ Goto(r, "tags")
  /\ UNCHANGED <<db, issued, clock, call, tx, resp, applied>>

\* Variant: AddTags answers "too many tags" without rolling back its touch.
CountTagsKeepsTouch(r) ==
  /\ pc[r] = "count"
  /\ IF TooManyTags(noteTags[tx[r].id] \cup tx[r].want)
       THEN /\ Respond(r, Refuse("invalid_argument"))
            /\ rows' = [rows EXCEPT ![tx[r].id] = tx[r].row]
            /\ applied' = applied \cup {r}
       ELSE Goto(r, "tags") /\ UNCHANGED <<resp, rows, applied>>
  /\ UNCHANGED <<noteTags, issued, clock, call, tx>>

\* AddTags counts again, now holding the row; too many rolls back.
CountTags(r) ==
  /\ pc[r] = "count"
  /\ IF TooManyTags(noteTags[tx[r].id] \cup tx[r].want)
       THEN Respond(r, Refuse("invalid_argument"))
       ELSE Goto(r, "tags") /\ UNCHANGED resp
  /\ UNCHANGED <<db, issued, clock, call, tx, applied>>

\* Variant: UpdateNote leaves the old tags in place.
ClearTagsNot(r) ==
  /\ pc[r] = "clear" /\ Goto(r, "tags")
  /\ UNCHANGED <<db, issued, clock, call, tx, resp, applied>>

ClearTags(r) ==
  /\ pc[r] = "clear"
  /\ tx' = [tx EXCEPT ![r].del = noteTags[tx[r].id]]
  /\ Goto(r, "tags")
  /\ UNCHANGED <<db, issued, clock, call, resp, applied>>

InsertTags(r) ==
  /\ pc[r] = "tags"
  /\ tx' = [tx EXCEPT ![r].ins = tx[r].want]
  /\ Goto(r, "commit")
  /\ UNCHANGED <<db, issued, clock, call, resp, applied>>

\* What COMMIT makes visible.
Publish(r) == LET t == tx[r] IN
  /\ rows' = [rows EXCEPT ![t.id] = t.row]
  /\ noteTags' = [noteTags EXCEPT ![t.id] = (@ \ t.del) \cup t.ins]
  /\ applied' = applied \cup {r}

Commit(r) ==
  /\ pc[r] = "commit"
  /\ Publish(r) /\ Goto(r, "reread")
  /\ UNCHANGED <<issued, clock, call, tx, resp>>

\* Variant: WHERE id = $2 only.
GetNoteOfAnyone(r) ==
  /\ pc[r] = "reread" /\ PoolHasRoom
  /\ Respond(r, IF rows[tx[r].id] = NoRow THEN Refuse("not_found")
                ELSE Answer("ok", NoteAt(tx[r].id)))
  /\ UNCHANGED <<db, issued, clock, call, tx, applied>>

\* PostgresRepository.GetNote, on any connection, for GetNote and after every
\* committed write; then connectvalidate looks at the response.
GetNote(r) ==
  /\ pc[r] = "reread" /\ PoolHasRoom
  /\ LET note == NoteAt(tx[r].id)
     IN Respond(r, IF ~Visible(r, tx[r].id) THEN Refuse("not_found")
                   ELSE IF ValidNote(note) THEN Answer("ok", note)
                   ELSE Refuse("internal"))
  /\ UNCHANGED <<db, issued, clock, call, tx, applied>>

\* Variant: the foreign key does not cascade.
EraseRowOnly(r) ==
  /\ rows' = [rows EXCEPT ![tx[r].id] = NoRow]
  /\ applied' = applied \cup {r}
  /\ UNCHANGED noteTags

\* DELETE FROM notes, the cascade to note_tags included.
Erase(r) == LET n == tx[r].id IN
  /\ rows' = [rows EXCEPT ![n] = NoRow]
  /\ noteTags' = [noteTags EXCEPT ![n] = {}]
  /\ applied' = applied \cup {r}

\* Variant: without the owner in the WHERE.
DeleteNoteOfAnyone(r) ==
  /\ pc[r] = "delete" /\ RowFree(tx[r].id)
  /\ Erase(r) /\ Respond(r, Answer("ok", NoNote))
  /\ UNCHANGED <<issued, clock, call, tx>>

DeleteNote(r) ==
  /\ pc[r] = "delete" /\ RowFree(tx[r].id)
  /\ IF Visible(r, tx[r].id)
       THEN Erase(r) /\ Respond(r, Answer("ok", NoNote))
       ELSE Respond(r, Refuse("not_found")) /\ UNCHANGED <<db, applied>>
  /\ UNCHANGED <<issued, clock, call, tx>>

-----------------------------------------------------------------------------
\* A statement fails or the request's deadline passes: the transaction is
\* rolled back and mapError answers with "internal error".
Fail(r) ==
  /\ Faults /\ pc[r] \in InFlight
  /\ Respond(r, Refuse("internal"))
  /\ UNCHANGED <<db, issued, clock, call, tx, applied>>

\* The same at a statement PostgreSQL has carried out all the same.
FailAfterEffect(r) ==
  /\ Faults
  /\ \/ pc[r] = "commit" /\ Publish(r)
     \/ pc[r] = "delete" /\ RowFree(tx[r].id) /\ Visible(r, tx[r].id) /\ Erase(r)
  /\ Respond(r, Refuse("internal"))
  /\ UNCHANGED <<issued, clock, call, tx>>

\* The server process dies, and the sessions of its connections with it.
Crash == LET lost == {r \in Requests : pc[r] \in InFlight} IN
  /\ Faults /\ lost # {}
  /\ pc' = [r \in Requests |-> IF r \in lost THEN "done" ELSE pc[r]]
  /\ resp' = [r \in Requests |->
                IF r \in lost THEN Refuse("unavailable") ELSE resp[r]]
  /\ UNCHANGED <<db, issued, clock, call, tx, applied>>

Terminating == (\A r \in Requests : pc[r] = "done") /\ UNCHANGED vars

-----------------------------------------------------------------------------
Init ==
  /\ \E s \in InitialStores :
       /\ rows = s.rows
       /\ noteTags = s.tags
       /\ issued = {n \in NoteIDs : s.rows[n] # NoRow}
  /\ clock = 0
  /\ call \in {f \in [Requests -> UNION {Calls[r] : r \in Requests}] :
                 \A r \in Requests : f[r] \in Calls[r]}
  /\ pc = [r \in Requests |-> "receive"]
  /\ tx = [r \in Requests |-> NewTx(call[r])]
  /\ resp = [r \in Requests |-> Refuse("none")]
  /\ applied = {}

\* What the goroutine serving r does next.
Handle(r) ==
  \/ ReadExisting(r) \/ Begin(r)
  \/ InsertNote(r) \/ TouchNote(r) \/ UpdateNote(r)
  \/ CountTags(r) \/ ClearTags(r) \/ InsertTags(r) \/ Commit(r)
  \/ GetNote(r) \/ DeleteNote(r)

Next ==
  \/ \E r \in Requests :
       Receive(r) \/ Handle(r) \/ Fail(r) \/ FailAfterEffect(r)
  \/ Crash
  \/ Terminating

Spec == Init /\ [][Next]_vars

\* Goroutines are scheduled fairly, and both the pool and PostgreSQL's row
\* locks serve waiters in turn.  Nothing forces clients to call, nor faults.
FairSpec == Spec /\ \A r \in Requests : WF_vars(Handle(r))
-----------------------------------------------------------------------------
TypeOK ==
  /\ rows \in [NoteIDs -> Row]
  /\ noteTags \in [NoteIDs -> SUBSET Tags]
  /\ issued \subseteq NoteIDs
  /\ clock \in Nat
  /\ call \in [Requests -> Call]
  /\ pc \in [Requests -> Steps]
  /\ tx \in [Requests -> Tx]
  /\ resp \in [Requests -> [code : Codes, note : Note]]
  /\ applied \subseteq Requests

\* No committed note carries more than MaxTags tags, whatever AddTags,
\* UpdateNote and DeleteNote calls on it overlap: the count in AddTags is
\* still true when its inserts commit (storage_postgres.go, AddTags).
TagLimit == \A n \in NoteIDs : Cardinality(noteTags[n]) <= MaxTags

\* Two transactions never both have uncommitted writes on one note, and the
\* note a transaction writes to is still there, the caller's, until it ends:
\* its tag inserts cannot fail on the foreign key.
WriterOwnsRow == \A r \in Requests : pc[r] \in Wrote =>
  /\ \A s \in Requests \ {r} : ~Locks(s, tx[r].id)
  /\ call[r].op # "create" => Visible(r, tx[r].id)

\* A deleted note leaves no tags behind and comes back neither by an update
\* nor by an AddTags that overlaps the delete.
TagsBelongToNotes == \A n \in NoteIDs :
  rows[n].owner = 0 => rows[n] = NoRow /\ noteTags[n] = {}

\* A successful write is answered with the note as that write left it or as a
\* later write did, never with an older or a mixed state, although the note is
\* read again outside the transaction after COMMIT.
AnswersOwnWrite == \A r \in Requests :
  LET a == resp[r].note.row
      t == tx[r].row
  IN resp[r].code = "ok" /\ call[r].op \in {"create", "add", "update"} =>
       /\ a.owner = call[r].user
       /\ a.updated >= t.updated
       /\ a.updated = t.updated =>
            /\ a = t
            /\ tx[r].ins \subseteq resp[r].note.tags
            /\ call[r].op # "add" => resp[r].note.tags = tx[r].ins

\* The codes mean what mapError says: a request refused as invalid,
\* unauthenticated or forbidden changed nothing, and one answered not_found
\* either changed nothing or wrote to a note that was deleted since.
RefusedMeansUnchanged == \A r \in applied :
  /\ resp[r].code \notin {"invalid_argument", "unauthenticated", "permission_denied"}
  /\ resp[r].code = "not_found" =>
       rows[tx[r].id] = NoRow /\ tx[r].id \in issued

\* A note changes only as the first and only effect of a request that its
\* owner made with a write scope (requireOwner, and owner_user_id = $1 in every
\* statement).
OnlyOwnerWrites ==
  [][\A n \in NoteIDs : NoteAt(n)' # NoteAt(n) =>
       \E r \in applied' \ applied :
         /\ rows[n].owner \in {0, call[r].user}
         /\ rows'[n].owner \in {0, call[r].user}
         /\ call[r].user # 0
         /\ {"notes:write", "notes:admin"} \cap call[r].scopes # {}]_vars

\* A reader with notes:read learns of notes of his own only.
OnlyOwnerReads == \A r \in Requests :
  resp[r].note # NoNote =>
    /\ resp[r].note.row.owner = call[r].user
    /\ HasScope(call[r], RequiredScope(call[r].op))

\* updated_at of a note only moves forward, in commit order: the order in
\* which listRecentNotesSQL sorts is the order of the last writes.
UpdatedAtAdvances ==
  [][\A n \in NoteIDs :
       rows[n] # NoRow /\ rows'[n] # NoRow /\ NoteAt(n)' # NoteAt(n) =>
         rows'[n].updated > rows[n].updated]_vars

\* Every admitted request is answered: handlers wait for pool connections and
\* for row locks, but never for each other in a circle.
AllAnswered == \A r \in Requests : pc[r] \in InFlight ~> pc[r] = "done"

-----------------------------------------------------------------------------
\* AddTags "merges the supplied tags with the note's existing tags"
\* (service.go:131): committing it adds to a note only tags that were asked for.
AddTagsAddsOnlySupplied ==
  [][\A r \in applied' \ applied : call[r].op = "add" =>
       noteTags'[tx[r].id] \ noteTags[tx[r].id]
         \subseteq normalizeTags(call[r].tags)]_vars

\* "Full replacement update. An empty body/category is allowed"
\* (notes.proto:223): an update that was carried out is not answered with a
\* failure, as long as nothing fails.
EmptyBodyAllowed == \A r \in applied :
  ~Faults /\ call[r].op = "update" => resp[r].code # "internal"

-----------------------------------------------------------------------------
\* The inductive invariant behind the safety properties above.

\* Which operations have a step of this name.
OpsAt(step) ==
  CASE step = "read" -> {"add"}
    [] step = "begin" -> {"create", "add", "update", "delete"}
    [] step = "insert" -> {"create"}
    [] step \in {"touch", "count"} -> {"add"}
    [] step \in {"update", "clear"} -> {"update"}
    [] step = "delete" -> {"delete"}
    [] step \in {"tags", "commit"} -> {"create", "add", "update"}
    [] step = "reread" -> {"create", "get", "add", "update"}
    [] OTHER -> Ops

\* A request in flight was admitted, is at a step of its operation, and knows
\* its note, which a create does only once it has inserted it.
InFlightOK == \A r \in Requests : pc[r] \in InFlight =>
  /\ Admit(call[r]) = "ok"
  /\ call[r].op \in OpsAt(pc[r])
  /\ call[r].op # "create" => tx[r].id = call[r].note
  /\ pc[r] \in Wrote \cup {"reread"} => tx[r].id \in NoteIDs

\* Ids that were never issued name nothing; a writer's id was issued.
IdsOK ==
  /\ \A n \in NoteIDs \ issued : NoteAt(n) = NoNote
  /\ \A r \in Requests : pc[r] \in Wrote => tx[r].id \in issued

\* A transaction's uncommitted row is a newer row of its caller's note, and a
\* create's note is not there yet.
RowsOK ==
  /\ \A n \in NoteIDs : rows[n].updated <= clock
  /\ \A r \in Requests : pc[r] = "insert" => tx[r].start <= clock
  /\ \A r \in Requests : pc[r] \in Wrote =>
       /\ tx[r].row.owner = call[r].user
       /\ tx[r].row.updated <= clock
       /\ call[r].op # "create" => tx[r].row.updated > rows[tx[r].id].updated
       /\ call[r].op = "create" => NoteAt(tx[r].id) = NoNote

\* The tags a transaction will leave are few enough, counted against what is
\* committed now, because nobody else can commit to its note.
TagsOK == \A r \in Requests :
  /\ pc[r] \in InFlight \ {"tags", "commit", "reread"} => tx[r].del = {}
  /\ pc[r] \in InFlight /\ call[r].op \in {"create", "update"} =>
       Cardinality(tx[r].want) <= MaxTags
  /\ pc[r] \in {"tags", "commit"} =>
       Cardinality((noteTags[tx[r].id] \ tx[r].del) \cup tx[r].want) <= MaxTags
  /\ pc[r] = "commit" => tx[r].ins = tx[r].want

\* Nothing is committed for a request before its commit or delete step.
AppliedOK == \A r \in applied : pc[r] \in {"reread", "done"}

IInv ==
  /\ TypeOK /\ InFlightOK /\ IdsOK /\ RowsOK /\ TagsOK /\ AppliedOK
  /\ TagLimit /\ WriterOwnsRow /\ TagsBelongToNotes

-----------------------------------------------------------------------------
\* What the answers, and the implementation of NotesStore, need besides.

\* A request is answered when it is done, and reads back a note only after its
\* own effect on it.
Unanswered(r) ==
  /\ pc[r] # "done" => resp[r] = Refuse("none")
  /\ pc[r] = "reread" /\ call[r].op # "get" => r \in applied

\* The row that the request asks for, stamped t, given what is committed.
AskedRow(r, t) ==
  CASE call[r].op = "create" ->
         [owner |-> call[r].user, body |-> call[r].body,
          status |-> normalizeStatus(call[r].status), created |-> t, updated |-> t]
    [] call[r].op = "update" ->
         [rows[tx[r].id] EXCEPT !.body = call[r].body, !.updated = t,
                                !.status = normalizeStatus(call[r].status)]
    [] OTHER -> [rows[tx[r].id] EXCEPT !.updated = t]

\* A transaction writes what its request asks for on top of the committed note,
\* which stays what it was when the transaction looked at it.
WritesAsked(r) ==
  /\ pc[r] \in InFlight /\ call[r].op \in {"create", "update"} =>
       tx[r].want = normalizeTags(call[r].tags)
  /\ pc[r] \in InFlight /\ call[r].op = "add" =>
       normalizeTags(call[r].tags) \subseteq tx[r].want
  /\ pc[r] \in Wrote => tx[r].row = AskedRow(r, tx[r].row.updated)
  /\ pc[r] \in {"tags", "commit"} =>
       IF call[r].op = "add" THEN tx[r].del = {}
                             ELSE noteTags[tx[r].id] \subseteq tx[r].del

\* A note that a request wrote is as that request left it, or was written later
\* by its owner, or is gone for good.
LeavesTrace(r) == r \in applied => LET n == tx[r].id IN
  /\ n \in issued
  /\ rows[n] = NoRow \/ rows[n].owner = call[r].user
  /\ \A q \in Requests : pc[q] \in Wrote /\ call[q].op = "create" => tx[q].id # n
  /\ call[r].op \in {"create", "add", "update"} /\ rows[n] # NoRow =>
       /\ rows[n].updated >= tx[r].row.updated
       /\ rows[n].updated = tx[r].row.updated =>
            /\ rows[n] = tx[r].row
            /\ tx[r].ins \subseteq noteTags[n]
            /\ call[r].op # "add" => noteTags[n] = tx[r].ins

\* The clock ticks when a transaction begins and when it writes its row.
Began == {r \in Requests : pc[r] \notin {"receive", "read", "begin"}}
BeyondRow == {r \in Began : pc[r] \notin {"insert", "touch", "update", "delete"}}
ClockOK == clock <= Cardinality(Began) + Cardinality(BeyondRow)

ServerInv ==
  /\ IInv
  /\ \A r \in Requests : Unanswered(r) /\ WritesAsked(r) /\ LeavesTrace(r)
  /\ ClockOK
  /\ AnswersOwnWrite /\ RefusedMeansUnchanged /\ OnlyOwnerReads

-----------------------------------------------------------------------------
\* NotesServer implements NotesStore: a note is its row and its tags, a write
\* takes effect at COMMIT, and the response is chosen at the re-read.
Phase(r) ==
  CASE pc[r] = "receive" -> "idle"
    [] pc[r] = "done" -> "done"
    [] pc[r] = "reread" /\ call[r].op # "get" -> "applied"
    [] OTHER -> "pending"

Target(r) == IF call[r].op # "create" THEN call[r].note
             ELSE IF r \in applied THEN tx[r].id ELSE NilID

Store == INSTANCE NotesStore WITH
  notes <- [n \in NoteIDs |-> NoteAt(n)],
  target <- [r \in Requests |-> Target(r)],
  phase <- [r \in Requests |-> Phase(r)],
  answer <- resp,
  Stamps <- 0 .. 2 * Cardinality(Requests)   \* a request ticks at most twice

\* Every run of the server is a run of the abstract store: writes are atomic
\* and take effect at most once, answers show a state the store was in.
ImplementsStore == Store!Spec
=============================================================================
