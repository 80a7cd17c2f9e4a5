------------------------- MODULE NotesAnswersProofs -------------------------
(***************************************************************************)
(* What NotesServer's answers mean, and that it implements NotesStore, for *)
(* any number of requests, notes, owners and tags.  The inductive          *)
(* invariant is ServerInv: IInv, proved in NotesServerProofs, and what a   *)
(* request leaves behind in the tables once its effect is committed.       *)
(***************************************************************************)
EXTENDS NotesServerProofs

-----------------------------------------------------------------------------
\* ServerInv regrouped: what it says of one request.

Answered(r) ==
  /\ resp[r].code = "ok" /\ call[r].op \in {"create", "add", "update"} =>
       /\ resp[r].note.row.owner = call[r].user
       /\ resp[r].note.row.updated >= tx[r].row.updated
       /\ resp[r].note.row.updated = tx[r].row.updated =>
            /\ resp[r].note.row = tx[r].row
            /\ tx[r].ins \subseteq resp[r].note.tags
            /\ call[r].op # "add" => resp[r].note.tags = tx[r].ins
  /\ r \in applied =>
       /\ resp[r].code \notin {"invalid_argument", "unauthenticated", "permission_denied"}
       /\ resp[r].code = "not_found" =>
            rows[tx[r].id] = NoRow /\ tx[r].id \in issued
  /\ resp[r].note # NoNote =>
       /\ resp[r].note.row.owner = call[r].user
       /\ HasScope(call[r], RequiredScope(call[r].op))

Kept(r) == Unanswered(r) /\ WritesAsked(r) /\ LeavesTrace(r) /\ Answered(r)

LEMMA RegroupKept ==
  ServerInv <=> IInv /\ ClockOK /\ \A r \in Requests : Kept(r)
<1>1. ASSUME IInv
      PROVE  AnswersOwnWrite /\ RefusedMeansUnchanged /\ OnlyOwnerReads
             <=> \A r \in Requests : Answered(r)
  BY <1>1 DEF IInv, TypeOK, AnswersOwnWrite, RefusedMeansUnchanged, OnlyOwnerReads, Answered
<1>. QED  BY <1>1 DEF ServerInv, Kept

LEMMA RegroupKeptNext ==
  ASSUME IInv', ClockOK', \A r \in Requests : Kept(r)'
  PROVE  ServerInv'
<1>1. applied' \subseteq Requests
  BY DEF IInv, TypeOK
<1>2. AnswersOwnWrite'
  BY DEF AnswersOwnWrite, Kept, Answered
<1>3. RefusedMeansUnchanged'
  BY <1>1 DEF RefusedMeansUnchanged, Kept, Answered
<1>4. OnlyOwnerReads'
  BY DEF OnlyOwnerReads, Kept, Answered
<1>. QED  BY <1>2, <1>3, <1>4 DEF ServerInv, Kept

LEMMA NoRowOwner == NoRow.owner = 0 /\ NoNote.row = NoRow /\ NoNote.tags = {}
BY DEF NoRow, NoNote

LEMMA RefuseFields ==
  ASSUME NEW code
  PROVE  Refuse(code).code = code /\ Refuse(code).note = NoNote
BY DEF Refuse, Answer

LEMMA InitServerInv == Init => ServerInv
<1> SUFFICES ASSUME Init PROVE ServerInv
  OBVIOUS
<1>1. IInv
  BY InitInv
<1>2. /\ pc = [r \in Requests |-> "receive"]
      /\ resp = [r \in Requests |-> Refuse("none")]
      /\ clock = 0 /\ applied = {}
  BY DEF Init
<1>3. ClockOK
  <2>1. Began = {} /\ BeyondRow = {}
    BY <1>2 DEF Began, BeyondRow
  <2>. QED  BY <1>2, <2>1, FS_EmptySet DEF ClockOK
<1>4. ASSUME NEW r \in Requests
      PROVE  Kept(r)
  <2>1. pc[r] = "receive" /\ resp[r] = Refuse("none") /\ r \notin applied
    BY <1>2
  <2>2. Answered(r)
    BY <2>1, RefuseFields DEF Answered
  <2>3. WritesAsked(r)
    BY <2>1 DEF WritesAsked, InFlight, Wrote
  <2>. QED  BY <2>1, <2>2, <2>3 DEF Kept, Unanswered, LeavesTrace
<1>. QED  BY <1>1, <1>3, <1>4, RegroupKept
-----------------------------------------------------------------------------
\* What a step of one request leaves of what is kept of the others.

LEMMA AskedRowStays ==
  ASSUME NEW q \in Requests, call' = call, tx'[q] = tx[q],
         rows'[tx[q].id] = rows[tx[q].id]
  PROVE  \A t : AskedRow(q, t)' = AskedRow(q, t)
BY DEF AskedRow

\* A step that writes no table.  A create chooses an id never issued.
LEMMA OthersQuiet ==
  ASSUME ServerInv, NEW r \in Requests, NEW q \in Requests \ {r},
         UNCHANGED <<db, call, applied>>, issued \subseteq issued',
         \A s \in Requests \ {r} : pc'[s] = pc[s] /\ tx'[s] = tx[s] /\ resp'[s] = resp[s],
         pc'[r] \in Wrote /\ call[r].op = "create" =>
           tx'[r].id \notin issued \/ (pc[r] \in Wrote /\ tx'[r].id = tx[r].id)
  PROVE  Kept(q)'
<1>1. Kept(q) /\ TypeOK
  BY RegroupKept, Regroup
<1>2. Unanswered(q)' /\ Answered(q)'
  BY <1>1 DEF Kept, Unanswered, Answered, db
<1>5. WritesAsked(q)'
  BY <1>1, AskedRowStays DEF Kept, WritesAsked, db
<1>3. ASSUME q \in applied, NEW s \in Requests, (pc[s] \in Wrote)', (call[s].op = "create")'
      PROVE  tx'[s].id # tx[q].id
  BY <1>1, <1>3 DEF Kept, LeavesTrace
<1>4. LeavesTrace(q)'
  BY <1>1, <1>3 DEF Kept, LeavesTrace, db
<1>. QED  BY <1>2, <1>4, <1>5 DEF Kept

\* A step that makes r's effect on note n visible: n is gone, or is new to
\* everybody, or is its owner's still and newer than before.
LEMMA OthersEffect ==
  ASSUME ServerInv, NEW r \in Requests, NEW n \in NoteIDs, NEW q \in Requests \ {r},
         UNCHANGED <<issued, call>>, applied' = applied \cup {r},
         \A s \in Requests \ {r} : pc'[s] = pc[s] /\ tx'[s] = tx[s] /\ resp'[s] = resp[s],
         pc'[r] \notin Wrote,
         \A s \in Requests \ {r} : ~Locks(s, n),
         \A m \in NoteIDs \ {n} : rows'[m] = rows[m] /\ noteTags'[m] = noteTags[m],
         rows'[n] \in Row,
         \/ rows'[n] = NoRow
         \/ \A s \in applied : tx[s].id # n
         \/ /\ rows[n] # NoRow /\ rows'[n].owner = rows[n].owner
            /\ rows'[n].updated > rows[n].updated
  PROVE  Kept(q)'
<1>1. Kept(q) /\ TypeOK /\ Local(q)
  BY RegroupKept, Regroup
<1>2. pc[q] \in Wrote => tx[q].id \in NoteIDs \ {n}
  BY <1>1 DEF Local, WriterPart, Locks, TypeOK
<1>3. Unanswered(q)'
  BY <1>1 DEF Kept, Unanswered
<1>4. WritesAsked(q)'
  BY <1>1, <1>2, AskedRowStays DEF Kept, WritesAsked, Wrote
<1>5. ASSUME NEW s \in Requests, pc'[s] \in Wrote
      PROVE  pc[s] \in Wrote /\ tx'[s].id = tx[s].id
  BY <1>5
<1>6. LeavesTrace(q)' /\ Answered(q)'
  <2>1. CASE q \notin applied
    BY <1>1, <2>1 DEF Kept, LeavesTrace, Answered
  <2>2. CASE q \in applied /\ tx[q].id # n
    <3>1. tx[q].id \in NoteIDs \ {n}
      BY <1>1, <2>2 DEF Kept, LeavesTrace, TypeOK
    <3>. QED  BY <1>1, <1>5, <2>2, <3>1 DEF Kept, LeavesTrace, Answered
  <2>3. CASE q \in applied /\ tx[q].id = n /\ rows'[n] = NoRow
    BY <1>1, <1>5, <2>3 DEF Kept, LeavesTrace, Answered
  <2>4. CASE /\ q \in applied /\ tx[q].id = n
             /\ rows[n] # NoRow /\ rows'[n].owner = rows[n].owner
             /\ rows'[n].updated > rows[n].updated
    <3>1. /\ rows'[n].updated \in Nat /\ rows[n].updated \in Nat
          /\ tx[q].row.updated \in Nat
      BY <1>1 DEF TypeOK, Row, Tx
    <3>2. call[q].op \in {"create", "add", "update"} =>
            rows'[n].updated > tx[q].row.updated
      BY <1>1, <2>4, <3>1 DEF Kept, LeavesTrace
    <3>3. resp[q].code # "not_found"
      BY <1>1, <2>4 DEF Kept, Answered
    <3>4. rows'[n].owner = call[q].user
      BY <1>1, <2>4 DEF Kept, LeavesTrace
    <3>5. LeavesTrace(q)'
      BY <1>1, <1>5, <2>4, <3>1, <3>2, <3>4 DEF Kept, LeavesTrace
    <3>. QED  BY <1>1, <2>4, <3>3, <3>5 DEF Kept, Answered
  <2>. QED  BY <2>1, <2>2, <2>3, <2>4
<1>. QED  BY <1>3, <1>4, <1>6 DEF Kept

-----------------------------------------------------------------------------
\* The clock has ticked at most once per request that has begun, and once more
\* per request that has written its row.
LEMMA ClockStep ==
  ASSUME TypeOK, ClockOK, Began \subseteq Began', BeyondRow \subseteq BeyondRow',
         \/ clock' = clock
         \/ /\ clock' = clock + 1
            /\ \E r \in Requests : r \in Began' \ Began \/ r \in BeyondRow' \ BeyondRow
  PROVE  ClockOK'
<1>1. /\ IsFiniteSet(Began) /\ IsFiniteSet(BeyondRow)
      /\ IsFiniteSet(Began') /\ IsFiniteSet(BeyondRow')
  <2>1. /\ Began \subseteq Requests /\ BeyondRow \subseteq Requests
        /\ Began' \subseteq Requests /\ BeyondRow' \subseteq Requests
    BY DEF Began, BeyondRow
  <2>. QED  BY <2>1, ServerAssumption, FS_Subset
<1> DEFINE b == Cardinality(Began)
           w == Cardinality(BeyondRow)
           bb == Cardinality(Began')
           ww == Cardinality(BeyondRow')
<1>2. b \in Nat /\ w \in Nat /\ bb \in Nat /\ ww \in Nat
  BY <1>1, FS_CardinalityType
<1>3. b <= bb /\ w <= ww
  BY <1>1, FS_Subset
<1>4. clock <= b + w /\ clock \in Nat
  BY DEF ClockOK, TypeOK
<1>5. clock' <= bb + ww
  <2>1. CASE clock' = clock
    BY <1>2, <1>3, <1>4, <2>1
  <2>2. ASSUME clock' = clock + 1, NEW r \in Began' \ Began
        PROVE  clock' <= bb + ww
    <3>1. Cardinality(Began \cup {r}) = b + 1
      BY <1>1, <2>2, FS_AddElement
    <3>2. Cardinality(Began \cup {r}) <= bb
      BY <1>1, <2>2, FS_Subset
    <3>. QED  BY <1>2, <1>3, <1>4, <2>2, <3>1, <3>2
  <2>3. ASSUME clock' = clock + 1, NEW r \in BeyondRow' \ BeyondRow
        PROVE  clock' <= bb + ww
    <3>1. Cardinality(BeyondRow \cup {r}) = w + 1
      BY <1>1, <2>3, FS_AddElement
    <3>2. Cardinality(BeyondRow \cup {r}) <= ww
      BY <1>1, <2>3, FS_Subset
    <3>. QED  BY <1>2, <1>3, <1>4, <2>3, <3>1, <3>2
  <2>. QED  BY <2>1, <2>2, <2>3
<1>. QED  BY <1>5 DEF ClockOK

\* A step that moves one request, none of them back, and does not tick.
LEMMA ClockStays ==
  ASSUME TypeOK, ClockOK, NEW r \in Requests, clock' = clock,
         \A q \in Requests \ {r} : pc'[q] = pc[q],
         pc'[r] \notin {"receive", "read", "insert", "touch", "update", "delete"},
         pc'[r] = "begin" => pc[r] \in {"receive", "read", "begin"}
  PROVE  ClockOK'
<1>1. Began \subseteq Began' /\ BeyondRow \subseteq BeyondRow'
  BY DEF Began, BeyondRow
<1>. QED  BY <1>1, ClockStep

-----------------------------------------------------------------------------
\* Each action preserves ServerInv.

LEMMA StepKept ==
  ASSUME IInv', ClockOK', NEW r \in Requests, Kept(r)',
         \A q \in Requests \ {r} : Kept(q)'
  PROVE  ServerInv'
BY RegroupKeptNext

\* A request without an effect is refused.
LEMMA RefusedKept ==
  ASSUME ServerInv, IInv', NEW r \in Requests, NEW code, code # "ok",
         Respond(r, Refuse(code)), r \notin applied,
         UNCHANGED <<db, issued, clock, call, tx, applied>>
  PROVE  ServerInv'
<1>1. TypeOK /\ ClockOK
  BY RegroupKept, Regroup
<1>2. /\ pc'[r] = "done" /\ resp'[r] = Refuse(code)
      /\ \A s \in Requests \ {r} : pc'[s] = pc[s] /\ tx'[s] = tx[s] /\ resp'[s] = resp[s]
  BY <1>1 DEF Respond, Goto, TypeOK
<1>3. Kept(r)'
  BY <1>2, RefuseFields DEF Kept, Unanswered, WritesAsked, LeavesTrace, Answered, InFlight, Wrote
<1>4. \A q \in Requests \ {r} : Kept(q)'
  BY <1>2, OthersQuiet DEF Wrote
<1>5. ClockOK'
  BY <1>1, <1>2, ClockStays
<1>. QED  BY <1>3, <1>4, <1>5, StepKept

\* A request that goes on without an effect and without an answer.
LEMMA PendingKept ==
  ASSUME ServerInv, NEW r \in Requests, r \notin applied, pc[r] # "done",
         pc'[r] # "done", pc'[r] = "reread" => call[r].op = "get",
         UNCHANGED <<call, applied>>, resp'[r] = resp[r]
  PROVE  Unanswered(r)' /\ LeavesTrace(r)' /\ Answered(r)'
<1>1. resp[r] = Refuse("none")
  BY RegroupKept DEF Kept, Unanswered
<1>2. Unanswered(r)' /\ LeavesTrace(r)'
  BY <1>1 DEF Unanswered, LeavesTrace
<1>3. Answered(r)'
  BY <1>1, RefuseFields DEF Answered
<1>. QED  BY <1>2, <1>3

LEMMA ReceiveKept ==
  ASSUME ServerInv, IInv', NEW r \in Requests, Receive(r)
  PROVE  ServerInv'
<1>1. TypeOK /\ Local(r) /\ Kept(r) /\ ClockOK
  BY RegroupKept, Regroup
<1>2. r \notin applied
  BY <1>1 DEF Receive, Local
<1>3. CASE Admit(call[r]) # "ok"
  <2>1. /\ Respond(r, Refuse(Admit(call[r])))
        /\ UNCHANGED <<db, issued, clock, call, tx, applied>>
    BY <1>3 DEF Receive
  <2>. QED  BY <1>2, <1>3, <2>1, RefusedKept
<1>4. CASE Admit(call[r]) = "ok"
  <2>1. /\ pc[r] = "receive"
        /\ pc'[r] \in {"reread", "read", "begin"}
        /\ pc'[r] = "reread" => call[r].op = "get"
        /\ pc'[r] = "read" => call[r].op = "add"
        /\ tx'[r] = NewTx(call[r]) /\ resp'[r] = resp[r]
        /\ \A s \in Requests \ {r} : pc'[s] = pc[s] /\ tx'[s] = tx[s] /\ resp'[s] = resp[s]
        /\ UNCHANGED <<db, issued, clock, call, applied>>
    BY <1>1, <1>4 DEF Receive, Goto, TypeOK
  <2>2. tx'[r].want = normalizeTags(call[r].tags)
    BY <2>1 DEF NewTx
  <2>3. WritesAsked(r)'
    BY <2>1, <2>2 DEF WritesAsked, Wrote
  <2>5. Unanswered(r)' /\ LeavesTrace(r)' /\ Answered(r)'
    BY <1>2, <2>1, PendingKept
  <2>7. \A q \in Requests \ {r} : Kept(q)'
    BY <2>1, OthersQuiet DEF Wrote
  <2>8. ClockOK'
    <3>1. Began \subseteq Began' /\ BeyondRow \subseteq BeyondRow'
      BY <2>1 DEF Began, BeyondRow
    <3>. QED  BY <1>1, <2>1, <3>1, ClockStep
  <2>. QED  BY <2>3, <2>5, <2>7, <2>8, StepKept DEF Kept
<1>. QED  BY <1>3, <1>4

LEMMA ReadExistingKept ==
  ASSUME ServerInv, IInv', NEW r \in Requests, ReadExisting(r)
  PROVE  ServerInv'
<1> DEFINE n == tx[r].id
           merged == normalizeTags(noteTags[n] \cup call[r].tags)
<1>1. TypeOK /\ Local(r) /\ Kept(r) /\ ClockOK
  BY RegroupKept, Regroup
<1>2. pc[r] = "read" /\ r \notin applied /\ call[r].op = "add"
  BY <1>1 DEF ReadExisting, Local, FlightPart, InFlight, Steps, OpsAt
<1>3. CASE ~Visible(r, n) \/ TooManyTags(merged)
  <2>1. PICK code \in {"not_found", "invalid_argument"} :
          /\ Respond(r, Refuse(code))
          /\ UNCHANGED <<db, issued, clock, call, tx, applied>>
    BY <1>3 DEF ReadExisting
  <2>. QED  BY <1>2, <2>1, RefusedKept
<1>4. CASE Visible(r, n) /\ ~TooManyTags(merged)
  <2>1. Goto(r, "begin") /\ tx' = [tx EXCEPT ![r].want = merged] /\ UNCHANGED resp
    BY <1>4 DEF ReadExisting
  <2>2. /\ pc'[r] = "begin" /\ tx'[r].want = merged /\ resp'[r] = resp[r]
        /\ \A s \in Requests \ {r} : pc'[s] = pc[s] /\ tx'[s] = tx[s] /\ resp'[s] = resp[s]
        /\ UNCHANGED <<db, issued, clock, call, applied>>
    BY <1>1, <2>1 DEF ReadExisting, Goto, TypeOK, Tx
  <2>3. normalizeTags(call[r].tags) \subseteq merged
    BY DEF normalizeTags
  <2>4. Kept(r)'
    <3>1. WritesAsked(r)'
      BY <1>2, <2>2, <2>3 DEF WritesAsked, Wrote
    <3>. QED  BY <1>2, <2>2, <3>1, PendingKept DEF Kept
  <2>5. \A q \in Requests \ {r} : Kept(q)'
    BY <2>2, OthersQuiet DEF Wrote
  <2>6. ClockOK'
    BY <1>1, <1>2, <2>2, ClockStays
  <2>. QED  BY <2>4, <2>5, <2>6, StepKept
<1>. QED  BY <1>3, <1>4

LEMMA BeginKept ==
  ASSUME ServerInv, IInv', NEW r \in Requests, Begin(r)
  PROVE  ServerInv'
<1>1. TypeOK /\ Local(r) /\ Kept(r) /\ ClockOK
  BY RegroupKept, Regroup
<1>2. /\ pc[r] = "begin" /\ pc[r] \in InFlight /\ r \notin applied
      /\ call[r].op \in {"create", "add", "update", "delete"}
  BY <1>1 DEF Begin, Local, FlightPart, InFlight, Steps, OpsAt
<1>3. /\ pc'[r] \in {"insert", "touch", "update", "delete"}
      /\ tx'[r].want = tx[r].want /\ resp'[r] = resp[r]
      /\ \A s \in Requests \ {r} : pc'[s] = pc[s] /\ tx'[s] = tx[s] /\ resp'[s] = resp[s]
      /\ clock' = clock + 1 /\ UNCHANGED <<db, issued, call, applied>>
  BY <1>1, <1>2 DEF Begin, Goto, TypeOK, Tx
<1>4. Kept(r)'
  <2>1. WritesAsked(r)'
    BY <1>1, <1>2, <1>3 DEF Kept, WritesAsked, Wrote
  <2>. QED  BY <1>2, <1>3, <2>1, PendingKept DEF Kept
<1>5. \A q \in Requests \ {r} : Kept(q)'
  BY <1>3, OthersQuiet DEF Wrote
<1>6. ClockOK'
  <2>1. Began \subseteq Began' /\ BeyondRow \subseteq BeyondRow' /\ r \in Began' \ Began
    BY <1>2, <1>3 DEF Began, BeyondRow
  <2>. QED  BY <1>1, <1>3, <2>1, ClockStep
<1>. QED  BY <1>4, <1>5, <1>6, StepKept

LEMMA InsertNoteKept ==
  ASSUME ServerInv, IInv', NEW r \in Requests, InsertNote(r)
  PROVE  ServerInv'
<1>1. TypeOK /\ TablesOK /\ Local(r) /\ Kept(r) /\ ClockOK
  BY RegroupKept, Regroup
<1>2. /\ pc[r] = "insert" /\ pc[r] \in InFlight /\ r \notin applied
      /\ call[r].op = "create"
  BY <1>1 DEF InsertNote, Local, FlightPart, InFlight, Steps, HoldsConn, OpsAt
<1> DEFINE row == [owner |-> call[r].user, body |-> call[r].body,
                   status |-> normalizeStatus(call[r].status),
                   created |-> tx[r].start, updated |-> tx[r].start]
<1>3. PICK n \in NoteIDs \ issued :
        /\ issued' = issued \cup {n}
        /\ tx' = [tx EXCEPT ![r].id = n, ![r].row = row]
  BY DEF InsertNote
<1>4. /\ pc'[r] = "tags" /\ tx'[r].id = n /\ tx'[r].row = row
      /\ tx'[r].want = tx[r].want /\ resp'[r] = resp[r]
      /\ \A s \in Requests \ {r} : pc'[s] = pc[s] /\ tx'[s] = tx[s] /\ resp'[s] = resp[s]
      /\ UNCHANGED <<db, clock, call, applied>>
  BY <1>1, <1>3 DEF InsertNote, Goto, TypeOK, Tx
<1>5. (tx[r].row = AskedRow(r, tx[r].row.updated))'
  <2>1. call'[r].op = "create" /\ call'[r] = call[r]
    BY <1>2, <1>4
  <2>2. tx'[r].row.updated = tx[r].start
    BY <1>4
  <2>. QED  BY <1>4, <2>1, <2>2 DEF AskedRow
<1>6. noteTags'[n] = {}
  BY <1>1, <1>4 DEF TablesOK, NoteAt, NoNote, db
<1> HIDE DEF row
<1>7. WritesAsked(r)'
  BY <1>1, <1>2, <1>4, <1>5, <1>6 DEF Kept, WritesAsked
<1>8. Kept(r)'
  BY <1>2, <1>4, <1>7, PendingKept DEF Kept
<1>9. \A q \in Requests \ {r} : Kept(q)'
  BY <1>3, <1>4, OthersQuiet
<1>10. ClockOK'
  BY <1>1, <1>4, ClockStays DEF db
<1>. QED  BY <1>8, <1>9, <1>10, StepKept

LEMMA WriteRowKept ==
  ASSUME ServerInv, IInv', NEW r \in Requests, NEW from, NEW to, NEW row,
         WriteRow(r, from, to, row),
         \/ from = "touch" /\ to = "count"
         \/ from = "update" /\ to = "clear",
         row = AskedRow(r, row.updated)
  PROVE  ServerInv'
<1>1. TypeOK /\ Local(r) /\ Kept(r) /\ ClockOK
  BY RegroupKept, Regroup
<1>2. /\ pc[r] = from /\ pc[r] \in InFlight /\ r \notin applied
      /\ call[r].op \in {"add", "update"}
  BY <1>1 DEF WriteRow, Local, FlightPart, InFlight, Steps, HoldsConn, OpsAt
<1>3. CASE ~Visible(r, tx[r].id)
  <2>1. /\ Respond(r, Refuse("not_found"))
        /\ UNCHANGED <<db, issued, clock, call, tx, applied>>
    BY <1>3 DEF WriteRow
  <2>. QED  BY <1>2, <2>1, RefusedKept
<1>4. CASE Visible(r, tx[r].id)
  <2>1. /\ clock' = clock + 1 /\ pc'[r] = to
        /\ tx'[r].row = row /\ tx'[r].id = tx[r].id
        /\ tx'[r].want = tx[r].want /\ resp'[r] = resp[r]
        /\ \A s \in Requests \ {r} : pc'[s] = pc[s] /\ tx'[s] = tx[s] /\ resp'[s] = resp[s]
        /\ UNCHANGED <<db, issued, call, applied>>
    BY <1>1, <1>4 DEF WriteRow, Goto, TypeOK, Tx
  <2>2. row = AskedRow(r, row.updated)'
    BY <2>1 DEF AskedRow, db
  <2>3. WritesAsked(r)'
    BY <1>1, <1>2, <2>1, <2>2 DEF Kept, WritesAsked
  <2>4. Kept(r)'
    BY <1>2, <2>1, <2>3, PendingKept DEF Kept
  <2>6. \A q \in Requests \ {r} : Kept(q)'
    BY <1>2, <2>1, OthersQuiet
  <2>7. ClockOK'
    <3>1. Began \subseteq Began' /\ BeyondRow \subseteq BeyondRow' /\ r \in BeyondRow' \ BeyondRow
      BY <1>2, <2>1 DEF Began, BeyondRow
    <3>. QED  BY <1>1, <2>1, <3>1, ClockStep
  <2>. QED  BY <2>4, <2>6, <2>7, StepKept
<1>. QED  BY <1>3, <1>4

LEMMA TouchNoteKept ==
  ASSUME ServerInv, IInv', NEW r \in Requests, TouchNote(r)
  PROVE  ServerInv'
<1> DEFINE row == [rows[tx[r].id] EXCEPT !.updated = clock + 1]
<1>1. /\ TypeOK /\ call[r].op = "add" /\ tx[r].id \in NoteIDs
  BY RegroupKept, KnownId
     DEF IInv, TouchNote, WriteRow, InFlightOK, InFlight, Steps, HoldsConn, OpsAt
<1>2. row.updated = clock + 1
  BY <1>1 DEF TypeOK, Row
<1>3. row = AskedRow(r, clock + 1)
  BY <1>1 DEF AskedRow
<1>. QED  BY <1>2, <1>3, WriteRowKept DEF TouchNote

LEMMA UpdateNoteKept ==
  ASSUME ServerInv, IInv', NEW r \in Requests, UpdateNote(r)
  PROVE  ServerInv'
<1> DEFINE row == [rows[tx[r].id] EXCEPT !.body = call[r].body,
                     !.status = normalizeStatus(call[r].status),
                     !.updated = clock + 1]
<1>1. /\ TypeOK /\ call[r].op = "update" /\ tx[r].id \in NoteIDs
  BY RegroupKept, KnownId
     DEF IInv, UpdateNote, WriteRow, InFlightOK, InFlight, Steps, HoldsConn, OpsAt
<1>2. rows[tx[r].id] \in Row
  BY <1>1 DEF TypeOK
<1>3. row.updated = clock + 1
  BY <1>2 DEF Row
<1>4. row = AskedRow(r, clock + 1)
  BY <1>1, <1>2 DEF AskedRow, Row
<1>. QED  BY <1>3, <1>4, WriteRowKept DEF UpdateNote

LEMMA CountTagsKept ==
  ASSUME ServerInv, IInv', NEW r \in Requests, CountTags(r)
  PROVE  ServerInv'
<1> DEFINE all == noteTags[tx[r].id] \cup tx[r].want
<1>1. TypeOK /\ Local(r) /\ Kept(r) /\ ClockOK
  BY RegroupKept, Regroup
<1>2. /\ pc[r] = "count" /\ pc[r] \in InFlight /\ pc[r] \in Wrote /\ r \notin applied
      /\ call[r].op = "add" /\ tx[r].del = {}
  BY <1>1 DEF CountTags, Local, FlightPart, TagsPart, InFlight, Steps, HoldsConn, OpsAt,
              Wrote
<1>3. CASE TooManyTags(all)
  <2>1. /\ Respond(r, Refuse("invalid_argument"))
        /\ UNCHANGED <<db, issued, clock, call, tx, applied>>
    BY <1>3 DEF CountTags
  <2>. QED  BY <1>2, <2>1, RefusedKept
<1>4. CASE ~TooManyTags(all)
  <2>1. /\ pc'[r] = "tags" /\ resp'[r] = resp[r] /\ tx' = tx
        /\ \A s \in Requests \ {r} : pc'[s] = pc[s] /\ tx'[s] = tx[s] /\ resp'[s] = resp[s]
        /\ UNCHANGED <<db, issued, clock, call, applied>>
    BY <1>1, <1>4 DEF CountTags, Goto, TypeOK
  <2>2. \A t : AskedRow(r, t)' = AskedRow(r, t)
    BY <2>1, AskedRowStays DEF db
  <2>3. WritesAsked(r)'
    BY <1>1, <1>2, <2>1, <2>2 DEF Kept, WritesAsked
  <2>4. Kept(r)'
    BY <1>2, <2>1, <2>3, PendingKept DEF Kept
  <2>5. \A q \in Requests \ {r} : Kept(q)'
    BY <1>2, <2>1, OthersQuiet
  <2>6. ClockOK'
    BY <1>1, <2>1, ClockStays
  <2>. QED  BY <2>4, <2>5, <2>6, StepKept
<1>. QED  BY <1>3, <1>4

LEMMA ClearTagsKept ==
  ASSUME ServerInv, IInv', NEW r \in Requests, ClearTags(r)
  PROVE  ServerInv'
<1>1. TypeOK /\ Local(r) /\ Kept(r) /\ ClockOK
  BY RegroupKept, Regroup
<1>2. /\ pc[r] = "clear" /\ pc[r] \in InFlight /\ pc[r] \in Wrote /\ r \notin applied
      /\ call[r].op = "update"
  BY <1>1 DEF ClearTags, Local, FlightPart, InFlight, Steps, HoldsConn, OpsAt, Wrote
<1>3. /\ pc'[r] = "tags" /\ resp'[r] = resp[r]
      /\ tx'[r].id = tx[r].id /\ tx'[r].row = tx[r].row
      /\ tx'[r].want = tx[r].want /\ tx'[r].del = noteTags[tx[r].id]
      /\ \A s \in Requests \ {r} : pc'[s] = pc[s] /\ tx'[s] = tx[s] /\ resp'[s] = resp[s]
      /\ UNCHANGED <<db, issued, clock, call, applied>>
  BY <1>1 DEF ClearTags, Goto, TypeOK, Tx
<1>4. WritesAsked(r)'
  <2>1. \A t : AskedRow(r, t)' = AskedRow(r, t)
    BY <1>3 DEF AskedRow, db
  <2>. QED  BY <1>1, <1>2, <1>3, <2>1 DEF Kept, WritesAsked, db
<1>5. Kept(r)'
  BY <1>2, <1>3, <1>4, PendingKept DEF Kept
<1>6. \A q \in Requests \ {r} : Kept(q)'
  BY <1>2, <1>3, OthersQuiet
<1>7. ClockOK'
  BY <1>1, <1>3, ClockStays
<1>. QED  BY <1>5, <1>6, <1>7, StepKept

LEMMA InsertTagsKept ==
  ASSUME ServerInv, IInv', NEW r \in Requests, InsertTags(r)
  PROVE  ServerInv'
<1>1. TypeOK /\ Local(r) /\ Kept(r) /\ ClockOK
  BY RegroupKept, Regroup
<1>2. /\ pc[r] = "tags" /\ pc[r] \in InFlight /\ pc[r] \in Wrote /\ r \notin applied
  BY <1>1 DEF InsertTags, Local, InFlight, Steps, HoldsConn, Wrote
<1>3. /\ pc'[r] = "commit" /\ resp'[r] = resp[r]
      /\ tx'[r].id = tx[r].id /\ tx'[r].row = tx[r].row
      /\ tx'[r].want = tx[r].want /\ tx'[r].del = tx[r].del
      /\ \A s \in Requests \ {r} : pc'[s] = pc[s] /\ tx'[s] = tx[s] /\ resp'[s] = resp[s]
      /\ UNCHANGED <<db, issued, clock, call, applied>>
  BY <1>1 DEF InsertTags, Goto, TypeOK, Tx
<1>4. WritesAsked(r)'
  <2>1. \A t : AskedRow(r, t)' = AskedRow(r, t)
    BY <1>3 DEF AskedRow, db
  <2>. QED  BY <1>1, <1>2, <1>3, <2>1 DEF Kept, WritesAsked, db
<1>5. Kept(r)'
  BY <1>2, <1>3, <1>4, PendingKept DEF Kept
<1>6. \A q \in Requests \ {r} : Kept(q)'
  BY <1>2, <1>3, OthersQuiet
<1>7. ClockOK'
  BY <1>1, <1>3, ClockStays
<1>. QED  BY <1>5, <1>6, <1>7, StepKept

\* A committed write: what the transaction had locked is published as it was
\* asked for, on top of notes that nobody else has changed meanwhile.
LEMMA PublishKept ==
  ASSUME ServerInv, IInv', NEW r \in Requests, pc[r] = "commit", Publish(r),
         \/ pc'[r] = "reread" /\ resp'[r] = resp[r]
         \/ pc'[r] = "done" /\ resp'[r] = Refuse("internal"),
         \A s \in Requests \ {r} : pc'[s] = pc[s] /\ resp'[s] = resp[s],
         UNCHANGED <<issued, clock, call, tx>>
  PROVE  ServerInv'
<1> DEFINE n == tx[r].id
<1>1. TypeOK /\ Local(r) /\ Kept(r) /\ ClockOK
  BY RegroupKept, Regroup
<1>2. /\ pc[r] \in InFlight /\ pc[r] \in Wrote /\ r \notin applied
      /\ call[r].op \in {"create", "add", "update"}
      /\ n \in NoteIDs /\ n \in issued
      /\ Admit(call[r]) = "ok" /\ call[r] \in Call
      /\ tx[r].row.owner = call[r].user /\ tx[r].row \in Row
      /\ tx[r].row.updated \in Nat
      /\ tx[r].ins = tx[r].want
      /\ \A q \in Requests \ {r} : ~Locks(q, n)
  BY <1>1 DEF Local, FlightPart, WriterPart, TagsPart, InFlight, Steps, HoldsConn, Wrote, OpsAt,
              TypeOK, Tx, Row
<1>3. /\ rows'[n] = tx[r].row
      /\ noteTags'[n] = (noteTags[n] \ tx[r].del) \cup tx[r].ins
      /\ \A m \in NoteIDs \ {n} : rows'[m] = rows[m] /\ noteTags'[m] = noteTags[m]
      /\ applied' = applied \cup {r}
  BY <1>1, <1>2 DEF Publish, TypeOK
<1>4. resp[r] = Refuse("none")
  BY <1>1 DEF Kept, Unanswered
<1>5. Unanswered(r)' /\ Answered(r)'
  BY <1>3, <1>4, RefuseFields DEF Unanswered, Answered
<1>6. WritesAsked(r)'
  BY <1>1, <1>2 DEF Kept, WritesAsked, Wrote
<1>7. LeavesTrace(r)'
  <2>1. \A q \in Requests : pc'[q] \in Wrote => tx[q].id # n
    BY <1>2 DEF Locks, Wrote
  <2>2. call[r].op # "add" => noteTags'[n] = tx[r].ins
    BY <1>1, <1>2, <1>3 DEF Kept, WritesAsked
  <2>. QED  BY <1>2, <1>3, <2>1, <2>2 DEF LeavesTrace
<1>8. \/ \A s \in applied : tx[s].id # n
      \/ /\ rows[n] # NoRow /\ rows'[n].owner = rows[n].owner
         /\ rows'[n].updated > rows[n].updated
  <2>1. CASE call[r].op = "create"
    <3>1. ASSUME NEW s \in applied PROVE tx[s].id # n
      <4>1. s \in Requests /\ LeavesTrace(s)
        BY <1>1, RegroupKept DEF TypeOK, Kept
      <4>. QED  BY <1>2, <2>1, <4>1 DEF LeavesTrace
    <3>. QED  BY <3>1
  <2>2. CASE call[r].op # "create"
    <3>1. Visible(r, n) /\ tx[r].row.updated > rows[n].updated
      BY <1>1, <1>2, <2>2 DEF Local, WriterPart
    <3>2. call[r].user # 0
      BY <1>2, Admitted, OwnerType
    <3>3. rows[n].owner = call[r].user
      BY <3>1 DEF Visible
    <3>. QED  BY <1>2, <1>3, <3>1, <3>2, <3>3, NoRowOwner
  <2>. QED  BY <2>1, <2>2
<1>9. \A q \in Requests \ {r} : Kept(q)'
  <2>1. pc'[r] \notin Wrote
    BY DEF Wrote
  <2>. QED  BY <1>2, <1>3, <1>8, <2>1, OthersEffect
<1>10. ClockOK'
  BY <1>1, ClockStays
<1>. QED  BY <1>5, <1>6, <1>7, <1>9, <1>10, StepKept DEF Kept

LEMMA CommitKept ==
  ASSUME ServerInv, IInv', NEW r \in Requests, Commit(r)
  PROVE  ServerInv'
<1>1. TypeOK
  BY RegroupKept, Regroup
<1>2. /\ pc[r] = "commit" /\ Publish(r) /\ pc'[r] = "reread" /\ resp'[r] = resp[r]
      /\ \A s \in Requests \ {r} : pc'[s] = pc[s] /\ resp'[s] = resp[s]
      /\ UNCHANGED <<issued, clock, call, tx>>
  BY <1>1 DEF Commit, Goto, TypeOK
<1>. QED  BY <1>2, PublishKept

\* The note is read again as it is now: the caller's own still, or gone.
LEMMA GetNoteKept ==
  ASSUME ServerInv, IInv', NEW r \in Requests, GetNote(r)
  PROVE  ServerInv'
<1> DEFINE n == tx[r].id
<1>1. TypeOK /\ Local(r) /\ Kept(r) /\ ClockOK
  BY RegroupKept, Regroup
<1>2. /\ pc[r] = "reread" /\ pc[r] \in InFlight
      /\ call[r].op \in {"create", "get", "add", "update"}
      /\ n \in NoteIDs /\ Admit(call[r]) = "ok" /\ call[r] \in Call
      /\ UNCHANGED <<db, issued, clock, call, tx, applied>>
  BY <1>1 DEF GetNote, Local, FlightPart, InFlight, Steps, HoldsConn, OpsAt, TypeOK
<1>3. call[r].op # "get" => r \in applied
  BY <1>1, <1>2 DEF Kept, Unanswered
<1>4. call[r].user # 0 /\ HasScope(call[r], RequiredScope(call[r].op))
  BY <1>2, Admitted, OwnerType
<1>5. PICK a : /\ Respond(r, a)
               /\ \/ ~Visible(r, n) /\ a = Refuse("not_found")
                  \/ Visible(r, n) /\ a = Answer("ok", NoteAt(n))
                  \/ a = Refuse("internal")
  BY DEF GetNote
<1>6. /\ pc'[r] = "done" /\ resp'[r] = a
      /\ \A s \in Requests \ {r} : pc'[s] = pc[s] /\ tx'[s] = tx[s] /\ resp'[s] = resp[s]
  BY <1>1, <1>2, <1>5 DEF Respond, Goto, TypeOK
<1>7. Unanswered(r)' /\ WritesAsked(r)'
  BY <1>6 DEF Unanswered, WritesAsked, InFlight, Wrote
<1>8. LeavesTrace(r)'
  BY <1>1, <1>2, <1>6 DEF Kept, LeavesTrace, db, Wrote
<1>9. Answered(r)'
  <2>1. CASE ~Visible(r, n) /\ a = Refuse("not_found")
    <3>1. r \in applied => rows[n] = NoRow /\ n \in issued
      BY <1>1, <2>1 DEF Kept, LeavesTrace, Visible
    <3>. QED  BY <1>2, <1>6, <2>1, <3>1, RefuseFields DEF Answered, db
  <2>2. CASE a = Refuse("internal")
    BY <1>2, <1>6, <2>2, RefuseFields DEF Answered
  <2>3. CASE Visible(r, n) /\ a = Answer("ok", NoteAt(n))
    <3>1. a.code = "ok" /\ a.note.row = rows[n] /\ a.note.tags = noteTags[n]
      BY <2>3 DEF Answer, NoteAt
    <3>2. rows[n].owner = call[r].user /\ rows[n] # NoRow
      BY <1>4, <2>3, NoRowOwner DEF Visible
    <3>3. call[r].op \in {"create", "add", "update"} =>
            /\ rows[n].updated >= tx[r].row.updated
            /\ rows[n].updated = tx[r].row.updated =>
                 /\ rows[n] = tx[r].row
                 /\ tx[r].ins \subseteq noteTags[n]
                 /\ call[r].op # "add" => noteTags[n] = tx[r].ins
      BY <1>1, <1>3, <3>2 DEF Kept, LeavesTrace
    <3>. QED  BY <1>2, <1>4, <1>6, <3>1, <3>2, <3>3 DEF Answered
  <2>. QED  BY <1>5, <2>1, <2>2, <2>3
<1>10. \A q \in Requests \ {r} : Kept(q)'
  BY <1>2, <1>6, OthersQuiet DEF Wrote
<1>11. ClockOK'
  BY <1>1, <1>2, <1>6, ClockStays
<1>. QED  BY <1>7, <1>8, <1>9, <1>10, <1>11, StepKept DEF Kept

LEMMA EraseKept ==
  ASSUME ServerInv, IInv', NEW r \in Requests, pc[r] = "delete", RowFree(tx[r].id),
         Visible(r, tx[r].id), Erase(r), pc'[r] = "done",
         resp'[r] \in {Answer("ok", NoNote), Refuse("internal")},
         \A s \in Requests \ {r} : pc'[s] = pc[s] /\ resp'[s] = resp[s],
         UNCHANGED <<issued, clock, call, tx>>
  PROVE  ServerInv'
<1> DEFINE n == tx[r].id
<1>1. TypeOK /\ TablesOK /\ Local(r) /\ Kept(r) /\ ClockOK
  BY RegroupKept, Regroup
<1>2. /\ pc[r] \in InFlight /\ call[r].op = "delete" /\ Admit(call[r]) = "ok"
      /\ call[r] \in Call
  BY <1>1 DEF Local, FlightPart, InFlight, Steps, HoldsConn, OpsAt, TypeOK
<1>3. n \in NoteIDs /\ call[r].user # 0
  BY <1>1, <1>2, Admitted, OwnerType DEF Local, FlightPart
<1>4. n \in issued
  <2>1. n \notin issued => rows[n] = NoRow
    BY <1>1, <1>3, NoRowOwner DEF TablesOK, NoteAt
  <2>. QED  BY <1>3, <2>1, NoRowOwner DEF Visible
<1>5. /\ rows'[n] = NoRow /\ noteTags'[n] = {} /\ rows'[n] \in Row
      /\ \A m \in NoteIDs \ {n} : rows'[m] = rows[m] /\ noteTags'[m] = noteTags[m]
      /\ applied' = applied \cup {r}
  BY <1>1, <1>3, NoNoteType DEF Erase, TypeOK
<1>6. \A s \in Requests : ~Locks(s, n)
  BY DEF RowFree
<1>7. Unanswered(r)' /\ WritesAsked(r)'
  BY DEF Unanswered, WritesAsked, InFlight, Wrote
<1>8. LeavesTrace(r)'
  <2>1. \A q \in Requests : pc'[q] \in Wrote => tx[q].id # n
    BY <1>6 DEF Locks, Wrote
  <2>. QED  BY <1>2, <1>4, <1>5, <2>1 DEF LeavesTrace
<1>9. Answered(r)'
  <2>1. Answer("ok", NoNote).code = "ok" /\ Answer("ok", NoNote).note = NoNote
    BY DEF Answer
  <2>. QED  BY <1>2, <2>1, RefuseFields DEF Answered
<1>10. \A q \in Requests \ {r} : Kept(q)'
  <2>1. pc'[r] \notin Wrote
    BY DEF Wrote
  <2>. QED  BY <1>3, <1>5, <1>6, <2>1, OthersEffect
<1>11. ClockOK'
  BY <1>1, ClockStays
<1>. QED  BY <1>7, <1>8, <1>9, <1>10, <1>11, StepKept DEF Kept

LEMMA DeleteNoteKept ==
  ASSUME ServerInv, IInv', NEW r \in Requests, DeleteNote(r)
  PROVE  ServerInv'
<1>1. TypeOK /\ Local(r)
  BY RegroupKept, Regroup
<1>2. r \notin applied
  BY <1>1 DEF DeleteNote, Local
<1>3. CASE Visible(r, tx[r].id)
  <2>1. /\ pc[r] = "delete" /\ RowFree(tx[r].id) /\ Erase(r) /\ pc'[r] = "done"
        /\ resp'[r] = Answer("ok", NoNote)
        /\ \A q \in Requests \ {r} : pc'[q] = pc[q] /\ resp'[q] = resp[q]
        /\ UNCHANGED <<issued, clock, call, tx>>
    BY <1>1, <1>3 DEF DeleteNote, Respond, Goto, TypeOK
  <2>. QED  BY <1>3, <2>1, EraseKept
<1>4. CASE ~Visible(r, tx[r].id)
  <2>1. /\ Respond(r, Refuse("not_found"))
        /\ UNCHANGED <<db, issued, clock, call, tx, applied>>
    BY <1>4 DEF DeleteNote
  <2>. QED  BY <1>2, <2>1, RefusedKept
<1>. QED  BY <1>3, <1>4

\* A failure is answered with a code that promises nothing.
LEMMA FailedKept ==
  ASSUME ServerInv, NEW r \in Requests, NEW code \in {"internal", "unavailable"},
         pc'[r] = "done", resp'[r] = Refuse(code),
         \A s \in Requests : pc'[s] \in {pc[s], "done"},
         UNCHANGED <<db, issued, call, tx, applied>>
  PROVE  Kept(r)'
<1>1. Kept(r)
  BY RegroupKept
<1>2. Unanswered(r)' /\ WritesAsked(r)'
  BY DEF Unanswered, WritesAsked, InFlight, Wrote
<1>3. LeavesTrace(r)'
  BY <1>1 DEF Kept, LeavesTrace, db, Wrote
<1>4. Answered(r)'
  BY RefuseFields DEF Answered
<1>. QED  BY <1>2, <1>3, <1>4 DEF Kept

LEMMA FailKept ==
  ASSUME ServerInv, IInv', NEW r \in Requests, Fail(r)
  PROVE  ServerInv'
<1>1. TypeOK /\ ClockOK
  BY RegroupKept, Regroup
<1>2. /\ pc'[r] = "done" /\ resp'[r] = Refuse("internal")
      /\ \A s \in Requests \ {r} : pc'[s] = pc[s] /\ tx'[s] = tx[s] /\ resp'[s] = resp[s]
      /\ UNCHANGED <<db, issued, clock, call, tx, applied>>
  BY <1>1 DEF Fail, Respond, Goto, TypeOK
<1>3. Kept(r)'
  BY <1>2, FailedKept
<1>4. \A q \in Requests \ {r} : Kept(q)'
  BY <1>2, OthersQuiet DEF Wrote
<1>5. ClockOK'
  BY <1>1, <1>2, ClockStays
<1>. QED  BY <1>3, <1>4, <1>5, StepKept

LEMMA FailAfterEffectKept ==
  ASSUME ServerInv, IInv', NEW r \in Requests, FailAfterEffect(r)
  PROVE  ServerInv'
<1>1. TypeOK
  BY RegroupKept, Regroup
<1>2. /\ pc'[r] = "done" /\ resp'[r] = Refuse("internal")
      /\ \A q \in Requests \ {r} : pc'[q] = pc[q] /\ resp'[q] = resp[q]
      /\ UNCHANGED <<issued, clock, call, tx>>
  BY <1>1 DEF FailAfterEffect, Respond, Goto, TypeOK
<1>3. CASE pc[r] = "commit" /\ Publish(r)
  BY <1>2, <1>3, PublishKept
<1>4. CASE pc[r] = "delete" /\ RowFree(tx[r].id) /\ Visible(r, tx[r].id) /\ Erase(r)
  BY <1>2, <1>4, EraseKept
<1>. QED  BY <1>3, <1>4 DEF FailAfterEffect

LEMMA CrashKept ==
  ASSUME ServerInv, IInv', Crash
  PROVE  ServerInv'
<1>1. TypeOK /\ ClockOK /\ \A r \in Requests : Kept(r)
  BY RegroupKept, Regroup
<1>2. /\ \A r \in Requests :
           \/ pc'[r] = "done" /\ resp'[r] = Refuse("unavailable")
           \/ pc'[r] = pc[r] /\ resp'[r] = resp[r]
      /\ UNCHANGED <<db, issued, clock, call, tx, applied>>
  BY <1>1 DEF Crash, TypeOK
<1>3. ASSUME NEW r \in Requests
      PROVE  Kept(r)'
  <2>1. CASE pc'[r] = "done" /\ resp'[r] = Refuse("unavailable")
    BY <1>2, <2>1, FailedKept
  <2>2. CASE pc'[r] = pc[r] /\ resp'[r] = resp[r]
    <3>1. Unanswered(r)' /\ Answered(r)'
      BY <1>1, <1>2, <2>2 DEF Kept, Unanswered, Answered, db
    <3>2. WritesAsked(r)'
      BY <1>1, <1>2, <2>2, AskedRowStays DEF Kept, WritesAsked, db
    <3>3. LeavesTrace(r)'
      BY <1>1, <1>2 DEF Kept, LeavesTrace, db, Wrote
    <3>. QED  BY <3>1, <3>2, <3>3 DEF Kept
  <2>. QED  BY <1>2, <2>1, <2>2
<1>4. ClockOK'
  <2>1. Began \subseteq Began' /\ BeyondRow \subseteq BeyondRow'
    BY <1>2 DEF Began, BeyondRow
  <2>. QED  BY <1>1, <1>2, <2>1, ClockStep
<1>. QED  BY <1>3, <1>4, RegroupKeptNext

LEMMA NextServerInv == ServerInv /\ [Next]_vars => ServerInv'
<1> SUFFICES ASSUME ServerInv, [Next]_vars PROVE ServerInv'
  OBVIOUS
<1>. IInv'
  BY NextInv DEF ServerInv
<1>1. ASSUME NEW r \in Requests, Receive(r) PROVE ServerInv'
  BY <1>1, ReceiveKept
<1>2. ASSUME NEW r \in Requests, Handle(r) PROVE ServerInv'
  BY <1>2, ReadExistingKept, BeginKept, InsertNoteKept, TouchNoteKept, UpdateNoteKept,
     CountTagsKept, ClearTagsKept, InsertTagsKept, CommitKept, GetNoteKept, DeleteNoteKept
     DEF Handle
<1>3. ASSUME NEW r \in Requests, Fail(r) \/ FailAfterEffect(r) PROVE ServerInv'
  BY <1>3, FailKept, FailAfterEffectKept
<1>4. CASE Crash
  BY <1>4, CrashKept
<1>5. CASE UNCHANGED vars
  <2>1. \A r \in Requests : Kept(r)'
    BY <1>5, RegroupKept, AskedRowStays
       DEF vars, Kept, Unanswered, WritesAsked, LeavesTrace, Answered
  <2>2. ClockOK'
    BY <1>5, RegroupKept DEF vars, ClockOK, Began, BeyondRow
  <2>. QED  BY <2>1, <2>2, RegroupKeptNext
<1>. QED  BY <1>1, <1>2, <1>3, <1>4, <1>5 DEF Next, Terminating

\* The invariant behind everything below, in every reachable state.
THEOREM ServerInvariantHolds == Spec => []ServerInv
BY InitServerInv, NextServerInv, PTL DEF Spec

\* A successful create, AddTags or UpdateNote is answered with the note as that
\* write left it, or as a later write of the owner did: reading the note again
\* after COMMIT, on another connection, never shows an older or a mixed note.
THEOREM OwnWriteAnswered == Spec => []AnswersOwnWrite
<1>1. ServerInv => AnswersOwnWrite
  BY DEF ServerInv
<1>. QED  BY <1>1, ServerInvariantHolds, PTL

\* A write that was carried out is never answered as a refused one; not_found
\* after one means that the note was deleted since, for good.
THEOREM RefusalsHonest == Spec => []RefusedMeansUnchanged
<1>1. ServerInv => RefusedMeansUnchanged
  BY DEF ServerInv
<1>. QED  BY <1>1, ServerInvariantHolds, PTL

\* No answer ever carries another owner's note, nor one to a caller without the
\* scope of the operation.
THEOREM ReadIsolation == Spec => []OnlyOwnerReads
<1>1. ServerInv => OnlyOwnerReads
  BY DEF ServerInv
<1>. QED  BY <1>1, ServerInvariantHolds, PTL

-----------------------------------------------------------------------------
\* NotesServer implements NotesStore.  First the store's state and rules, as the
\* server has them.

NotesMap == [n \in NoteIDs |-> NoteAt(n)]
TargetMap == [r \in Requests |-> Target(r)]
PhaseMap == [r \in Requests |-> Phase(r)]
Stamps == 0 .. 2 * Cardinality(Requests)

\* The store decides by the same rules.
LEMMA SameCardinality == \A S : Store!Cardinality(S) = Cardinality(S)
BY DEF Store!Cardinality, Cardinality

LEMMA SameRules ==
  /\ Store!Tags = Tags /\ Store!Note = Note /\ Store!Call = Call
  /\ Store!NoNote = NoNote
  /\ \A c : Store!Admit(c) = Admit(c)
  /\ \A S : Store!normalizeTags(S) = normalizeTags(S)
  /\ \A S : Store!TooManyTags(S) <=> TooManyTags(S)
  /\ \A s : Store!normalizeStatus(s) = normalizeStatus(s)
  /\ \A n : Store!ValidNote(n) <=> ValidNote(n)
  /\ \A c : Store!Refuse(c) = Refuse(c)
  /\ \A c, n : Store!Answer(c, n) = Answer(c, n)
<1>1. Store!Blank = Blank /\ Store!Tags = Tags /\ Store!Row = Row /\ Store!NoRow = NoRow
      /\ Store!Ops = Ops /\ Store!Scopes = Scopes /\ Store!Statuses = Statuses
  BY DEF Store!Blank, Blank, Store!Tags, Tags, Store!Row, Row, Store!NoRow, NoRow,
     Store!Ops, Ops, Store!Scopes, Scopes, Store!Statuses, Statuses
<1>2. Store!Note = Note /\ Store!NoNote = NoNote /\ Store!Call = Call
  BY <1>1 DEF Store!Note, Note, Store!NoNote, NoNote, Store!Call, Call
<1>3. /\ \A S : Store!normalizeTags(S) = normalizeTags(S)
      /\ \A S : Store!TooManyTags(S) <=> TooManyTags(S)
      /\ \A s : Store!normalizeStatus(s) = normalizeStatus(s)
      /\ \A n : Store!ValidNote(n) <=> ValidNote(n)
  <2>1. \A S : Store!normalizeTags(S) = normalizeTags(S)
    BY <1>1 DEF Store!normalizeTags, normalizeTags
  <2>2. \A S : Store!TooManyTags(S) <=> TooManyTags(S)
    BY SameCardinality DEF Store!TooManyTags, TooManyTags
  <2>3. \A s : Store!normalizeStatus(s) = normalizeStatus(s)
    BY DEF Store!normalizeStatus, normalizeStatus
  <2>4. \A n : Store!ValidNote(n) <=> ValidNote(n)
    BY SameCardinality DEF Store!ValidNote, ValidNote
  <2>. QED  BY <2>1, <2>2, <2>3, <2>4
<1>4. /\ \A c, n : Store!Answer(c, n) = Answer(c, n)
      /\ \A c : Store!Refuse(c) = Refuse(c)
  BY <1>2 DEF Store!Answer, Answer, Store!Refuse, Refuse
<1>5. \A c : Store!Admit(c) = Admit(c)
  <2>1. \A c : /\ Store!ValidRequest(c) <=> ValidRequest(c)
               /\ Store!RequiredScope(c.op) = RequiredScope(c.op)
               /\ Store!NamesANote(c) <=> NamesANote(c)
               /\ Store!Normalizes(c) <=> Normalizes(c)
    <3>1. \A S : Store!ValidTagList(S) <=> ValidTagList(S)
      BY <1>1, SameCardinality DEF Store!ValidTagList, ValidTagList
    <3>2. \A c : Store!ValidRequest(c) <=> ValidRequest(c)
      BY <3>1 DEF Store!ValidRequest, ValidRequest
    <3>3. \A c : Store!RequiredScope(c.op) = RequiredScope(c.op)
      BY DEF Store!RequiredScope, RequiredScope
    <3>4. \A c : Store!NamesANote(c) <=> NamesANote(c)
      BY DEF Store!NamesANote, NamesANote
    <3>5. \A c : Store!Normalizes(c) <=> Normalizes(c)
      BY <1>3 DEF Store!Normalizes, Normalizes
    <3>. QED  BY <3>2, <3>3, <3>4, <3>5
  <2>2. \A c, s : Store!HasScope(c, s) <=> HasScope(c, s)
    BY DEF Store!HasScope, HasScope
  <2>. QED  BY <2>1, <2>2 DEF Store!Admit, Admit
<1>. QED  BY <1>1, <1>2, <1>3, <1>4, <1>5

LEMMA StoreInit == Init => Store!Init
<1> SUFFICES ASSUME Init PROVE Store!Init
  OBVIOUS
<1>1. TypeOK
  BY InitType
<1>2. [n \in NoteIDs |-> NoteAt(n)] \in [NoteIDs -> Store!Note]
  BY <1>1, SameRules DEF TypeOK, NoteAt, Note
<1>3. call \in [Requests -> Store!Call]
  BY <1>1, SameRules DEF TypeOK
<1>4. /\ pc = [r \in Requests |-> "receive"] /\ applied = {}
      /\ resp = [r \in Requests |-> Refuse("none")]
  BY DEF Init
<1>5. [r \in Requests |-> Phase(r)] = [r \in Requests |-> "idle"]
  BY <1>4 DEF Phase
<1>6. [r \in Requests |-> Target(r)] =
        [r \in Requests |-> IF call[r].op = "create" THEN NilID ELSE call[r].note]
  BY <1>4 DEF Target
<1>7. resp = [r \in Requests |-> Store!Refuse("none")]
  BY <1>4, SameRules
<1>. QED  BY <1>2, <1>3, <1>5, <1>6, <1>7 DEF Store!Init

-----------------------------------------------------------------------------
\* A step of the server, piece by piece, as the store sees it.

LEMMA Moves ==
  ASSUME NEW r \in Requests, NEW from, NEW to, Phase(r) = from, Phase(r)' = to,
         call' = call, \A q \in Requests \ {r} : pc'[q] = pc[q]
  PROVE  Store!Move(r, from, to)
<1>1. \A q \in Requests \ {r} : Phase(q)' = Phase(q)
  BY DEF Phase
<1>. QED  BY <1>1 DEF Store!Move

LEMMA PhasesStay ==
  ASSUME NEW r \in Requests, Phase(r)' = Phase(r),
         call' = call, \A q \in Requests \ {r} : pc'[q] = pc[q]
  PROVE  PhaseMap' = PhaseMap
<1>1. \A q \in Requests \ {r} : Phase(q)' = Phase(q)
  BY DEF Phase
<1>. QED  BY <1>1 DEF PhaseMap

LEMMA TargetsStay ==
  ASSUME call' = call, applied' = applied, \A q \in applied : tx'[q].id = tx[q].id
  PROVE  TargetMap' = TargetMap
BY DEF TargetMap, Target

LEMMA NotesStay ==
  ASSUME UNCHANGED db
  PROVE  NotesMap' = NotesMap
BY DEF NotesMap, NoteAt, db

LEMMA Settles ==
  ASSUME NEW r \in Requests, NEW a, Respond(r, a)
  PROVE  Store!Settle(r, a)
BY DEF Respond, Store!Settle

LEMMA Puts ==
  ASSUME NEW n \in NoteIDs, NEW note, NoteAt(n)' = note,
         \A m \in NoteIDs \ {n} : rows'[m] = rows[m] /\ noteTags'[m] = noteTags[m]
  PROVE  Store!Put(n, note)
BY DEF Store!Put, NoteAt

\* The note of a request in flight, once it has one.
LEMMA TargetIsNote ==
  ASSUME ServerInv, NEW r \in Requests, pc[r] \in InFlight,
         call[r].op # "create" \/ r \in applied
  PROVE  Target(r) = tx[r].id /\ tx[r].id \in NoteIDs
<1>1. TypeOK /\ Local(r) /\ LeavesTrace(r)
  BY RegroupKept, Regroup DEF Kept
<1>2. Target(r) = tx[r].id
  BY <1>1 DEF Target, Local, FlightPart
<1>3. tx[r].id \in NoteIDs
  BY <1>1, KnownId, RegroupKept DEF IInv, LeavesTrace, TypeOK
<1>. QED  BY <1>2, <1>3

LEMMA MineIsVisible ==
  ASSUME ServerInv, NEW r \in Requests, pc[r] \in InFlight,
         call[r].op # "create" \/ r \in applied
  PROVE  Store!Mine(r, tx[r].id) <=> Visible(r, tx[r].id)
<1>1. tx[r].id \in NoteIDs
  BY TargetIsNote
<1>2. call[r].user # 0
  BY RegroupKept, Regroup, Admitted, OwnerType DEF Local, FlightPart, TypeOK
<1>. QED  BY <1>1, <1>2 DEF Store!Mine, Visible, NoteAt

\* A step of r that the store does not see.
LEMMA Stutters ==
  ASSUME ServerInv, NEW r \in Requests, r \notin applied,
         Phase(r)' = Phase(r), resp' = resp, UNCHANGED <<db, call, applied>>,
         \A q \in Requests \ {r} : pc'[q] = pc[q] /\ tx'[q] = tx[q]
  PROVE  UNCHANGED Store!vars
<1>1. NotesMap' = NotesMap /\ PhaseMap' = PhaseMap
  BY NotesStay, PhasesStay
<1>2. TargetMap' = TargetMap
  BY RegroupKept, Regroup, TargetsStay DEF TypeOK
<1>. QED  BY <1>1, <1>2 DEF Store!vars, NotesMap, TargetMap, PhaseMap

LEMMA ReceiveStep ==
  ASSUME ServerInv, NEW r \in Requests, Receive(r)
  PROVE  Store!Submit(r)
<1>1. TypeOK /\ Local(r)
  BY RegroupKept, Regroup
<1>2. /\ pc[r] = "receive" /\ r \notin applied
      /\ UNCHANGED <<db, issued, clock, call, applied>>
      /\ \A q \in Requests \ {r} : pc'[q] = pc[q] /\ tx'[q] = tx[q]
  BY <1>1 DEF Receive, Local, Respond, Goto, TypeOK
<1>3. NotesMap' = NotesMap /\ TargetMap' = TargetMap
  BY <1>1, <1>2, NotesStay, TargetsStay DEF TypeOK
<1>4. Phase(r) = "idle"
  BY <1>2 DEF Phase
<1>5. CASE Admit(call[r]) = "ok"
  <2>1. pc'[r] \in {"reread", "read", "begin"} /\ (pc'[r] = "reread" => call[r].op = "get")
        /\ UNCHANGED resp
    BY <1>1, <1>5 DEF Receive, Goto, TypeOK
  <2>2. Phase(r)' = "pending"
    BY <1>2, <2>1 DEF Phase
  <2>3. Store!Move(r, "idle", "pending")
    BY <1>2, <1>4, <2>2, Moves
  <2>. QED  BY <1>2, <1>3, <1>5, <2>1, <2>3, SameRules DEF Store!Submit, NotesMap, TargetMap
<1>6. CASE Admit(call[r]) # "ok"
  <2>1. Respond(r, Refuse(Admit(call[r])))
    BY <1>6 DEF Receive
  <2>2. Phase(r)' = "done"
    BY <1>1, <2>1 DEF Phase, Respond, Goto, TypeOK
  <2>3. Store!Move(r, "idle", "done")
    BY <1>2, <1>4, <2>2, Moves
  <2>4. Store!Settle(r, Store!Refuse(Store!Admit(call[r])))
    BY <2>1, Settles, SameRules
  <2>. QED  BY <1>2, <1>3, <1>6, <2>3, <2>4, SameRules DEF Store!Submit, NotesMap, TargetMap
<1>. QED  BY <1>5, <1>6

\* A pending write is refused.
LEMMA RefuseStep ==
  ASSUME ServerInv, NEW r \in Requests, pc[r] \in InFlight \ {"reread"}, r \notin applied,
         UNCHANGED <<db, call, tx, applied>>,
         \/ /\ call[r].op # "create" /\ ~Visible(r, tx[r].id)
            /\ Respond(r, Refuse("not_found"))
         \/ call[r].op = "add" /\ Respond(r, Refuse("invalid_argument"))
  PROVE  Store!RefuseWrite(r)
<1>1. TypeOK
  BY RegroupKept, Regroup
<1>2. NotesMap' = NotesMap /\ TargetMap' = TargetMap
  BY NotesStay, TargetsStay
<1>3. pc'[r] = "done" /\ \A q \in Requests \ {r} : pc'[q] = pc[q]
  BY <1>1 DEF Respond, Goto, TypeOK
<1>4. Phase(r) = "pending" /\ Phase(r)' = "done"
  BY <1>3 DEF Phase, InFlight
<1>5. Store!Move(r, "pending", "done")
  BY <1>3, <1>4, Moves
<1>6. \/ /\ call[r].op # "create"
         /\ ~Store!Mine(r, Target(r))
         /\ Store!Settle(r, Store!Refuse("not_found"))
      \/ /\ call[r].op = "add"
         /\ Store!Settle(r, Store!Refuse("invalid_argument"))
  BY TargetIsNote, MineIsVisible, Settles, SameRules
<1>. QED  BY <1>2, <1>5, <1>6 DEF Store!RefuseWrite, NotesMap, TargetMap

LEMMA ReadExistingStep ==
  ASSUME ServerInv, NEW r \in Requests, ReadExisting(r)
  PROVE  Store!RefuseWrite(r) \/ UNCHANGED Store!vars
<1> DEFINE n == tx[r].id
           merged == normalizeTags(noteTags[n] \cup call[r].tags)
<1>1. TypeOK /\ Local(r)
  BY RegroupKept, Regroup
<1>2. /\ pc[r] = "read" /\ pc[r] \in InFlight \ {"reread"} /\ r \notin applied
      /\ call[r].op = "add" /\ UNCHANGED <<db, call, applied>>
  BY <1>1 DEF ReadExisting, Local, FlightPart, InFlight, Steps, OpsAt
<1>3. CASE ~Visible(r, n)
  BY <1>2, <1>3, RefuseStep DEF ReadExisting
<1>4. CASE Visible(r, n) /\ TooManyTags(merged)
  BY <1>2, <1>4, RefuseStep DEF ReadExisting
<1>5. CASE Visible(r, n) /\ ~TooManyTags(merged)
  <2>1. Goto(r, "begin") /\ tx' = [tx EXCEPT ![r].want = merged] /\ UNCHANGED resp
    BY <1>5 DEF ReadExisting
  <2>2. pc'[r] = "begin" /\ \A q \in Requests \ {r} : pc'[q] = pc[q] /\ tx'[q] = tx[q]
    BY <1>1, <2>1 DEF Goto, TypeOK
  <2>3. Phase(r)' = Phase(r)
    BY <1>2, <2>2 DEF Phase
  <2>. QED  BY <1>2, <2>1, <2>2, <2>3, Stutters
<1>. QED  BY <1>3, <1>4, <1>5

\* Beginning, inserting the row, clearing and inserting tags are r's own affair.
LEMMA UnseenStep ==
  ASSUME ServerInv, NEW r \in Requests,
         Begin(r) \/ InsertNote(r) \/ ClearTags(r) \/ InsertTags(r)
  PROVE  UNCHANGED Store!vars
<1>1. TypeOK /\ Local(r)
  BY RegroupKept, Regroup
<1>2. /\ pc[r] \in {"begin", "insert", "clear", "tags"} /\ r \notin applied
      /\ pc[r] = "begin" => call[r].op \in {"create", "add", "update", "delete"}
  BY <1>1 DEF Begin, InsertNote, ClearTags, InsertTags, Local, FlightPart, InFlight, Steps,
              HoldsConn, OpsAt
<1>3. /\ UNCHANGED <<db, call, applied>> /\ resp' = resp
      /\ \A q \in Requests \ {r} : pc'[q] = pc[q] /\ tx'[q] = tx[q]
  BY <1>1 DEF Begin, InsertNote, ClearTags, InsertTags, Goto, TypeOK
<1>4. pc'[r] \in {"insert", "touch", "update", "delete", "tags", "commit"}
  BY <1>1, <1>2 DEF Begin, InsertNote, ClearTags, InsertTags, Goto, TypeOK
<1>5. Phase(r)' = Phase(r)
  BY <1>2, <1>4 DEF Phase
<1>. QED  BY <1>2, <1>3, <1>5, Stutters

LEMMA WriteRowStep ==
  ASSUME ServerInv, NEW r \in Requests, TouchNote(r) \/ UpdateNote(r)
  PROVE  Store!RefuseWrite(r) \/ UNCHANGED Store!vars
<1>1. TypeOK /\ Local(r)
  BY RegroupKept, Regroup
<1>2. PICK from, to, row : /\ from \in {"touch", "update"} /\ to \in {"count", "clear"}
                            /\ WriteRow(r, from, to, row)
  BY DEF TouchNote, UpdateNote
<1>3. /\ pc[r] = from /\ pc[r] \in InFlight \ {"reread"} /\ r \notin applied
      /\ call[r].op # "create" /\ UNCHANGED <<db, call, applied>>
  BY <1>1, <1>2 DEF WriteRow, Local, FlightPart, InFlight, Steps, HoldsConn, OpsAt
<1>4. CASE ~Visible(r, tx[r].id)
  BY <1>2, <1>3, <1>4, RefuseStep DEF WriteRow
<1>5. CASE Visible(r, tx[r].id)
  <2>1. /\ pc'[r] = to /\ resp' = resp
        /\ \A q \in Requests \ {r} : pc'[q] = pc[q] /\ tx'[q] = tx[q]
    BY <1>1, <1>2, <1>5 DEF WriteRow, Goto, TypeOK
  <2>2. /\ pc[r] \in {"touch", "update"} /\ pc'[r] \in {"count", "clear"}
        /\ call'[r] = call[r]
    BY <1>2, <1>3, <2>1
  <2>3. Phase(r)' = Phase(r)
    BY <2>2 DEF Phase
  <2>. QED  BY <1>3, <2>1, <2>3, Stutters
<1>. QED  BY <1>4, <1>5

LEMMA CountTagsStep ==
  ASSUME ServerInv, NEW r \in Requests, CountTags(r)
  PROVE  Store!RefuseWrite(r) \/ UNCHANGED Store!vars
<1>1. TypeOK /\ Local(r)
  BY RegroupKept, Regroup
<1>2. /\ pc[r] = "count" /\ pc[r] \in InFlight \ {"reread"} /\ r \notin applied
      /\ call[r].op = "add" /\ UNCHANGED <<db, call, tx, applied>>
  BY <1>1 DEF CountTags, Local, FlightPart, InFlight, Steps, HoldsConn, OpsAt
<1>3. CASE TooManyTags(noteTags[tx[r].id] \cup tx[r].want)
  BY <1>2, <1>3, RefuseStep DEF CountTags
<1>4. CASE ~TooManyTags(noteTags[tx[r].id] \cup tx[r].want)
  <2>1. /\ pc'[r] = "tags" /\ resp' = resp
        /\ \A q \in Requests \ {r} : pc'[q] = pc[q] /\ tx'[q] = tx[q]
    BY <1>1, <1>2, <1>4 DEF CountTags, Goto, TypeOK
  <2>2. Phase(r)' = Phase(r)
    BY <1>2, <2>1 DEF Phase
  <2>. QED  BY <1>2, <2>1, <2>2, Stutters
<1>. QED  BY <1>3, <1>4

\* The answer shows the note of the caller as the store has it.
LEMMA GetNoteStep ==
  ASSUME ServerInv, NEW r \in Requests, GetNote(r)
  PROVE  Store!ReadNote(r) \/ Store!ShowWritten(r)
<1> DEFINE n == tx[r].id
           from == IF call[r].op = "get" THEN "pending" ELSE "applied"
<1>1. TypeOK /\ Local(r) /\ Kept(r)
  BY RegroupKept, Regroup
<1>2. /\ pc[r] = "reread" /\ pc[r] \in InFlight
      /\ UNCHANGED <<db, call, tx, applied>>
      /\ call[r].op # "get" => r \in applied
      /\ call[r].op # "create" \/ r \in applied
  BY <1>1 DEF GetNote, Kept, Unanswered, InFlight, Steps
<1>3. PICK a : /\ Respond(r, a)
               /\ a = IF ~Visible(r, n) THEN Refuse("not_found")
                      ELSE IF ValidNote(NoteAt(n)) THEN Answer("ok", NoteAt(n))
                      ELSE Refuse("internal")
  BY DEF GetNote
<1>4. Target(r) = n /\ n \in NoteIDs /\ (Store!Mine(r, n) <=> Visible(r, n))
  BY <1>2, TargetIsNote, MineIsVisible
<1>5. Store!Move(r, from, "done")
  <2>1. pc'[r] = "done" /\ \A q \in Requests \ {r} : pc'[q] = pc[q]
    BY <1>1, <1>3 DEF Respond, Goto, TypeOK
  <2>2. Phase(r) = from /\ Phase(r)' = "done"
    BY <1>2, <2>1 DEF Phase
  <2>. QED  BY <1>2, <2>1, <2>2, Moves
<1>6. Store!Settle(r, a)
  BY <1>3, Settles
<1>7. NotesMap' = NotesMap /\ TargetMap' = TargetMap
  BY <1>2, NotesStay, TargetsStay
<1>8. Store!Show(r, from)
  <2>1. IF Store!Mine(r, n)
          THEN Store!Settle(r, IF Store!ValidNote(NoteAt(n)) THEN Store!Answer("ok", NoteAt(n))
                                                   ELSE Store!Refuse("internal"))
          ELSE Store!Settle(r, Store!Refuse("not_found"))
    BY <1>3, <1>4, <1>6, SameRules
  <2>. QED  BY <1>2, <1>4, <1>5, <1>7, <2>1 DEF Store!Show, NotesMap, TargetMap
<1>. QED  BY <1>8 DEF Store!ReadNote, Store!ShowWritten

\* A transaction's stamp is one the store may choose: the clock ticks at most
\* twice per request.
LEMMA StampBound ==
  ASSUME ServerInv, NEW t \in Nat, t <= clock
  PROVE  t \in Stamps
<1>1. TypeOK /\ ClockOK
  BY RegroupKept, Regroup
<1>2. /\ IsFiniteSet(Requests) /\ Began \subseteq Requests /\ BeyondRow \subseteq Requests
  BY ServerAssumption DEF Began, BeyondRow
<1>3. /\ Cardinality(Requests) \in Nat /\ Cardinality(Began) \in Nat
      /\ Cardinality(BeyondRow) \in Nat
      /\ Cardinality(Began) <= Cardinality(Requests)
      /\ Cardinality(BeyondRow) <= Cardinality(Requests)
  BY <1>2, FS_Subset, FS_CardinalityType
<1>. QED  BY <1>1, <1>3 DEF ClockOK, Stamps, TypeOK

\* What COMMIT publishes is the effect of the call, on the notes as they are.
LEMMA PublishEffect ==
  ASSUME ServerInv, NEW r \in Requests, pc[r] = "commit", Publish(r),
         UNCHANGED <<issued, clock, call, tx>>
  PROVE  Store!Effect(r)
<1> DEFINE n == tx[r].id
           t == tx[r].row.updated
<1>1. TypeOK /\ Local(r) /\ Kept(r)
  BY RegroupKept, Regroup
<1>2. /\ pc[r] \in InFlight /\ pc[r] \in Wrote /\ r \notin applied
      /\ call[r].op \in {"create", "add", "update"}
      /\ n \in NoteIDs /\ rows[n] \in Row
      /\ Admit(call[r]) = "ok" /\ call[r] \in Call
      /\ t \in Nat /\ t <= clock
      /\ tx[r].ins = tx[r].want /\ tx[r].ins \in SUBSET Tags
      /\ Cardinality((noteTags[n] \ tx[r].del) \cup tx[r].ins) <= MaxTags
      /\ noteTags[n] \in SUBSET Tags
  BY <1>1 DEF Local, FlightPart, WriterPart, TagsPart, InFlight, Steps, HoldsConn, Wrote, OpsAt,
              TypeOK, Tx, Row
<1>3. /\ rows'[n] = tx[r].row
      /\ noteTags'[n] = (noteTags[n] \ tx[r].del) \cup tx[r].ins
      /\ \A m \in NoteIDs \ {n} : rows'[m] = rows[m] /\ noteTags'[m] = noteTags[m]
      /\ applied' = applied \cup {r}
  BY <1>1, <1>2 DEF Publish, TypeOK
<1>4. t \in Stamps /\ tx[r].row = AskedRow(r, t)
  BY <1>1, <1>2, StampBound DEF Kept, WritesAsked
<1>5. \A q \in Requests \ {r} : Target(q)' = Target(q)
  BY <1>3 DEF Target
<1>6. call[r].op # "add" => noteTags'[n] = normalizeTags(call[r].tags)
  BY <1>1, <1>2, <1>3 DEF Kept, WritesAsked
<1>7. ASSUME call[r].op # "create"
      PROVE  /\ Target(r) = n /\ Store!Mine(r, n) /\ TargetMap' = TargetMap
             /\ t > rows[n].updated
  <2>1. Target(r) = n /\ (Store!Mine(r, n) <=> Visible(r, n))
    BY <1>2, <1>7, TargetIsNote, MineIsVisible
  <2>2. Target(r)' = Target(r)
    BY <1>7 DEF Target
  <2>3. Visible(r, n) /\ t > rows[n].updated
    BY <1>1, <1>2, <1>7 DEF Local, WriterPart
  <2>. QED  BY <1>5, <2>1, <2>2, <2>3 DEF TargetMap
<1>8. CASE call[r].op = "create"
  <2> DEFINE note == [row |-> [owner |-> call[r].user, body |-> call[r].body,
                               status |-> normalizeStatus(call[r].status),
                               created |-> t, updated |-> t],
                      tags |-> normalizeTags(call[r].tags)]
  <2>1. NoteAt(n)' = note
    BY <1>3, <1>4, <1>6, <1>8 DEF AskedRow, NoteAt
  <2>2. Store!Put(n, note)
    BY <1>2, <1>3, <2>1, Puts
  <2>3. NoteAt(n) = NoNote
    BY <1>1, <1>2, <1>8 DEF Local, WriterPart
  <2>4. TargetMap' = [TargetMap EXCEPT ![r] = n]
    <3>1. Target(r)' = n
      BY <1>3, <1>8 DEF Target
    <3>. QED  BY <1>5, <3>1 DEF TargetMap
  <2>5. Store!Create(r)
    BY <1>2, <1>4, <2>2, <2>3, <2>4, SameRules DEF Store!Create, TargetMap, Stamps
  <2>. QED  BY <1>8, <2>5 DEF Store!Effect
<1>9. CASE call[r].op = "update"
  <2> DEFINE note == [row |-> [rows[n] EXCEPT !.body = call[r].body, !.updated = t,
                                 !.status = normalizeStatus(call[r].status)],
                      tags |-> normalizeTags(call[r].tags)]
  <2>1. NoteAt(n)' = note
    BY <1>3, <1>4, <1>6, <1>9 DEF AskedRow, NoteAt
  <2>2. Store!Put(n, note)
    BY <1>2, <1>3, <2>1, Puts
  <2>3. Store!Update(r)
    <3>1. /\ TargetMap' = TargetMap /\ Store!Mine(r, TargetMap[r])
          /\ t > NotesMap[TargetMap[r]].row.updated
      BY <1>2, <1>7, <1>9 DEF TargetMap, NotesMap, NoteAt
    <3>2. Store!Put(TargetMap[r],
            [row |-> [NotesMap[TargetMap[r]].row EXCEPT
                        !.body = call[r].body, !.updated = t,
                        !.status = Store!normalizeStatus(call[r].status)],
             tags |-> Store!normalizeTags(call[r].tags)])
      <4>1. TargetMap[r] = n /\ NotesMap[n].row = rows[n]
        BY <1>2, <1>7, <1>9 DEF TargetMap, NotesMap, NoteAt
      <4>2. /\ Store!normalizeTags(call[r].tags) = normalizeTags(call[r].tags)
            /\ Store!normalizeStatus(call[r].status) = normalizeStatus(call[r].status)
        BY SameRules
      <4>. QED  BY <2>2, <4>1, <4>2
    <3> HIDE DEF t, n
    <3>. QED  BY <1>4, <3>1, <3>2 DEF Store!Update, TargetMap, NotesMap, Stamps
  <2>. QED  BY <1>9, <2>3 DEF Store!Effect
<1>10. CASE call[r].op = "add"
  <2> DEFINE all == noteTags[n] \cup tx[r].ins
             note == [row |-> [rows[n] EXCEPT !.updated = t], tags |-> all]
  <2>1. noteTags'[n] = all /\ Cardinality(all) <= MaxTags
    BY <1>1, <1>2, <1>3, <1>10 DEF Kept, WritesAsked
  <2>2. NoteAt(n)' = note
    BY <1>3, <1>4, <1>10, <2>1 DEF AskedRow, NoteAt
  <2>3. Store!Put(n, note)
    BY <1>2, <1>3, <2>2, Puts
  <2>4. ~TooManyTags(all)
    <3>1. Cardinality(all) \in Nat
      BY <1>2, TagSets
    <3>. QED  BY <2>1, <3>1, MaxTagsType DEF TooManyTags
  <2>5. normalizeTags(call[r].tags) \subseteq tx[r].ins
    BY <1>1, <1>2, <1>10 DEF Kept, WritesAsked
  <2>6. Store!AddTags(r)
    <3> DEFINE more == tx[r].ins
    <3>1. /\ TargetMap' = TargetMap /\ Store!Mine(r, TargetMap[r])
          /\ t > NotesMap[TargetMap[r]].row.updated
          /\ more \in SUBSET Store!Tags /\ Store!normalizeTags(call[r].tags) \subseteq more
          /\ ~Store!TooManyTags(NotesMap[TargetMap[r]].tags \cup more)
      BY <1>2, <1>7, <1>10, <2>4, <2>5, SameRules DEF TargetMap, NotesMap, NoteAt
    <3>2. Store!Put(TargetMap[r],
            [row |-> [NotesMap[TargetMap[r]].row EXCEPT !.updated = t],
             tags |-> NotesMap[TargetMap[r]].tags \cup more])
      <4>1. TargetMap[r] = n /\ NotesMap[n].row = rows[n] /\ NotesMap[n].tags = noteTags[n]
        BY <1>2, <1>7, <1>10 DEF TargetMap, NotesMap, NoteAt
      <4>. QED  BY <2>3, <4>1
    <3> HIDE DEF t, n, more
    <3>. QED  BY <1>4, <3>1, <3>2 DEF Store!AddTags, TargetMap, NotesMap, Stamps
  <2>. QED  BY <1>10, <2>6 DEF Store!Effect
<1>. QED  BY <1>2, <1>8, <1>9, <1>10

LEMMA EraseEffect ==
  ASSUME ServerInv, NEW r \in Requests, pc[r] = "delete", Visible(r, tx[r].id), Erase(r),
         UNCHANGED <<issued, clock, call, tx>>
  PROVE  Store!Effect(r)
<1> DEFINE n == tx[r].id
<1>1. TypeOK /\ Local(r)
  BY RegroupKept, Regroup
<1>2. pc[r] \in InFlight /\ call[r].op = "delete"
  BY <1>1 DEF Local, FlightPart, InFlight, Steps, HoldsConn, OpsAt
<1>3. Target(r) = n /\ n \in NoteIDs /\ Store!Mine(r, n)
  BY <1>2, TargetIsNote, MineIsVisible
<1>4. /\ rows'[n] = NoRow /\ noteTags'[n] = {}
      /\ \A m \in NoteIDs \ {n} : rows'[m] = rows[m] /\ noteTags'[m] = noteTags[m]
      /\ applied' = applied \cup {r}
  BY <1>1, <1>3 DEF Erase, TypeOK
<1>5. TargetMap' = TargetMap
  BY <1>2, <1>4 DEF TargetMap, Target
<1>6. Store!Put(n, NoNote)
  BY <1>3, <1>4, Puts DEF NoteAt, NoNote
<1>7. Store!Delete(r)
  BY <1>3, <1>5, <1>6, SameRules DEF Store!Delete, TargetMap
<1>. QED  BY <1>2, <1>7 DEF Store!Effect

LEMMA CommitStep ==
  ASSUME ServerInv, NEW r \in Requests, Commit(r)
  PROVE  Store!Apply(r)
<1>1. TypeOK /\ Local(r)
  BY RegroupKept, Regroup
<1>2. /\ pc[r] = "commit" /\ Publish(r) /\ pc'[r] = "reread"
      /\ UNCHANGED <<issued, clock, call, tx, resp>>
      /\ \A q \in Requests \ {r} : pc'[q] = pc[q]
  BY <1>1 DEF Commit, Goto, TypeOK
<1>3. call[r].op # "get"
  BY <1>1, <1>2 DEF Local, FlightPart, InFlight, Steps, HoldsConn, OpsAt
<1>4. Phase(r) = "pending" /\ Phase(r)' = "applied"
  BY <1>2, <1>3 DEF Phase
<1>5. Store!Move(r, "pending", "applied")
  BY <1>2, <1>4, Moves
<1>6. Store!Effect(r)
  BY <1>2, PublishEffect
<1>. QED  BY <1>2, <1>5, <1>6 DEF Store!Apply

LEMMA DeleteNoteStep ==
  ASSUME ServerInv, NEW r \in Requests, DeleteNote(r)
  PROVE  Store!ApplyAndAnswer(r) \/ Store!RefuseWrite(r)
<1>1. TypeOK /\ Local(r)
  BY RegroupKept, Regroup
<1>2. /\ pc[r] = "delete" /\ pc[r] \in InFlight \ {"reread"} /\ r \notin applied
      /\ call[r].op = "delete" /\ UNCHANGED <<issued, clock, call, tx>>
  BY <1>1 DEF DeleteNote, Local, FlightPart, InFlight, Steps, HoldsConn, OpsAt
<1>3. CASE Visible(r, tx[r].id)
  <2>1. Erase(r) /\ Respond(r, Answer("ok", NoNote))
    BY <1>3 DEF DeleteNote
  <2>2. pc'[r] = "done" /\ \A q \in Requests \ {r} : pc'[q] = pc[q]
    BY <1>1, <2>1 DEF Respond, Goto, TypeOK
  <2>3. Phase(r) = "pending" /\ Phase(r)' = "done"
    BY <1>2, <2>2 DEF Phase
  <2>4. Store!Move(r, "pending", "done")
    BY <1>2, <2>2, <2>3, Moves
  <2>5. Store!Settle(r, Store!Answer("ok", Store!NoNote))
    BY <2>1, Settles, SameRules
  <2>6. Store!Effect(r)
    BY <1>2, <1>3, <2>1, EraseEffect
  <2>. QED  BY <1>2, <2>4, <2>5, <2>6 DEF Store!ApplyAndAnswer
<1>4. CASE ~Visible(r, tx[r].id)
  BY <1>2, <1>4, RefuseStep DEF DeleteNote
<1>. QED  BY <1>3, <1>4

LEMMA FailAfterEffectStep ==
  ASSUME ServerInv, NEW r \in Requests, FailAfterEffect(r)
  PROVE  Store!ApplyAndFail(r)
<1>1. TypeOK
  BY RegroupKept, Regroup
<1>2. /\ Respond(r, Refuse("internal")) /\ pc[r] \in {"commit", "delete"}
      /\ UNCHANGED <<issued, clock, call, tx>>
  BY DEF FailAfterEffect
<1>3. pc'[r] = "done" /\ \A q \in Requests \ {r} : pc'[q] = pc[q]
  BY <1>1, <1>2 DEF Respond, Goto, TypeOK
<1>4. Phase(r) = "pending" /\ Phase(r)' = "done"
  BY <1>2, <1>3 DEF Phase
<1>5. Store!Move(r, "pending", "done")
  BY <1>2, <1>3, <1>4, Moves
<1>6. Store!Settle(r, Store!Refuse("internal"))
  BY <1>2, Settles, SameRules
<1>7. Store!Effect(r)
  BY <1>2, PublishEffect, EraseEffect DEF FailAfterEffect
<1>. QED  BY <1>2, <1>5, <1>6, <1>7 DEF Store!ApplyAndFail

\* Requests in flight are pending or applied; failing ends them.
LEMMA FailedStep ==
  ASSUME ServerInv, NEW R \in SUBSET Requests, NEW code \in {"internal", "unavailable"},
         \A r \in R : pc[r] \in InFlight,
         pc' = [r \in Requests |-> IF r \in R THEN "done" ELSE pc[r]],
         resp' = [r \in Requests |-> IF r \in R THEN Refuse(code) ELSE resp[r]],
         UNCHANGED <<db, call, tx, applied>>
  PROVE  Store!Fail(R)
<1>1. \A r \in R : Phase(r) \in {"pending", "applied"}
  BY DEF Phase, InFlight
<1>2. PhaseMap' = [r \in Requests |-> IF r \in R THEN "done" ELSE Phase(r)]
  BY DEF PhaseMap, Phase
<1>3. resp' = [r \in Requests |-> IF r \in R THEN Store!Refuse(code) ELSE resp[r]]
  BY SameRules
<1>4. NotesMap' = NotesMap /\ TargetMap' = TargetMap
  BY NotesStay, TargetsStay
<1>. QED  BY <1>1, <1>2, <1>3, <1>4 DEF Store!Fail, NotesMap, TargetMap, PhaseMap

LEMMA FailStep ==
  ASSUME ServerInv, NEW r \in Requests, Fail(r)
  PROVE  Store!Fail({r})
<1>1. TypeOK
  BY RegroupKept, Regroup
<1>2. /\ pc[r] \in InFlight /\ UNCHANGED <<db, call, tx, applied>>
      /\ pc' = [q \in Requests |-> IF q \in {r} THEN "done" ELSE pc[q]]
      /\ resp' = [q \in Requests |-> IF q \in {r} THEN Refuse("internal") ELSE resp[q]]
  BY <1>1 DEF Fail, Respond, Goto, TypeOK
<1>. QED  BY <1>2, FailedStep

LEMMA CrashStep ==
  ASSUME ServerInv, Crash
  PROVE  \E R \in SUBSET Requests : Store!Fail(R)
<1> DEFINE lost == {r \in Requests : pc[r] \in InFlight}
<1>1. Store!Fail(lost)
  BY FailedStep DEF Crash
<1>. QED  BY <1>1

\* Every step of the server is a step of the store, or one it does not see.
LEMMA StoreStep == ServerInv /\ [Next]_vars => [Store!Next]_(Store!vars)
<1> SUFFICES ASSUME ServerInv, [Next]_vars PROVE Store!Next \/ UNCHANGED Store!vars
  OBVIOUS
<1>1. ASSUME NEW r \in Requests, Receive(r)
      PROVE  Store!Next
  BY <1>1, ReceiveStep DEF Store!Next
<1>2. ASSUME NEW r \in Requests, Handle(r)
      PROVE  Store!Next \/ UNCHANGED Store!vars
  <2>1. CASE Commit(r) \/ GetNote(r) \/ DeleteNote(r)
    BY <2>1, CommitStep, GetNoteStep, DeleteNoteStep DEF Store!Next
  <2>2. CASE ReadExisting(r) \/ TouchNote(r) \/ UpdateNote(r) \/ CountTags(r)
    BY <2>2, ReadExistingStep, WriteRowStep, CountTagsStep DEF Store!Next
  <2>3. CASE Begin(r) \/ InsertNote(r) \/ ClearTags(r) \/ InsertTags(r)
    BY <2>3, UnseenStep
  <2>. QED  BY <1>2, <2>1, <2>2, <2>3 DEF Handle
<1>3. ASSUME NEW r \in Requests, Fail(r)
      PROVE  Store!Next
  BY <1>3, FailStep DEF Store!Next
<1>4. ASSUME NEW r \in Requests, FailAfterEffect(r)
      PROVE  Store!Next
  BY <1>4, FailAfterEffectStep DEF Store!Next
<1>5. CASE Crash
  BY <1>5, CrashStep DEF Store!Next
<1>6. CASE UNCHANGED vars
  <2>1. NotesMap' = NotesMap /\ TargetMap' = TargetMap /\ PhaseMap' = PhaseMap
    BY <1>6 DEF vars, NotesMap, NoteAt, TargetMap, Target, PhaseMap, Phase
  <2>. QED  BY <1>6, <2>1 DEF vars, Store!vars, NotesMap, TargetMap, PhaseMap
<1>. QED  BY <1>1, <1>2, <1>3, <1>4, <1>5, <1>6 DEF Next, Terminating

\* NotesService keeps the promise of NotesStore: whatever statements, requests,
\* failures and crashes interleave, each call takes effect at most once, at one
\* instant between the call and its answer, and an answered note is a note as
\* the store had it at that instant.
THEOREM StoreImplemented == Spec => ImplementsStore
BY StoreInit, StoreStep, ServerInvariantHolds, PTL DEF Spec, ImplementsStore, Store!Spec
=============================================================================
