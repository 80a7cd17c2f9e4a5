------------------------- MODULE NotesServerProofs -------------------------
(***************************************************************************)
(* Proofs about NotesServer, for any number of requests, notes, owners and *)
(* tags, any tag limit and any pool size.  The argument is the inductive   *)
(* invariant IInv; everything follows from IInv and one step.              *)
(***************************************************************************)
EXTENDS NotesServer, FiniteSetTheorems, TLAPS

-----------------------------------------------------------------------------
LEMMA MaxTagsType == MaxTags \in Nat
BY RulesAssumption

LEMMA OwnerType == Owners \subseteq Nat \ {0}
BY RulesAssumption

\* Sets of tags are finite, so their sizes are numbers (notes.MaxTags compares
\* them) and an emptied note is within the limit.
LEMMA TagSets ==
  /\ \A S \in SUBSET Tags : Cardinality(S) \in Nat
  /\ Cardinality({}) = 0
<1>1. IsFiniteSet(Tags)
  BY FS_Subset, RulesAssumption
<1>2. \A S \in SUBSET Tags : Cardinality(S) \in Nat
  BY <1>1, FS_Subset, FS_CardinalityType
<1>. QED  BY <1>2, FS_EmptySet

\* normalizeTags yields stored tags, of requested and of stored tags alike.
LEMMA NormalTags ==
  ASSUME NEW S \in SUBSET RawTags
  PROVE  normalizeTags(S) \in SUBSET Tags
BY DEF normalizeTags, Tags

\* What Admit has established about a request that reaches the repository.
LEMMA Admitted ==
  ASSUME NEW c \in Call, Admit(c) = "ok"
  PROVE  /\ c.user \in Owners
         /\ c.op # "create" => c.note \in NoteIDs
         /\ c.op \in {"create", "update"} =>
              /\ normalizeStatus(c.status) \in Statuses
              /\ Cardinality(normalizeTags(c.tags)) <= MaxTags
         /\ HasScope(c, RequiredScope(c.op))
<1>1. /\ c.user # 0 /\ ValidRequest(c) /\ HasScope(c, RequiredScope(c.op))
      /\ NamesANote(c) /\ Normalizes(c)
  BY DEF Admit
<1>2. c.user \in Owners /\ (c.op # "create" => c.note \in NoteIDs)
  BY <1>1 DEF Call, NamesANote, Ops
<1>3. ASSUME c.op \in {"create", "update"}
      PROVE  /\ normalizeStatus(c.status) \in Statuses
             /\ Cardinality(normalizeTags(c.tags)) <= MaxTags
  <2>1. c.status # "unspecified" /\ ~TooManyTags(normalizeTags(c.tags))
    BY <1>1, <1>3 DEF ValidRequest, Normalizes
  <2>2. Cardinality(normalizeTags(c.tags)) \in Nat
    BY NormalTags, TagSets DEF Call
  <2>3. normalizeStatus(c.status) \in Statuses
    BY <2>1 DEF Call, normalizeStatus, Statuses
  <2>. QED  BY <2>1, <2>2, <2>3, MaxTagsType DEF TooManyTags
<1>. QED  BY <1>1, <1>2, <1>3

LEMMA NoNoteType == NoRow \in Row /\ NoNote \in Note
BY RulesAssumption DEF NoRow, Row, NoNote, Note, Statuses

LEMMA NewTxType ==
  ASSUME NEW c \in Call
  PROVE  NewTx(c) \in Tx
BY NormalTags, NoNoteType DEF NewTx, Tx, Call
-----------------------------------------------------------------------------
\* Types.  A step's type correctness rests on IInv, which knows that a request
\* in flight was admitted and at which steps it has a note.

LEMMA AnswerType ==
  ASSUME NEW code \in Codes, NEW note \in Note
  PROVE  Answer(code, note) \in [code : Codes, note : Note]
BY DEF Answer

LEMMA RefuseType ==
  ASSUME NEW code \in Codes
  PROVE  Refuse(code) \in [code : Codes, note : Note]
BY AnswerType, NoNoteType DEF Refuse

LEMMA AdmitType ==
  ASSUME NEW c
  PROVE  Admit(c) \in Codes
BY DEF Admit, Codes

LEMMA InitType == Init => TypeOK
<1> SUFFICES ASSUME Init PROVE TypeOK
  OBVIOUS
<1>1. PICK s \in InitialStores :
        rows = s.rows /\ noteTags = s.tags /\ issued = {n \in NoteIDs : s.rows[n] # NoRow}
  BY DEF Init
<1>2. s \in StoreContents
  BY ServerAssumption
<1>3. rows \in [NoteIDs -> Row] /\ noteTags \in [NoteIDs -> SUBSET Tags]
  BY <1>1, <1>2 DEF StoreContents
<1>4. call \in [Requests -> Call]
  BY ServerAssumption DEF Init
<1>5. tx \in [Requests -> Tx]
  BY <1>4, NewTxType DEF Init
<1>6. resp \in [Requests -> [code : Codes, note : Note]]
  BY RefuseType DEF Init, Codes
<1>. QED
  BY <1>1, <1>3, <1>4, <1>5, <1>6 DEF Init, TypeOK, Steps

LEMMA RespondType ==
  ASSUME TypeOK, NEW r \in Requests, NEW a \in [code : Codes, note : Note],
         Respond(r, a)
  PROVE  /\ pc' \in [Requests -> Steps]
         /\ resp' \in [Requests -> [code : Codes, note : Note]]
BY DEF TypeOK, Respond, Goto, Steps

LEMMA ReceiveType ==
  ASSUME TypeOK, NEW r \in Requests, Receive(r)
  PROVE  TypeOK'
<1>1. CASE Admit(call[r]) # "ok"
  <2>1. Respond(r, Refuse(Admit(call[r]))) /\ UNCHANGED tx
    BY <1>1 DEF Receive
  <2>2. Refuse(Admit(call[r])) \in [code : Codes, note : Note]
    BY AdmitType, RefuseType
  <2>. QED  BY <2>1, <2>2, RespondType DEF TypeOK, Receive, db
<1>2. CASE Admit(call[r]) = "ok"
  <2>1. NewTx(call[r]) \in Tx
    BY NewTxType DEF TypeOK
  <2>. QED  BY <1>2, <2>1 DEF TypeOK, Receive, Goto, Steps, HoldsConn, db
<1>. QED  BY <1>1, <1>2

LEMMA ReadExistingType ==
  ASSUME TypeOK, InFlightOK, NEW r \in Requests, ReadExisting(r)
  PROVE  TypeOK'
<1> DEFINE n == tx[r].id
           merged == normalizeTags(noteTags[n] \cup call[r].tags)
<1>1. n \in NoteIDs
  BY Admitted DEF ReadExisting, InFlightOK, InFlight, Steps, OpsAt, TypeOK
<1>2. merged \in SUBSET Tags
  <2>1. noteTags[n] \cup call[r].tags \in SUBSET RawTags
    BY <1>1, RulesAssumption DEF TypeOK, Call
  <2>. QED  BY <2>1, NormalTags
<1>3. CASE ~Visible(r, n)
  <2>1. Respond(r, Refuse("not_found")) /\ UNCHANGED tx
    BY <1>3 DEF ReadExisting
  <2>. QED  BY <2>1, RespondType, RefuseType DEF TypeOK, ReadExisting, db, Codes
<1>4. CASE Visible(r, n) /\ TooManyTags(merged)
  <2>1. Respond(r, Refuse("invalid_argument")) /\ UNCHANGED tx
    BY <1>4 DEF ReadExisting
  <2>. QED  BY <2>1, RespondType, RefuseType DEF TypeOK, ReadExisting, db, Codes
<1>5. CASE Visible(r, n) /\ ~TooManyTags(merged)
  <2>1. Goto(r, "begin") /\ tx' = [tx EXCEPT ![r].want = merged] /\ UNCHANGED resp
    BY <1>5 DEF ReadExisting
  <2>2. tx' \in [Requests -> Tx]
    BY <1>2, <2>1 DEF TypeOK, Tx
  <2>. QED  BY <2>1, <2>2 DEF TypeOK, ReadExisting, Goto, Steps, db
<1>. QED  BY <1>3, <1>4, <1>5
LEMMA BeginType ==
  ASSUME TypeOK, InFlightOK, NEW r \in Requests, Begin(r)
  PROVE  TypeOK'
<1>1. clock' \in Nat
  BY DEF TypeOK, Begin
<1>2. tx' \in [Requests -> Tx]
  <2>1. [tx[r] EXCEPT !.start = clock'] \in Tx
    BY <1>1 DEF TypeOK, Tx
  <2>. QED  BY <2>1 DEF TypeOK, Begin
<1>3. pc' \in [Requests -> Steps]
  <2>1. call[r].op \in {"create", "add", "update", "delete"}
    BY DEF Begin, InFlightOK, InFlight, Steps, OpsAt
  <2>. QED  BY <2>1 DEF TypeOK, Begin, Goto, Steps, HoldsConn
<1>. QED  BY <1>1, <1>2, <1>3 DEF TypeOK, Begin, db

LEMMA InsertNoteType ==
  ASSUME TypeOK, InFlightOK, NEW r \in Requests, InsertNote(r)
  PROVE  TypeOK'
<1>1. PICK n \in NoteIDs \ issued :
        /\ issued' = issued \cup {n}
        /\ tx' = [tx EXCEPT ![r].id = n, ![r].row =
                    [owner |-> call[r].user, body |-> call[r].body,
                     status |-> normalizeStatus(call[r].status),
                     created |-> tx[r].start, updated |-> tx[r].start]]
  BY DEF InsertNote
<1>2. call[r].op = "create" /\ Admit(call[r]) = "ok"
  BY DEF InsertNote, InFlightOK, InFlight, Steps, HoldsConn, OpsAt
<1>3. [owner |-> call[r].user, body |-> call[r].body,
       status |-> normalizeStatus(call[r].status),
       created |-> tx[r].start, updated |-> tx[r].start] \in Row
  BY <1>2, Admitted DEF TypeOK, Call, Row, Tx
<1>4. tx' \in [Requests -> Tx]
  <2>1. tx[r] \in Tx /\ tx[r].start \in Nat
    BY DEF TypeOK, Tx
  <2>2. \A row \in Row : [tx[r] EXCEPT !.id = n, !.row = row] \in Tx
    BY <2>1 DEF Tx
  <2>3. tx' = [tx EXCEPT ![r] = [tx[r] EXCEPT !.id = n, !.row =
                    [owner |-> call[r].user, body |-> call[r].body,
                     status |-> normalizeStatus(call[r].status),
                     created |-> tx[r].start, updated |-> tx[r].start]]]
    BY <1>1 DEF TypeOK
  <2>. QED  BY <1>3, <2>2, <2>3 DEF TypeOK
<1>. QED  BY <1>1, <1>4 DEF TypeOK, InsertNote, Goto, Steps, HoldsConn, db

LEMMA WriteRowType ==
  ASSUME TypeOK, NEW r \in Requests, NEW from, NEW to \in Steps, NEW row \in Row,
         WriteRow(r, from, to, row)
  PROVE  TypeOK'
<1>1. CASE Visible(r, tx[r].id)
  <2>1. /\ clock' = clock + 1
        /\ tx' = [tx EXCEPT ![r].row = row]
        /\ Goto(r, to) /\ UNCHANGED resp
    BY <1>1 DEF WriteRow
  <2>2. tx' \in [Requests -> Tx]
    BY <2>1 DEF TypeOK, Tx
  <2>. QED  BY <2>1, <2>2 DEF TypeOK, WriteRow, Goto, db
<1>2. CASE ~Visible(r, tx[r].id)
  <2>1. Respond(r, Refuse("not_found")) /\ UNCHANGED <<clock, tx>>
    BY <1>2 DEF WriteRow
  <2>. QED  BY <2>1, RespondType, RefuseType DEF TypeOK, WriteRow, db, Codes
<1>. QED  BY <1>1, <1>2

\* The note of a request that is past its admission and not a create.
LEMMA KnownId ==
  ASSUME TypeOK, InFlightOK, NEW r \in Requests, pc[r] \in InFlight,
         call[r].op # "create"
  PROVE  tx[r].id \in NoteIDs
BY Admitted DEF InFlightOK, TypeOK

LEMMA TouchNoteType ==
  ASSUME TypeOK, InFlightOK, NEW r \in Requests, TouchNote(r)
  PROVE  TypeOK'
<1> DEFINE row == [rows[tx[r].id] EXCEPT !.updated = clock + 1]
<1>1. tx[r].id \in NoteIDs
  BY KnownId DEF TouchNote, WriteRow, InFlightOK, InFlight, Steps, HoldsConn, OpsAt
<1>2. row \in Row
  <2>1. rows[tx[r].id] \in Row /\ clock + 1 \in Nat
    BY <1>1 DEF TypeOK
  <2>. QED  BY <2>1 DEF Row
<1>. QED  BY <1>2, WriteRowType DEF TouchNote, Steps, HoldsConn

LEMMA UpdateNoteType ==
  ASSUME TypeOK, InFlightOK, NEW r \in Requests, UpdateNote(r)
  PROVE  TypeOK'
<1> DEFINE row == [rows[tx[r].id] EXCEPT !.body = call[r].body,
                     !.status = normalizeStatus(call[r].status),
                     !.updated = clock + 1]
<1>1. pc[r] = "update" /\ call[r].op = "update" /\ Admit(call[r]) = "ok"
  BY DEF UpdateNote, WriteRow, InFlightOK, InFlight, Steps, HoldsConn, OpsAt
<1>2. tx[r].id \in NoteIDs
  BY <1>1, KnownId DEF InFlight, Steps, HoldsConn
<1>3. row \in Row
  <2>1. rows[tx[r].id] \in Row /\ clock + 1 \in Nat /\ call[r].body \in Bodies
    BY <1>2 DEF TypeOK, Call
  <2>2. normalizeStatus(call[r].status) \in Statuses
    BY <1>1, Admitted DEF TypeOK
  <2>. QED  BY <2>1, <2>2 DEF Row
<1>. QED  BY <1>3, WriteRowType DEF UpdateNote, Steps, HoldsConn

LEMMA CountTagsType ==
  ASSUME TypeOK, NEW r \in Requests, CountTags(r)
  PROVE  TypeOK'
<1>1. CASE TooManyTags(noteTags[tx[r].id] \cup tx[r].want)
  <2>1. Respond(r, Refuse("invalid_argument"))
    BY <1>1 DEF CountTags
  <2>. QED  BY <2>1, RespondType, RefuseType DEF TypeOK, CountTags, db, Codes
<1>2. CASE ~TooManyTags(noteTags[tx[r].id] \cup tx[r].want)
  BY <1>2 DEF TypeOK, CountTags, Goto, Steps, HoldsConn, db
<1>. QED  BY <1>1, <1>2

LEMMA ClearTagsType ==
  ASSUME TypeOK, InFlightOK, NEW r \in Requests, ClearTags(r)
  PROVE  TypeOK'
<1>1. tx[r].id \in NoteIDs
  BY DEF ClearTags, InFlightOK, InFlight, Steps, HoldsConn, Wrote
<1>2. tx' \in [Requests -> Tx]
  BY <1>1 DEF TypeOK, ClearTags, Tx
<1>. QED  BY <1>2 DEF TypeOK, ClearTags, Goto, Steps, HoldsConn, db

LEMMA InsertTagsType ==
  ASSUME TypeOK, NEW r \in Requests, InsertTags(r)
  PROVE  TypeOK'
<1>1. tx' \in [Requests -> Tx]
  BY DEF TypeOK, InsertTags, Tx
<1>. QED  BY <1>1 DEF TypeOK, InsertTags, Goto, Steps, HoldsConn, db

LEMMA PublishType ==
  ASSUME TypeOK, InFlightOK, NEW r \in Requests, pc[r] = "commit", Publish(r)
  PROVE  /\ rows' \in [NoteIDs -> Row]
         /\ noteTags' \in [NoteIDs -> SUBSET Tags]
         /\ applied' \subseteq Requests
<1>1. tx[r].id \in NoteIDs
  BY DEF InFlightOK, InFlight, Steps, HoldsConn, Wrote
<1>. QED  BY <1>1 DEF TypeOK, Publish, Tx

LEMMA EraseType ==
  ASSUME TypeOK, NEW r \in Requests, Erase(r)
  PROVE  /\ rows' \in [NoteIDs -> Row]
         /\ noteTags' \in [NoteIDs -> SUBSET Tags]
         /\ applied' \subseteq Requests
BY NoNoteType DEF TypeOK, Erase

LEMMA CommitType ==
  ASSUME TypeOK, InFlightOK, NEW r \in Requests, Commit(r)
  PROVE  TypeOK'
BY PublishType DEF TypeOK, Commit, Goto, Steps

LEMMA GetNoteType ==
  ASSUME TypeOK, InFlightOK, NEW r \in Requests, GetNote(r)
  PROVE  TypeOK'
<1>1. tx[r].id \in NoteIDs
  BY DEF GetNote, InFlightOK, InFlight, Steps, HoldsConn
<1>2. NoteAt(tx[r].id) \in Note
  BY <1>1 DEF TypeOK, NoteAt, Note
<1>3. PICK a \in [code : Codes, note : Note] : Respond(r, a)
  BY <1>2, AnswerType, RefuseType DEF GetNote, Codes
<1>. QED  BY <1>3, RespondType DEF TypeOK, GetNote, db

LEMMA DeleteNoteType ==
  ASSUME TypeOK, NEW r \in Requests, DeleteNote(r)
  PROVE  TypeOK'
<1>1. CASE Visible(r, tx[r].id)
  <2>1. Erase(r) /\ Respond(r, Answer("ok", NoNote))
    BY <1>1 DEF DeleteNote
  <2>2. Answer("ok", NoNote) \in [code : Codes, note : Note]
    BY AnswerType, NoNoteType DEF Codes
  <2>. QED  BY <2>1, <2>2, EraseType, RespondType DEF TypeOK, DeleteNote
<1>2. CASE ~Visible(r, tx[r].id)
  <2>1. Respond(r, Refuse("not_found")) /\ UNCHANGED <<db, applied>>
    BY <1>2 DEF DeleteNote
  <2>. QED  BY <2>1, RespondType, RefuseType DEF TypeOK, DeleteNote, db, Codes
<1>. QED  BY <1>1, <1>2

LEMMA FailType ==
  ASSUME TypeOK, NEW r \in Requests, Fail(r)
  PROVE  TypeOK'
BY RespondType, RefuseType DEF TypeOK, Fail, db, Codes

LEMMA FailAfterEffectType ==
  ASSUME TypeOK, InFlightOK, NEW r \in Requests, FailAfterEffect(r)
  PROVE  TypeOK'
<1>1. /\ rows' \in [NoteIDs -> Row]
      /\ noteTags' \in [NoteIDs -> SUBSET Tags]
      /\ applied' \subseteq Requests
  BY PublishType, EraseType DEF FailAfterEffect
<1>2. /\ pc' \in [Requests -> Steps]
      /\ resp' \in [Requests -> [code : Codes, note : Note]]
  BY RespondType, RefuseType DEF FailAfterEffect, Codes
<1>. QED  BY <1>1, <1>2 DEF TypeOK, FailAfterEffect

LEMMA CrashType ==
  ASSUME TypeOK, Crash
  PROVE  TypeOK'
<1>1. resp' \in [Requests -> [code : Codes, note : Note]]
  <2>1. Refuse("unavailable") \in [code : Codes, note : Note]
    BY RefuseType DEF Codes
  <2>. QED  BY <2>1 DEF TypeOK, Crash
<1>2. pc' \in [Requests -> Steps]
  BY DEF TypeOK, Crash, Steps
<1>. QED  BY <1>1, <1>2 DEF TypeOK, Crash, db
-----------------------------------------------------------------------------
\* IInv regrouped: what it says of the tables, and what it says of one request.

TablesOK ==
  /\ \A n \in NoteIDs : Cardinality(noteTags[n]) <= MaxTags
  /\ \A n \in NoteIDs : rows[n].owner = 0 => rows[n] = NoRow /\ noteTags[n] = {}
  /\ \A n \in NoteIDs \ issued : NoteAt(n) = NoNote
  /\ \A n \in NoteIDs : rows[n].updated <= clock

FlightPart(r) == pc[r] \in InFlight =>
  /\ Admit(call[r]) = "ok"
  /\ call[r].op \in OpsAt(pc[r])
  /\ call[r].op # "create" => tx[r].id = call[r].note
  /\ pc[r] \in Wrote \cup {"reread"} => tx[r].id \in NoteIDs

WriterPart(r) == pc[r] \in Wrote =>
  /\ tx[r].id \in issued
  /\ tx[r].row.owner = call[r].user
  /\ tx[r].row.updated <= clock
  /\ call[r].op # "create" => tx[r].row.updated > rows[tx[r].id].updated
  /\ call[r].op = "create" => NoteAt(tx[r].id) = NoNote
  /\ \A s \in Requests \ {r} : ~Locks(s, tx[r].id)
  /\ call[r].op # "create" => Visible(r, tx[r].id)

TagsPart(r) ==
  /\ pc[r] \in InFlight \ {"tags", "commit", "reread"} => tx[r].del = {}
  /\ pc[r] \in InFlight /\ call[r].op \in {"create", "update"} =>
       Cardinality(tx[r].want) <= MaxTags
  /\ pc[r] \in {"tags", "commit"} =>
       Cardinality((noteTags[tx[r].id] \ tx[r].del) \cup tx[r].want) <= MaxTags
  /\ pc[r] = "commit" => tx[r].ins = tx[r].want

StartPart(r) == pc[r] = "insert" => tx[r].start <= clock

Local(r) ==
  /\ FlightPart(r) /\ WriterPart(r) /\ TagsPart(r) /\ StartPart(r)
  /\ r \in applied => pc[r] \in {"reread", "done"}

LEMMA Regroup == IInv <=> TypeOK /\ TablesOK /\ \A r \in Requests : Local(r)
<1>1. ASSUME TypeOK
      PROVE  InFlightOK /\ IdsOK /\ RowsOK /\ TagsOK /\ AppliedOK
               /\ TagLimit /\ WriterOwnsRow /\ TagsBelongToNotes
             <=> TablesOK /\ \A r \in Requests : Local(r)
  BY <1>1 DEF TypeOK, InFlightOK, IdsOK, RowsOK, TagsOK, AppliedOK, TagLimit,
     WriterOwnsRow, TagsBelongToNotes, TablesOK, Local, FlightPart, WriterPart, TagsPart, StartPart
<1>. QED  BY <1>1 DEF IInv

LEMMA RegroupNext ==
  ASSUME TypeOK', TablesOK', \A r \in Requests : Local(r)'
  PROVE  IInv'
BY DEF IInv, TypeOK, InFlightOK, IdsOK, RowsOK, TagsOK, AppliedOK, TagLimit,
   WriterOwnsRow, TagsBelongToNotes, TablesOK, Local, FlightPart, WriterPart, TagsPart,
   StartPart

LEMMA InitInv == Init => IInv
<1> SUFFICES ASSUME Init PROVE IInv
  OBVIOUS
<1>1. TypeOK
  BY InitType
<1>2. PICK s \in InitialStores :
        rows = s.rows /\ noteTags = s.tags /\ issued = {n \in NoteIDs : s.rows[n] # NoRow}
  BY DEF Init
<1>3. WellFormed(s)
  BY ServerAssumption
<1>4. \A r \in Requests : Local(r)
  BY DEF Init, Local, FlightPart, WriterPart, TagsPart, StartPart, InFlight, Wrote
<1>5. TablesOK
  <2>1. NoRow.owner = 0 /\ \A n \in NoteIDs \ issued : rows[n] = NoRow
    <3>1. \A n \in NoteIDs \ issued : rows[n] = NoRow
      BY <1>2
    <3>. QED  BY <3>1 DEF NoRow
  <2>2. \A n \in NoteIDs \ issued : NoteAt(n) = NoNote
    BY <1>2, <1>3, <2>1 DEF WellFormed, NoteAt, NoNote
  <2>3. clock = 0 /\ \A n \in NoteIDs : rows[n].updated <= 0
    BY <1>2, <1>3 DEF Init, WellFormed
  <2>4. \A n \in NoteIDs :
          /\ Cardinality(noteTags[n]) <= MaxTags
          /\ rows[n].owner = 0 => rows[n] = NoRow /\ noteTags[n] = {}
    BY <1>2, <1>3 DEF WellFormed
  <2>. QED  BY <2>2, <2>3, <2>4 DEF TablesOK
<1>. QED  BY <1>1, <1>4, <1>5, Regroup

\* A step that only moves one handler along, writing nothing: what the other
\* requests rely on stays, provided the handler locks no row that is locked.
LEMMA QuietStep ==
  ASSUME IInv, TypeOK', NEW r \in Requests,
         UNCHANGED <<db, call, applied>>, issued \subseteq issued', clock' >= clock,
         \A q \in Requests \ {r} : pc'[q] = pc[q] /\ tx'[q] = tx[q],
         Local(r)'
  PROVE  IInv'
<1>1. TypeOK /\ TablesOK /\ \A q \in Requests : Local(q)
  BY Regroup
<1>2. TablesOK'
  BY <1>1 DEF TablesOK, TypeOK, Row, db, NoteAt
<1>3. ASSUME NEW q \in Requests \ {r}
      PROVE  Local(q)'
  <2>1. FlightPart(q)' /\ TagsPart(q)'
    BY <1>1 DEF Local, FlightPart, TagsPart, db
  <2>2. ASSUME pc[q] \in Wrote, NEW s \in Requests \ {q}
        PROVE  ~Locks(s, tx[q].id)'
    <3>1. CASE s = r
      BY <2>2, <3>1 DEF Local, WriterPart, Locks
    <3>2. CASE s # r
      BY <1>1, <2>2, <3>2 DEF Local, WriterPart, Locks
    <3>. QED  BY <3>1, <3>2
  <2>3. ASSUME pc[q] \in Wrote
        PROVE  tx[q].row.updated <= clock'
    BY <1>1, <2>3 DEF Local, WriterPart, TypeOK, Tx, Row
  <2>4. WriterPart(q)'
    BY <1>1, <2>2, <2>3 DEF Local, WriterPart, db, Visible, NoteAt
  <2>5. StartPart(q)'
    BY <1>1 DEF Local, StartPart, TypeOK, Tx
  <2>. QED  BY <1>1, <2>1, <2>4, <2>5 DEF Local
<1>4. \A q \in Requests : Local(q)'
  BY <1>3
<1>. QED  BY <1>2, <1>4, RegroupNext
\* A step that makes r's effect on note n visible: nobody else has uncommitted
\* writes on n, and what becomes visible is itself in order.
LEMMA EffectStep ==
  ASSUME IInv, TypeOK', NEW r \in Requests, NEW n \in NoteIDs, n \in issued,
         UNCHANGED <<issued, clock, call>>, applied' = applied \cup {r},
         \A q \in Requests \ {r} : pc'[q] = pc[q] /\ tx'[q] = tx[q],
         pc'[r] \in {"reread", "done"}, Local(r)',
         \A q \in Requests \ {r} : ~Locks(q, n),
         \A m \in NoteIDs \ {n} : rows'[m] = rows[m] /\ noteTags'[m] = noteTags[m],
         Cardinality(noteTags'[n]) <= MaxTags,
         rows'[n].updated <= clock,
         rows'[n].owner = 0 => rows'[n] = NoRow /\ noteTags'[n] = {}
  PROVE  IInv'
<1>1. TypeOK /\ TablesOK /\ \A q \in Requests : Local(q)
  BY Regroup
<1>2. TablesOK'
  BY <1>1 DEF TablesOK, NoteAt
<1>3. ASSUME NEW q \in Requests \ {r}
      PROVE  Local(q)'
  <2>1. FlightPart(q)'
    BY <1>1 DEF Local, FlightPart
  <2>2. ASSUME pc[q] \in Wrote
        PROVE  tx[q].id \in NoteIDs \ {n}
    BY <1>1, <2>2 DEF Local, WriterPart, TypeOK, Locks
  <2>3. TagsPart(q)'
    BY <1>1, <2>2 DEF Local, TagsPart, Wrote
  <2>4. ASSUME pc[q] \in Wrote, NEW s \in Requests \ {q}
        PROVE  ~Locks(s, tx[q].id)'
    BY <1>1, <2>4 DEF Local, WriterPart, Locks, Wrote
  <2>5. WriterPart(q)'
    BY <1>1, <2>2, <2>4 DEF Local, WriterPart, Visible, NoteAt
  <2>. QED  BY <1>1, <2>1, <2>3, <2>5 DEF Local, StartPart
<1>4. \A q \in Requests : Local(q)'
  BY <1>3
<1>. QED  BY <1>2, <1>4, RegroupNext

LEMMA DoneLocal ==
  ASSUME NEW r \in Requests, pc'[r] = "done"
  PROVE  Local(r)'
BY DEF Local, FlightPart, WriterPart, TagsPart, StartPart, InFlight, Wrote

\* A request that is answered without an effect.
LEMMA RespondStep ==
  ASSUME IInv, TypeOK', NEW r \in Requests, NEW a, Respond(r, a),
         UNCHANGED <<db, issued, clock, call, tx, applied>>
  PROVE  IInv'
<1>1. TypeOK
  BY DEF IInv
<1>2. /\ pc'[r] = "done"
      /\ \A q \in Requests \ {r} : pc'[q] = pc[q] /\ tx'[q] = tx[q]
  BY <1>1 DEF TypeOK, Respond, Goto
<1>3. Local(r)'
  BY <1>2, DoneLocal
<1>4. clock' >= clock
  BY <1>1 DEF TypeOK
<1>. QED  BY <1>2, <1>3, <1>4, QuietStep

LEMMA ReceiveInv ==
  ASSUME IInv, NEW r \in Requests, Receive(r)
  PROVE  IInv'
<1>1. TypeOK /\ TypeOK'
  BY ReceiveType DEF IInv
<1>2. CASE Admit(call[r]) # "ok"
  <2>1. Respond(r, Refuse(Admit(call[r]))) /\ UNCHANGED <<db, issued, clock, call, tx, applied>>
    BY <1>2 DEF Receive
  <2>. QED  BY <1>1, <2>1, RespondStep
<1>3. CASE Admit(call[r]) = "ok"
  <2>1. /\ pc'[r] = CASE call[r].op = "get" -> "reread"
                      [] call[r].op = "add" -> "read"
                      [] OTHER -> "begin"
        /\ tx'[r] = NewTx(call[r])
        /\ \A q \in Requests \ {r} : pc'[q] = pc[q] /\ tx'[q] = tx[q]
        /\ UNCHANGED <<db, issued, clock, call, applied>>
    BY <1>1, <1>3 DEF Receive, Goto, TypeOK
  <2>2. call[r] \in Call /\ r \notin applied
    BY DEF IInv, TypeOK, AppliedOK, Receive
  <2>3. FlightPart(r)'
    BY <1>3, <2>1, <2>2, Admitted DEF FlightPart, NewTx, OpsAt, Wrote, Call, Ops
  <2>4. pc'[r] \notin Wrote /\ pc'[r] \notin {"tags", "commit"}
    BY <2>1 DEF Wrote
  <2>5. TagsPart(r)'
    BY <1>3, <2>1, <2>2, <2>4, Admitted DEF TagsPart, NewTx
  <2>6. Local(r)'
    BY <2>1, <2>2, <2>3, <2>4, <2>5 DEF Local, WriterPart, StartPart
  <2>7. clock' >= clock
    BY <1>1, <2>1 DEF TypeOK
  <2>. QED  BY <1>1, <2>1, <2>6, <2>7, QuietStep
<1>. QED  BY <1>2, <1>3

LEMMA ReadExistingInv ==
  ASSUME IInv, NEW r \in Requests, ReadExisting(r)
  PROVE  IInv'
<1> DEFINE n == tx[r].id
           merged == normalizeTags(noteTags[n] \cup call[r].tags)
<1>1. TypeOK /\ TypeOK' /\ Local(r)
  BY ReadExistingType, Regroup DEF IInv
<1>2. CASE ~Visible(r, n) \/ TooManyTags(merged)
  <2>1. PICK a : Respond(r, a) /\ UNCHANGED <<db, issued, clock, call, tx, applied>>
    BY <1>2 DEF ReadExisting
  <2>. QED  BY <1>1, <2>1, RespondStep
<1>3. CASE Visible(r, n) /\ ~TooManyTags(merged)
  <2>1. Goto(r, "begin") /\ tx' = [tx EXCEPT ![r].want = merged]
    BY <1>3 DEF ReadExisting
  <2>2. /\ pc'[r] = "begin" /\ tx'[r].id = n /\ tx'[r].del = tx[r].del
        /\ \A q \in Requests \ {r} : pc'[q] = pc[q] /\ tx'[q] = tx[q]
    BY <1>1, <2>1 DEF Goto, TypeOK, Tx
  <2>3. UNCHANGED <<db, issued, clock, call, applied>> /\ pc[r] = "read"
    BY DEF ReadExisting
  <2>4. pc[r] \in InFlight /\ call[r].op = "add" /\ r \notin applied
    BY <1>1, <2>3 DEF Local, FlightPart, InFlight, Steps, OpsAt
  <2>5. FlightPart(r)' /\ TagsPart(r)' /\ WriterPart(r)'
    BY <1>1, <2>2, <2>3, <2>4
       DEF Local, FlightPart, TagsPart, WriterPart, OpsAt, Wrote
  <2>6. Local(r)'
    BY <2>2, <2>3, <2>4, <2>5 DEF Local, StartPart
  <2>7. clock' >= clock
    BY <1>1, <2>3 DEF TypeOK
  <2>. QED  BY <1>1, <2>2, <2>3, <2>6, <2>7, QuietStep
<1>. QED  BY <1>2, <1>3
LEMMA BeginInv ==
  ASSUME IInv, NEW r \in Requests, Begin(r)
  PROVE  IInv'
<1>1. TypeOK /\ TypeOK' /\ Local(r)
  BY BeginType, Regroup DEF IInv
<1>2. /\ pc[r] = "begin" /\ pc[r] \in InFlight
      /\ call[r].op \in {"create", "add", "update", "delete"}
      /\ r \notin applied
  BY <1>1 DEF Begin, Local, FlightPart, InFlight, Steps, OpsAt
<1>3. /\ pc'[r] = CASE call[r].op = "create" -> "insert"
                    [] call[r].op = "add" -> "touch"
                    [] call[r].op = "update" -> "update"
                    [] call[r].op = "delete" -> "delete"
      /\ tx'[r].id = tx[r].id /\ tx'[r].del = tx[r].del /\ tx'[r].want = tx[r].want
      /\ \A q \in Requests \ {r} : pc'[q] = pc[q] /\ tx'[q] = tx[q]
      /\ UNCHANGED <<db, issued, call, applied>>
  BY <1>1 DEF Begin, Goto, TypeOK, Tx
<1>4. pc'[r] \notin Wrote /\ pc'[r] \notin {"tags", "commit", "reread"}
  BY <1>2, <1>3 DEF Wrote
<1>5. FlightPart(r)'
  BY <1>1, <1>2, <1>3, <1>4 DEF Local, FlightPart, OpsAt
<1>6. TagsPart(r)' /\ WriterPart(r)'
  BY <1>1, <1>2, <1>3, <1>4 DEF Local, TagsPart, WriterPart
<1>7. Local(r)'
  <2>1. tx'[r].start = clock' /\ clock' \in Nat
    BY <1>1 DEF Begin, TypeOK, Tx
  <2>. QED  BY <1>2, <1>3, <1>5, <1>6, <2>1 DEF Local, StartPart
<1>8. clock' >= clock
  BY <1>1 DEF TypeOK, Begin
<1>. QED  BY <1>1, <1>3, <1>7, <1>8, QuietStep

LEMMA InsertNoteInv ==
  ASSUME IInv, NEW r \in Requests, InsertNote(r)
  PROVE  IInv'
<1>1. TypeOK /\ TypeOK' /\ TablesOK /\ \A q \in Requests : Local(q)
  BY InsertNoteType, Regroup DEF IInv
<1>2. PICK n \in NoteIDs \ issued :
        /\ issued' = issued \cup {n}
        /\ tx' = [tx EXCEPT ![r].id = n, ![r].row =
                    [owner |-> call[r].user, body |-> call[r].body,
                     status |-> normalizeStatus(call[r].status),
                     created |-> tx[r].start, updated |-> tx[r].start]]
  BY DEF InsertNote
<1>3. /\ pc[r] = "insert" /\ pc[r] \in InFlight /\ call[r].op = "create"
      /\ r \notin applied
  BY <1>1 DEF InsertNote, Local, FlightPart, InFlight, Steps, HoldsConn, OpsAt
<1>4. /\ pc'[r] = "tags" /\ tx'[r].id = n
      /\ tx'[r].row.owner = call[r].user /\ tx'[r].row.updated = tx[r].start
      /\ tx'[r].want = tx[r].want /\ tx'[r].del = tx[r].del
      /\ \A q \in Requests \ {r} : pc'[q] = pc[q] /\ tx'[q] = tx[q]
      /\ UNCHANGED <<db, clock, call, applied>>
  BY <1>1, <1>2 DEF InsertNote, Goto, TypeOK, Tx
<1>5. tx[r].start <= clock
  BY <1>1, <1>3 DEF Local, StartPart
<1>6. NoteAt(n) = NoNote /\ noteTags[n] = {}
  BY <1>1 DEF TablesOK, NoteAt, NoNote
<1>7. \A s \in Requests \ {r} : ~Locks(s, n)'
  <2>1. ASSUME NEW s \in Requests \ {r}, Locks(s, n)'
        PROVE  FALSE
    <3>1. pc[s] \in Wrote /\ tx[s].id = n
      BY <1>4, <2>1 DEF Locks
    <3>2. tx[s].id \in issued
      BY <1>1, <3>1 DEF Local, WriterPart
    <3>. QED  BY <3>1, <3>2
  <2>. QED  BY <2>1
<1>8. FlightPart(r)'
  BY <1>1, <1>3, <1>4 DEF Local, FlightPart, OpsAt
<1>9. WriterPart(r)'
  <2>1. n \in issued'
    BY <1>2
  <2>2. NoteAt(n)' = NoNote
    BY <1>4, <1>6 DEF NoteAt, db
  <2>. QED  BY <1>3, <1>4, <1>5, <1>7, <2>1, <2>2 DEF WriterPart
<1>10. TagsPart(r)'
  <2>1. tx[r].del = {} /\ Cardinality(tx[r].want) <= MaxTags
    BY <1>1, <1>3 DEF Local, TagsPart
  <2>2. (noteTags'[n] \ tx'[r].del) \cup tx'[r].want = tx[r].want
    BY <1>4, <1>6, <2>1 DEF db
  <2>. QED  BY <1>3, <1>4, <2>1, <2>2 DEF TagsPart, InFlight
<1>11. Local(r)'
  BY <1>3, <1>4, <1>8, <1>9, <1>10 DEF Local, StartPart
<1>12. clock' >= clock /\ issued \subseteq issued'
  BY <1>1, <1>2, <1>4 DEF TypeOK
<1>. QED  BY <1>1, <1>4, <1>11, <1>12, QuietStep
\* The row statements of AddTags and UpdateNote.
LEMMA WriteRowInv ==
  ASSUME IInv, TypeOK', NEW r \in Requests, NEW from, NEW to, NEW row,
         WriteRow(r, from, to, row),
         \/ from = "touch" /\ to = "count"
         \/ from = "update" /\ to = "clear",
         row.owner = rows[tx[r].id].owner, row.updated = clock + 1
  PROVE  IInv'
<1>1. TypeOK /\ TablesOK /\ \A q \in Requests : Local(q)
  BY Regroup
<1>2. /\ pc[r] = from /\ pc[r] \in InFlight /\ call[r].op # "create"
      /\ from = "touch" => call[r].op = "add"
      /\ from = "update" => call[r].op = "update"
      /\ r \notin applied
  BY <1>1 DEF WriteRow, Local, FlightPart, InFlight, Steps, HoldsConn, OpsAt
<1>3. CASE ~Visible(r, tx[r].id)
  <2>1. PICK a : Respond(r, a) /\ UNCHANGED <<db, issued, clock, call, tx, applied>>
    BY <1>3 DEF WriteRow
  <2>. QED  BY <2>1, RespondStep
<1>4. CASE Visible(r, tx[r].id)
  <2>1. /\ clock' = clock + 1 /\ pc'[r] = to
        /\ tx'[r].row = row /\ tx'[r].id = tx[r].id
        /\ tx'[r].del = tx[r].del /\ tx'[r].want = tx[r].want
        /\ \A q \in Requests \ {r} : pc'[q] = pc[q] /\ tx'[q] = tx[q]
        /\ UNCHANGED <<db, issued, call, applied>>
    BY <1>1, <1>4 DEF WriteRow, Goto, TypeOK, Tx
  <2>2. /\ tx[r].id \in NoteIDs /\ call[r].user \in Owners
        /\ Admit(call[r]) = "ok" /\ tx[r].id = call[r].note
    BY <1>1, <1>2, Admitted DEF Local, FlightPart, TypeOK
  <2>3. tx[r].id \in issued
    <3>1. call[r].user # 0
      BY <2>2, OwnerType
    <3>2. rows[tx[r].id].owner # 0
      BY <1>4, <3>1 DEF Visible
    <3>3. ASSUME tx[r].id \notin issued
          PROVE  rows[tx[r].id] = NoRow
      BY <1>1, <2>2, <3>3 DEF TablesOK, NoteAt, NoNote
    <3>4. NoRow.owner = 0
      BY DEF NoRow
    <3>. QED  BY <3>2, <3>3, <3>4
  <2>4. \A s \in Requests \ {r} : ~Locks(s, tx[r].id)'
    <3>1. RowFree(tx[r].id)
      BY DEF WriteRow
    <3>. QED  BY <2>1, <3>1 DEF RowFree, Locks
  <2>5. rows[tx[r].id].updated <= clock /\ rows[tx[r].id].updated \in Nat /\ clock \in Nat
    BY <1>1, <2>2 DEF TablesOK, TypeOK, Row
  <2>6. WriterPart(r)'
    <3>1. row.owner = call[r].user
      BY <1>4 DEF Visible
    <3>2. row.updated <= clock' /\ row.updated > rows[tx[r].id].updated
      BY <2>1, <2>5
    <3>3. Visible(r, tx[r].id)'
      BY <1>4, <2>1 DEF Visible, db
    <3>. QED  BY <1>2, <2>1, <2>3, <2>4, <3>1, <3>2, <3>3 DEF WriterPart, db
  <2>7. FlightPart(r)'
    BY <1>2, <2>1, <2>2 DEF FlightPart, OpsAt
  <2>8. TagsPart(r)'
    BY <1>1, <1>2, <2>1 DEF Local, TagsPart, InFlight
  <2>9. Local(r)'
    BY <1>2, <2>1, <2>6, <2>7, <2>8 DEF Local, StartPart
  <2>. QED  BY <2>1, <2>5, <2>9, QuietStep
<1>. QED  BY <1>3, <1>4

LEMMA TouchNoteInv ==
  ASSUME IInv, NEW r \in Requests, TouchNote(r)
  PROVE  IInv'
<1> DEFINE row == [rows[tx[r].id] EXCEPT !.updated = clock + 1]
<1>1. TypeOK /\ TypeOK' /\ tx[r].id \in NoteIDs
  BY TouchNoteType, KnownId
     DEF IInv, TouchNote, WriteRow, InFlightOK, InFlight, Steps, HoldsConn, OpsAt
<1>2. row.owner = rows[tx[r].id].owner /\ row.updated = clock + 1
  BY <1>1 DEF TypeOK, Row
<1>. QED  BY <1>1, <1>2, WriteRowInv DEF TouchNote

LEMMA UpdateNoteInv ==
  ASSUME IInv, NEW r \in Requests, UpdateNote(r)
  PROVE  IInv'
<1> DEFINE row == [rows[tx[r].id] EXCEPT !.body = call[r].body,
                     !.status = normalizeStatus(call[r].status),
                     !.updated = clock + 1]
<1>1. TypeOK /\ TypeOK' /\ tx[r].id \in NoteIDs
  BY UpdateNoteType, KnownId
     DEF IInv, UpdateNote, WriteRow, InFlightOK, InFlight, Steps, HoldsConn, OpsAt
<1>2. row.owner = rows[tx[r].id].owner /\ row.updated = clock + 1
  BY <1>1 DEF TypeOK, Row
<1>. QED  BY <1>1, <1>2, WriteRowInv DEF UpdateNote

\* The count AddTags makes under the row lock is what bounds its commit.
LEMMA CountTagsInv ==
  ASSUME IInv, NEW r \in Requests, CountTags(r)
  PROVE  IInv'
<1> DEFINE all == noteTags[tx[r].id] \cup tx[r].want
<1>1. TypeOK /\ TypeOK' /\ \A q \in Requests : Local(q)
  BY CountTagsType, Regroup DEF IInv
<1>2. CASE TooManyTags(all)
  <2>1. PICK a : Respond(r, a) /\ UNCHANGED <<db, issued, clock, call, tx, applied>>
    BY <1>2 DEF CountTags
  <2>. QED  BY <1>1, <2>1, RespondStep
<1>3. CASE ~TooManyTags(all)
  <2>1. /\ pc'[r] = "tags"
        /\ \A q \in Requests \ {r} : pc'[q] = pc[q]
        /\ UNCHANGED <<db, issued, clock, call, tx, applied>>
    BY <1>1, <1>3 DEF CountTags, Goto, TypeOK
  <2>2. /\ pc[r] = "count" /\ pc[r] \in InFlight /\ pc[r] \in Wrote
        /\ call[r].op = "add" /\ r \notin applied /\ tx[r].del = {}
        /\ tx[r].id \in NoteIDs
    BY <1>1 DEF CountTags, Local, FlightPart, TagsPart, InFlight, Steps, HoldsConn,
                Wrote, OpsAt
  <2>3. Cardinality(all) <= MaxTags
    <3>1. all \in SUBSET Tags
      BY <1>1, <2>2 DEF TypeOK, Tx
    <3>2. Cardinality(all) \in Nat
      BY <3>1, TagSets
    <3>. QED  BY <1>3, <3>2, MaxTagsType DEF TooManyTags
  <2>4. (noteTags[tx[r].id] \ tx[r].del) \cup tx[r].want = all
    BY <2>2
  <2>5. TagsPart(r)'
    BY <2>1, <2>2, <2>3, <2>4 DEF TagsPart, db
  <2>6. FlightPart(r)'
    BY <1>1, <2>1, <2>2 DEF Local, FlightPart, OpsAt
  <2>7. WriterPart(r)'
    BY <1>1, <2>1, <2>2 DEF Local, WriterPart, Locks, Visible, NoteAt, db
  <2>8. Local(r)'
    BY <2>1, <2>2, <2>5, <2>6, <2>7 DEF Local, StartPart
  <2>9. clock' >= clock
    BY <1>1, <2>1 DEF TypeOK
  <2>. QED  BY <1>1, <2>1, <2>8, <2>9, QuietStep
<1>. QED  BY <1>2, <1>3

LEMMA ClearTagsInv ==
  ASSUME IInv, NEW r \in Requests, ClearTags(r)
  PROVE  IInv'
<1>1. TypeOK /\ TypeOK' /\ \A q \in Requests : Local(q)
  BY ClearTagsType, Regroup DEF IInv
<1>2. /\ pc[r] = "clear" /\ pc[r] \in InFlight /\ pc[r] \in Wrote
      /\ call[r].op = "update" /\ r \notin applied
      /\ Cardinality(tx[r].want) <= MaxTags
  BY <1>1 DEF ClearTags, Local, FlightPart, TagsPart, InFlight, Steps, HoldsConn,
              Wrote, OpsAt
<1>3. /\ pc'[r] = "tags"
      /\ tx'[r].id = tx[r].id /\ tx'[r].row = tx[r].row
      /\ tx'[r].want = tx[r].want /\ tx'[r].del = noteTags[tx[r].id]
      /\ \A q \in Requests \ {r} : pc'[q] = pc[q] /\ tx'[q] = tx[q]
      /\ UNCHANGED <<db, issued, clock, call, applied>>
  BY <1>1 DEF ClearTags, Goto, TypeOK, Tx
<1>4. TagsPart(r)'
  <2>1. (noteTags'[tx'[r].id] \ tx'[r].del) \cup tx'[r].want = tx[r].want
    BY <1>3 DEF db
  <2>. QED  BY <1>2, <1>3, <2>1 DEF TagsPart
<1>5. FlightPart(r)'
  BY <1>1, <1>2, <1>3 DEF Local, FlightPart, OpsAt
<1>6. WriterPart(r)'
  BY <1>1, <1>2, <1>3 DEF Local, WriterPart, Locks, Visible, NoteAt, db
<1>7. Local(r)'
  BY <1>2, <1>3, <1>4, <1>5, <1>6 DEF Local, StartPart
<1>8. clock' >= clock
  BY <1>1, <1>3 DEF TypeOK
<1>. QED  BY <1>1, <1>3, <1>7, <1>8, QuietStep

LEMMA InsertTagsInv ==
  ASSUME IInv, NEW r \in Requests, InsertTags(r)
  PROVE  IInv'
<1>1. TypeOK /\ TypeOK' /\ \A q \in Requests : Local(q)
  BY InsertTagsType, Regroup DEF IInv
<1>2. /\ pc[r] = "tags" /\ pc[r] \in InFlight /\ pc[r] \in Wrote
      /\ call[r].op \in {"create", "add", "update"} /\ r \notin applied
  BY <1>1 DEF InsertTags, Local, FlightPart, InFlight, Steps, HoldsConn, Wrote, OpsAt
<1>3. /\ pc'[r] = "commit"
      /\ tx'[r].id = tx[r].id /\ tx'[r].row = tx[r].row
      /\ tx'[r].want = tx[r].want /\ tx'[r].del = tx[r].del /\ tx'[r].ins = tx[r].want
      /\ \A q \in Requests \ {r} : pc'[q] = pc[q] /\ tx'[q] = tx[q]
      /\ UNCHANGED <<db, issued, clock, call, applied>>
  BY <1>1 DEF InsertTags, Goto, TypeOK, Tx
<1>4. TagsPart(r)'
  BY <1>1, <1>2, <1>3 DEF Local, TagsPart, db
<1>5. FlightPart(r)'
  BY <1>1, <1>2, <1>3 DEF Local, FlightPart, OpsAt, Wrote
<1>6. WriterPart(r)'
  BY <1>1, <1>2, <1>3 DEF Local, WriterPart, Locks, Visible, NoteAt, db
<1>7. Local(r)'
  BY <1>2, <1>3, <1>4, <1>5, <1>6 DEF Local, StartPart
<1>8. clock' >= clock
  BY <1>1, <1>3 DEF TypeOK
<1>. QED  BY <1>1, <1>3, <1>7, <1>8, QuietStep
\* What COMMIT publishes is in order: the count made, or the tags cleared, under
\* the row lock still describe the note.
LEMMA PublishInv ==
  ASSUME IInv, TypeOK', NEW r \in Requests, pc[r] = "commit", Publish(r),
         pc'[r] \in {"reread", "done"},
         \A q \in Requests \ {r} : pc'[q] = pc[q],
         UNCHANGED <<issued, clock, call, tx>>
  PROVE  IInv'
<1> DEFINE n == tx[r].id
<1>1. TypeOK /\ TablesOK /\ \A q \in Requests : Local(q)
  BY Regroup
<1>2. /\ pc[r] \in InFlight /\ pc[r] \in Wrote /\ Admit(call[r]) = "ok"
      /\ call[r].op \in {"create", "add", "update"}
      /\ call[r].op # "create" => tx[r].id = call[r].note
      /\ n \in NoteIDs /\ n \in issued
      /\ tx[r].row.owner = call[r].user /\ tx[r].row.updated <= clock
      /\ \A q \in Requests \ {r} : ~Locks(q, n)
  BY <1>1 DEF Local, FlightPart, WriterPart, InFlight, Steps, HoldsConn, Wrote, OpsAt
<1>3. /\ rows'[n] = tx[r].row
      /\ noteTags'[n] = (noteTags[n] \ tx[r].del) \cup tx[r].ins
      /\ \A m \in NoteIDs \ {n} : rows'[m] = rows[m] /\ noteTags'[m] = noteTags[m]
      /\ applied' = applied \cup {r}
  BY <1>1, <1>2 DEF Publish, TypeOK
<1>4. Cardinality(noteTags'[n]) <= MaxTags
  BY <1>1, <1>3 DEF Local, TagsPart
<1>5. rows'[n].owner # 0
  BY <1>1, <1>2, <1>3, Admitted, OwnerType DEF TypeOK
<1>6. Local(r)'
  <2>1. call'[r].op \in OpsAt("reread")
    BY <1>2 DEF OpsAt
  <2>2. FlightPart(r)'
    BY <1>2, <2>1 DEF FlightPart, InFlight
  <2>3. WriterPart(r)' /\ StartPart(r)'
    BY DEF WriterPart, StartPart, Wrote
  <2>4. TagsPart(r)'
    BY <1>1, <1>2 DEF Local, TagsPart, InFlight
  <2>. QED  BY <2>2, <2>3, <2>4 DEF Local
<1>. QED  BY <1>1, <1>2, <1>3, <1>4, <1>5, <1>6, EffectStep

LEMMA CommitInv ==
  ASSUME IInv, NEW r \in Requests, Commit(r)
  PROVE  IInv'
<1>1. TypeOK /\ TypeOK'
  BY CommitType DEF IInv
<1>2. /\ pc[r] = "commit" /\ Publish(r) /\ pc'[r] = "reread"
      /\ \A q \in Requests \ {r} : pc'[q] = pc[q]
      /\ UNCHANGED <<issued, clock, call, tx>>
  BY <1>1 DEF Commit, Goto, TypeOK
<1>. QED  BY <1>1, <1>2, PublishInv

LEMMA GetNoteInv ==
  ASSUME IInv, NEW r \in Requests, GetNote(r)
  PROVE  IInv'
<1>1. TypeOK'
  BY GetNoteType DEF IInv
<1>2. PICK a : Respond(r, a) /\ UNCHANGED <<db, issued, clock, call, tx, applied>>
  BY DEF GetNote
<1>. QED  BY <1>1, <1>2, RespondStep

\* Deleting a note that no transaction has locked.
LEMMA EraseInv ==
  ASSUME IInv, TypeOK', NEW r \in Requests, pc[r] = "delete", RowFree(tx[r].id),
         Visible(r, tx[r].id), Erase(r), pc'[r] = "done",
         \A q \in Requests \ {r} : pc'[q] = pc[q],
         UNCHANGED <<issued, clock, call, tx>>
  PROVE  IInv'
<1> DEFINE n == tx[r].id
<1>1. TypeOK /\ TablesOK /\ \A q \in Requests : Local(q)
  BY Regroup
<1>2. pc[r] \in InFlight /\ call[r].op = "delete" /\ Admit(call[r]) = "ok"
  BY <1>1 DEF Local, FlightPart, InFlight, Steps, HoldsConn, OpsAt
<1>3. n \in NoteIDs /\ call[r].user # 0
  BY <1>1, <1>2, Admitted, OwnerType DEF Local, FlightPart, TypeOK
<1>4. n \in issued
  <2>1. ASSUME n \notin issued
        PROVE  rows[n] = NoRow
    BY <1>1, <1>3, <2>1 DEF TablesOK, NoteAt, NoNote
  <2>2. NoRow.owner = 0
    BY DEF NoRow
  <2>. QED  BY <1>3, <2>1, <2>2 DEF Visible
<1>5. /\ rows'[n] = NoRow /\ noteTags'[n] = {}
      /\ \A m \in NoteIDs \ {n} : rows'[m] = rows[m] /\ noteTags'[m] = noteTags[m]
      /\ applied' = applied \cup {r}
  BY <1>1, <1>3 DEF Erase, TypeOK
<1>6. Cardinality(noteTags'[n]) <= MaxTags
  BY <1>5, TagSets, MaxTagsType
<1>7. rows'[n].updated <= clock
  <2>1. NoRow.updated = 0 /\ clock \in Nat
    BY <1>1 DEF NoRow, TypeOK
  <2>. QED  BY <1>5, <2>1
<1>8. \A q \in Requests \ {r} : ~Locks(q, n)
  BY DEF RowFree
<1>9. Local(r)'
  BY DoneLocal
<1>. QED  BY <1>3, <1>4, <1>5, <1>6, <1>7, <1>8, <1>9, EffectStep

LEMMA DeleteNoteInv ==
  ASSUME IInv, NEW r \in Requests, DeleteNote(r)
  PROVE  IInv'
<1>1. TypeOK /\ TypeOK'
  BY DeleteNoteType DEF IInv
<1>2. CASE Visible(r, tx[r].id)
  <2>1. /\ pc[r] = "delete" /\ RowFree(tx[r].id) /\ Erase(r) /\ pc'[r] = "done"
        /\ \A q \in Requests \ {r} : pc'[q] = pc[q]
        /\ UNCHANGED <<issued, clock, call, tx>>
    BY <1>1, <1>2 DEF DeleteNote, Respond, Goto, TypeOK
  <2>. QED  BY <1>1, <1>2, <2>1, EraseInv
<1>3. CASE ~Visible(r, tx[r].id)
  <2>1. PICK a : Respond(r, a) /\ UNCHANGED <<db, issued, clock, call, tx, applied>>
    BY <1>3 DEF DeleteNote
  <2>. QED  BY <1>1, <2>1, RespondStep
<1>. QED  BY <1>2, <1>3

LEMMA FailInv ==
  ASSUME IInv, NEW r \in Requests, Fail(r)
  PROVE  IInv'
<1>1. TypeOK'
  BY FailType DEF IInv
<1>. QED  BY <1>1, RespondStep DEF Fail

LEMMA FailAfterEffectInv ==
  ASSUME IInv, NEW r \in Requests, FailAfterEffect(r)
  PROVE  IInv'
<1>1. TypeOK /\ TypeOK'
  BY FailAfterEffectType DEF IInv
<1>2. /\ pc'[r] = "done"
      /\ \A q \in Requests \ {r} : pc'[q] = pc[q]
      /\ UNCHANGED <<issued, clock, call, tx>>
  BY <1>1 DEF FailAfterEffect, Respond, Goto, TypeOK
<1>3. CASE pc[r] = "commit" /\ Publish(r)
  BY <1>1, <1>2, <1>3, PublishInv
<1>4. CASE pc[r] = "delete" /\ RowFree(tx[r].id) /\ Visible(r, tx[r].id) /\ Erase(r)
  BY <1>1, <1>2, <1>4, EraseInv
<1>. QED  BY <1>3, <1>4 DEF FailAfterEffect

\* A crash ends every request in flight; the tables keep what was committed.
LEMMA CrashInv ==
  ASSUME IInv, Crash
  PROVE  IInv'
<1>1. TypeOK /\ TypeOK' /\ TablesOK /\ \A q \in Requests : Local(q)
  BY CrashType, Regroup DEF IInv
<1>2. /\ UNCHANGED <<rows, noteTags, issued, clock, call, tx, applied>>
      /\ \A q \in Requests : pc'[q] \in {"done", pc[q]} /\ pc'[q] \notin InFlight
  BY <1>1 DEF Crash, db, TypeOK, InFlight
<1>3. TablesOK'
  BY <1>1, <1>2 DEF TablesOK, NoteAt
<1>4. \A q \in Requests : Local(q)'
  BY <1>1, <1>2 DEF Local, FlightPart, WriterPart, TagsPart, StartPart, InFlight, Steps,
     HoldsConn, Wrote
<1>. QED  BY <1>1, <1>3, <1>4, RegroupNext

-----------------------------------------------------------------------------
\* IInv is inductive.
LEMMA NextInv == IInv /\ [Next]_vars => IInv'
<1> SUFFICES ASSUME IInv, [Next]_vars PROVE IInv'
  OBVIOUS
<1>1. ASSUME NEW r \in Requests, Receive(r) PROVE IInv'
  BY <1>1, ReceiveInv
<1>2. ASSUME NEW r \in Requests, Handle(r) PROVE IInv'
  BY <1>2, ReadExistingInv, BeginInv, InsertNoteInv, TouchNoteInv, UpdateNoteInv,
     CountTagsInv, ClearTagsInv, InsertTagsInv, CommitInv, GetNoteInv, DeleteNoteInv
     DEF Handle
<1>3. ASSUME NEW r \in Requests, Fail(r) \/ FailAfterEffect(r) PROVE IInv'
  BY <1>3, FailInv, FailAfterEffectInv
<1>4. CASE Crash
  BY <1>4, CrashInv
<1>5. CASE UNCHANGED vars
  BY <1>5 DEF vars, IInv, TypeOK, InFlightOK, IdsOK, RowsOK, TagsOK, AppliedOK, TagLimit,
     WriterOwnsRow, TagsBelongToNotes, NoteAt, Locks, Visible
<1>. QED  BY <1>1, <1>2, <1>3, <1>4, <1>5 DEF Next, Terminating

THEOREM InvariantHolds == Spec => []IInv
BY InitInv, NextInv, PTL DEF Spec

\* Every reachable state is type correct, and a request in flight is admitted.
THEOREM TypeCorrect == Spec => []TypeOK
<1>1. IInv => TypeOK
  BY DEF IInv
<1>. QED  BY <1>1, InvariantHolds, PTL

\* No committed note has more than MaxTags tags, however calls overlap, fail and
\* crash (storage_postgres.go AddTags: lock, count, insert, commit).
THEOREM TagLimitHolds == Spec => []TagLimit
<1>1. IInv => TagLimit
  BY DEF IInv
<1>. QED  BY <1>1, InvariantHolds, PTL

\* Writers exclude each other per note, and never write to a note that is gone.
THEOREM WritersExclude == Spec => []WriterOwnsRow
<1>1. IInv => WriterOwnsRow
  BY DEF IInv
<1>. QED  BY <1>1, InvariantHolds, PTL

\* Deleted notes leave no tags, and no overlapping write brings them back.
THEOREM NoOrphans == Spec => []TagsBelongToNotes
<1>1. IInv => TagsBelongToNotes
  BY DEF IInv
<1>. QED  BY <1>1, InvariantHolds, PTL
-----------------------------------------------------------------------------
\* A note changes only by a commit or a delete of a request that was admitted
\* and had no effect before.
LEMMA EffectCases ==
  ASSUME IInv, [Next]_vars, NEW n \in NoteIDs, NoteAt(n)' # NoteAt(n)
  PROVE  \E r \in Requests :
           /\ r \in applied' \ applied
           /\ pc[r] \in InFlight /\ call[r].op # "get" /\ tx[r].id = n
           /\ \/ pc[r] \in Wrote /\ rows'[n] = tx[r].row
              \/ Visible(r, n) /\ rows'[n] = NoRow
<1>1. TypeOK /\ \A q \in Requests : Local(q)
  BY Regroup
<1>2. ~UNCHANGED db
  BY DEF db, NoteAt
<1>3. PICK r \in Requests :
        \/ pc[r] = "commit" /\ Publish(r)
        \/ pc[r] = "delete" /\ Visible(r, tx[r].id) /\ Erase(r)
  <2>1. ASSUME NEW r \in Requests,
               \/ Receive(r) \/ ReadExisting(r) \/ Begin(r) \/ InsertNote(r)
               \/ TouchNote(r) \/ UpdateNote(r) \/ CountTags(r) \/ ClearTags(r)
               \/ InsertTags(r) \/ GetNote(r) \/ Fail(r)
        PROVE  UNCHANGED db
    BY <2>1 DEF Receive, ReadExisting, Begin, InsertNote, TouchNote, UpdateNote,
       WriteRow, CountTags, ClearTags, InsertTags, GetNote, Fail
  <2>2. ~(Crash \/ Terminating \/ UNCHANGED vars)
    BY <1>2 DEF Crash, Terminating, vars, db
  <2>3. PICK r \in Requests : Commit(r) \/ DeleteNote(r) \/ FailAfterEffect(r)
    BY <1>2, <2>1, <2>2 DEF Next, Handle
  <2>4. DeleteNote(r) => pc[r] = "delete" /\ Visible(r, tx[r].id) /\ Erase(r)
    BY <1>2 DEF DeleteNote
  <2>. QED  BY <2>3, <2>4 DEF Commit, FailAfterEffect
<1>4. pc[r] \in InFlight /\ call[r].op # "get" /\ r \notin applied
  BY <1>1, <1>3 DEF Local, FlightPart, InFlight, Steps, HoldsConn, OpsAt
<1>5. r \in applied'
  BY <1>3 DEF Publish, Erase
<1>6. tx[r].id = n
  BY <1>1, <1>3 DEF Publish, Erase, NoteAt, TypeOK
<1>7. \/ pc[r] \in Wrote /\ rows'[n] = tx[r].row
      \/ Visible(r, n) /\ rows'[n] = NoRow
  BY <1>1, <1>3, <1>6 DEF Publish, Erase, TypeOK, Wrote
<1>. QED  BY <1>4, <1>5, <1>6, <1>7

\* Owner isolation: whatever runs, a note is changed only by requests of its
\* owner that carry a write scope, and by each of them at most once.
THEOREM OwnerIsolation == Spec => OnlyOwnerWrites
<1>1. ASSUME IInv, [Next]_vars, NEW n \in NoteIDs, NoteAt(n)' # NoteAt(n)
      PROVE  \E r \in applied' \ applied :
               /\ rows[n].owner \in {0, call[r].user}
               /\ rows'[n].owner \in {0, call[r].user}
               /\ call[r].user # 0
               /\ {"notes:write", "notes:admin"} \cap call[r].scopes # {}
  <2>1. TypeOK /\ \A q \in Requests : Local(q)
    BY <1>1, Regroup
  <2>2. PICK r \in Requests :
          /\ r \in applied' \ applied
          /\ pc[r] \in InFlight /\ call[r].op # "get" /\ tx[r].id = n
          /\ \/ pc[r] \in Wrote /\ rows'[n] = tx[r].row
             \/ Visible(r, n) /\ rows'[n] = NoRow
    BY <1>1, EffectCases
  <2>3. Admit(call[r]) = "ok" /\ call[r] \in Call
    BY <2>1, <2>2 DEF Local, FlightPart, TypeOK
  <2>4. call[r].user # 0 /\ HasScope(call[r], RequiredScope(call[r].op))
    BY <2>3, Admitted, OwnerType
  <2>5. {"notes:write", "notes:admin"} \cap call[r].scopes # {}
    BY <2>2, <2>4 DEF HasScope, RequiredScope
  <2>6. NoRow.owner = 0 /\ NoNote.row = NoRow
    BY DEF NoRow, NoNote
  <2>7. CASE pc[r] \in Wrote /\ rows'[n] = tx[r].row
    <3>1. tx[r].row.owner = call[r].user
      BY <2>1, <2>7 DEF Local, WriterPart
    <3>2. CASE call[r].op = "create"
      <4>1. rows[n] = NoRow
        BY <2>1, <2>2, <2>6, <2>7, <3>2 DEF Local, WriterPart, NoteAt
      <4>. QED  BY <2>2, <2>4, <2>5, <2>6, <2>7, <3>1, <4>1
    <3>3. CASE call[r].op # "create"
      <4>1. rows[n].owner = call[r].user
        BY <2>1, <2>2, <2>7, <3>3 DEF Local, WriterPart, Visible
      <4>. QED  BY <2>2, <2>4, <2>5, <2>7, <3>1, <4>1
    <3>. QED  BY <3>2, <3>3
  <2>8. CASE Visible(r, n) /\ rows'[n] = NoRow
    BY <2>2, <2>4, <2>5, <2>6, <2>8 DEF Visible
  <2>. QED  BY <2>2, <2>7, <2>8
<1>2. IInv /\ [Next]_vars =>
        [\A n \in NoteIDs : NoteAt(n)' # NoteAt(n) =>
           \E r \in applied' \ applied :
             /\ rows[n].owner \in {0, call[r].user}
             /\ rows'[n].owner \in {0, call[r].user}
             /\ call[r].user # 0
             /\ {"notes:write", "notes:admin"} \cap call[r].scopes # {}]_vars
  BY <1>1
<1>. QED  BY <1>2, InvariantHolds, PTL DEF Spec, OnlyOwnerWrites

\* A note's updated_at grows with every write that is committed to it, so that
\* the newest write is the one listRecentNotesSQL lists first.
THEOREM StampsAdvance == Spec => UpdatedAtAdvances
<1>1. ASSUME IInv, [Next]_vars, NEW n \in NoteIDs, NoteAt(n)' # NoteAt(n),
             rows[n] # NoRow, rows'[n] # NoRow
      PROVE  rows'[n].updated > rows[n].updated
  <2>1. PICK r \in Requests :
          /\ pc[r] \in Wrote /\ tx[r].id = n /\ rows'[n] = tx[r].row
    BY <1>1, EffectCases
  <2>2. WriterPart(r)
    BY <1>1, Regroup DEF Local
  <2>3. call[r].op # "create"
    BY <1>1, <2>1, <2>2 DEF WriterPart, NoteAt, NoNote
  <2>. QED  BY <2>1, <2>2, <2>3 DEF WriterPart
<1>2. IInv /\ [Next]_vars =>
        [\A n \in NoteIDs :
           rows[n] # NoRow /\ rows'[n] # NoRow /\ NoteAt(n)' # NoteAt(n) =>
             rows'[n].updated > rows[n].updated]_vars
  BY <1>1
<1>. QED  BY <1>2, InvariantHolds, PTL DEF Spec, UpdatedAtAdvances
=============================================================================
