----------------------------- MODULE NotesStore -----------------------------
(***************************************************************************)
(* What NotesService promises a client: each call takes effect at most     *)
(* once, at one instant between the call and its answer, on notes of the   *)
(* caller only; a failed call may or may not have taken effect, a refused  *)
(* one has not; an answered note is the note as it was when answered.      *)
(***************************************************************************)
EXTENDS NotesRules

CONSTANTS
  Requests,       \* calls, each made once
  Stamps          \* the timestamps an effect may put on a note

VARIABLES
  notes,    \* notes[n]: the note with this id, or NoNote
  call,     \* call[r]: what request r asks for
  target,   \* target[r]: the note it is about; a create's once it exists
  phase,    \* phase[r]: "idle", "pending", "applied" or "done"
  answer    \* answer[r]: code and note, once done

vars == <<notes, call, target, phase, answer>>

Mine(r, n) ==
  n \in NoteIDs /\ notes[n].row.owner = call[r].user /\ call[r].user # 0

Move(r, from, to) == phase[r] = from /\ phase' = [phase EXCEPT ![r] = to]

Settle(r, a) == answer' = [answer EXCEPT ![r] = a]

-----------------------------------------------------------------------------
\* A call is let in, or refused for what it says alone.
Submit(r) ==
  /\ UNCHANGED <<notes, call, target>>
  /\ IF Admit(call[r]) = "ok"
       THEN Move(r, "idle", "pending") /\ UNCHANGED answer
       ELSE Move(r, "idle", "done") /\ Settle(r, Refuse(Admit(call[r])))

Put(n, note) == notes' = [notes EXCEPT ![n] = note]

Create(r) == \E n \in NoteIDs, t \in Stamps :
  /\ notes[n] = NoNote
  /\ target' = [target EXCEPT ![r] = n]
  /\ Put(n, [row |-> [owner |-> call[r].user, body |-> call[r].body,
                      status |-> normalizeStatus(call[r].status),
                      created |-> t, updated |-> t],
             tags |-> normalizeTags(call[r].tags)])

Update(r) == \E t \in Stamps : LET n == target[r] IN
  /\ UNCHANGED target
  /\ Mine(r, n)
  /\ t > notes[n].row.updated
  /\ Put(n, [row |-> [notes[n].row EXCEPT
                       !.body = call[r].body, !.updated = t,
                       !.status = normalizeStatus(call[r].status)],
             tags |-> normalizeTags(call[r].tags)])

\* AddTags keeps the tags it finds and adds the requested ones.  It may also
\* bring back tags the note carried when the service looked at it: `more'.
AddTags(r) == \E t \in Stamps, more \in SUBSET Tags : LET n == target[r] IN
  /\ UNCHANGED target
  /\ Mine(r, n)
  /\ t > notes[n].row.updated
  /\ normalizeTags(call[r].tags) \subseteq more
  /\ ~TooManyTags(notes[n].tags \cup more)
  /\ Put(n, [row |-> [notes[n].row EXCEPT !.updated = t],
             tags |-> notes[n].tags \cup more])

Delete(r) ==
  Mine(r, target[r]) /\ Put(target[r], NoNote) /\ UNCHANGED target

Effect(r) ==
  \/ call[r].op = "create" /\ Create(r)
  \/ call[r].op = "update" /\ Update(r)
  \/ call[r].op = "add" /\ AddTags(r)
  \/ call[r].op = "delete" /\ Delete(r)

\* The effect of an admitted call, seen by everybody at once ...
Apply(r) == Effect(r) /\ Move(r, "pending", "applied") /\ UNCHANGED <<call, answer>>

\* ... or the effect of a delete, which has nothing to read back ...
ApplyAndAnswer(r) ==
  /\ call[r].op = "delete"
  /\ Effect(r) /\ Move(r, "pending", "done")
  /\ Settle(r, Answer("ok", NoNote)) /\ UNCHANGED call

\* ... or an effect whose answer is lost: the caller sees only a failure.
ApplyAndFail(r) ==
  /\ Effect(r) /\ Move(r, "pending", "done")
  /\ Settle(r, Refuse("internal")) /\ UNCHANGED call

-----------------------------------------------------------------------------
\* The answer carries a note of the caller as it is at this moment.
Show(r, from) == LET n == target[r] IN
  /\ Move(r, from, "done")
  /\ IF Mine(r, n)
       THEN Settle(r, IF ValidNote(notes[n]) THEN Answer("ok", notes[n])
                                             ELSE Refuse("internal"))
       ELSE Settle(r, Refuse("not_found"))
  /\ UNCHANGED <<notes, call, target>>

ReadNote(r) == call[r].op = "get" /\ Show(r, "pending")
ShowWritten(r) == Show(r, "applied")

\* A pending write is refused: no such note of the caller's, or too many tags.
RefuseWrite(r) ==
  /\ Move(r, "pending", "done")
  /\ \/ /\ call[r].op # "create"
        /\ ~Mine(r, target[r])
        /\ Settle(r, Refuse("not_found"))
     \/ /\ call[r].op = "add"
        /\ Settle(r, Refuse("invalid_argument"))
  /\ UNCHANGED <<notes, call, target>>

\* Calls fail, one on its own or, when the server goes down, all of them.
Fail(R) ==
  /\ \A r \in R : phase[r] \in {"pending", "applied"}
  /\ phase' = [r \in Requests |-> IF r \in R THEN "done" ELSE phase[r]]
  /\ \E code \in {"internal", "unavailable"} :
       answer' = [r \in Requests |-> IF r \in R THEN Refuse(code) ELSE answer[r]]
  /\ UNCHANGED <<notes, call, target>>

Init ==
  /\ notes \in [NoteIDs -> Note]
  /\ call \in [Requests -> Call]
  /\ target = [r \in Requests |->
                IF call[r].op = "create" THEN NilID ELSE call[r].note]
  /\ phase = [r \in Requests |-> "idle"]
  /\ answer = [r \in Requests |-> Refuse("none")]

Next ==
  \/ \E r \in Requests :
       \/ Submit(r)
       \/ Apply(r) \/ ApplyAndAnswer(r) \/ ApplyAndFail(r)
       \/ ReadNote(r) \/ ShowWritten(r) \/ RefuseWrite(r)
  \/ \E R \in SUBSET Requests : Fail(R)

Spec == Init /\ [][Next]_vars
=============================================================================
