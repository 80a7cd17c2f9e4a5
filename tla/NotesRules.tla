----------------------------- MODULE NotesRules -----------------------------
(***************************************************************************)
(* What a notes request is, and the decisions taken before any of it       *)
(* reaches PostgreSQL: the Connect interceptors (token, proto validation), *)
(* the handlers' scope check and the service's input normalisation.  The   *)
(* title, body and category of a note matter here only as "blank or not"   *)
(* and as "empty or not", so a call carries `titled' and one body.         *)
(***************************************************************************)
EXTENDS Naturals, FiniteSets

CONSTANTS
  NoteIDs,   \* the UUIDs notes can have
  NilID,     \* uuid.Nil, which proto validation lets through
  Owners,    \* the positive AppUserIDs; 0 is "no verified user"
  RawTags,   \* tags as clients spell them
  Norm,      \* strings.ToLower(strings.TrimSpace(_)) on RawTags
  Bodies,    \* markdown bodies, "" among them
  MaxTags    \* notes.MaxTags, and max_items in notes.proto

Blank == ""
Tags == {Norm[t] : t \in RawTags} \ {Blank}

\* Normalising is idempotent: a stored tag is its own normal form.
ASSUME RulesAssumption ==
  /\ NilID \notin NoteIDs
  /\ Owners \subseteq Nat \ {0}
  /\ Norm \in [RawTags -> RawTags \cup {Blank}]
  /\ Tags \subseteq RawTags
  /\ \A t \in Tags : Norm[t] = t
  /\ IsFiniteSet(RawTags)
  /\ "" \in Bodies
  /\ MaxTags \in Nat

Scopes == {"notes:read", "notes:write", "notes:admin"}
Statuses == {"draft", "active", "final", "archived"}
Ops == {"create", "get", "add", "update", "delete"}

\* "absent" is an unset optional status, "unspecified" an explicit zero.
Call == [op : Ops, user : Owners \cup {0}, scopes : SUBSET Scopes,
         note : NoteIDs \cup {NilID}, titled : BOOLEAN, body : Bodies,
         status : Statuses \cup {"absent", "unspecified"},
         tags : SUBSET RawTags]

Codes == {"none", "ok", "unauthenticated", "permission_denied",
          "invalid_argument", "not_found", "internal", "unavailable"}

-----------------------------------------------------------------------------
\* Variant: tags are kept as they were typed.
normalizeTagsAsTyped(raw) == raw \ {Blank}

\* The tag set the service works on: blanks and duplicates are dropped.
normalizeTags(raw) == {Norm[t] : t \in raw} \ {Blank}

TooManyTags(tags) == Cardinality(tags) > MaxTags

\* An unset status becomes ACTIVE in creates and in updates alike.
normalizeStatus(s) == IF s = "absent" THEN "active" ELSE s

\* notes.proto's rules on the request, enforced by connectvalidate.
ValidTagList(raw) ==
  /\ Cardinality(raw) <= MaxTags
  /\ \A t \in raw : Norm[t] # Blank

ValidRequest(c) ==
  /\ c.op \in {"create", "update"} =>
       c.titled /\ c.status # "unspecified" /\ ValidTagList(c.tags)
  /\ c.op = "add" => c.tags # {} /\ ValidTagList(c.tags)

RequiredScope(op) == IF op = "get" THEN "notes:read" ELSE "notes:write"

HasScope(c, scope) == {scope, "notes:admin"} \cap c.scopes # {}

\* validateOwnerAndNoteID; a create names no note.
NamesANote(c) == c.op = "create" \/ c.note # NilID

\* normalizeCreateInput and normalizeUpdateInput; AddTags asks for some tag.
Normalizes(c) ==
  CASE c.op \in {"create", "update"} ->
         c.titled /\ ~TooManyTags(normalizeTags(c.tags))
    [] c.op = "add" -> c.tags # {}
    [] OTHER -> TRUE

\* The first refusal a request meets, in the order of the interceptor chain,
\* the handler and the service; "ok" when it reaches the repository.
Admit(c) ==
  CASE c.user = 0 -> "unauthenticated"
    [] c.user # 0 /\ ~ValidRequest(c) -> "invalid_argument"
    [] c.user # 0 /\ ValidRequest(c) /\ ~HasScope(c, RequiredScope(c.op))
         -> "permission_denied"
    [] c.user # 0 /\ ValidRequest(c) /\ HasScope(c, RequiredScope(c.op))
         -> IF NamesANote(c) /\ Normalizes(c) THEN "ok" ELSE "invalid_argument"

-----------------------------------------------------------------------------
\* A note as DomainNoteToProto shows it; owner 0 stands for "no note".
Row == [owner : Owners \cup {0}, body : Bodies, status : Statuses,
        created : Nat, updated : Nat]
NoRow == [owner |-> 0, body |-> "", status |-> "active",
          created |-> 0, updated |-> 0]
Note == [row : Row, tags : SUBSET Tags]
NoNote == [row |-> NoRow, tags |-> {}]

\* connectvalidate.WithValidateResponses checks the Note message on the way
\* out: body_markdown has min_len 1 there, and tags at most 20 items.
ValidNote(note) == note.row.body # "" /\ Cardinality(note.tags) <= MaxTags

Answer(code, note) == [code |-> code, note |-> note]
Refuse(code) == Answer(code, NoNote)
=============================================================================
