---------------------------- MODULE NotesClients ----------------------------
(***************************************************************************)
(* The programs that use NotesService over Connect: the MCP server         *)
(* (pkg/mcpnotes, one tool per RPC) and the command line (cmd/notes-       *)
(* client), through pkg/notesclient and the bearer token.  A call goes     *)
(* from what the user names (an input) to a request, to the service, and   *)
(* back to what the user is shown (a reply).                               *)
(*                                                                         *)
(* The service is taken as NotesStore promises it: a call takes effect and *)
(* is answered at one instant.  Titles and categories are left out, except *)
(* that a title can be missing.                                            *)
(***************************************************************************)
EXTENDS NotesRules, Integers, Sequences

CONSTANTS
  Clients,       \* users' programs, each making one call after the other
  Settings,      \* Settings[c]: how c may be configured
  Inputs,        \* Inputs[c]: what the user of c may ask for
  AuthModes,     \* NOTES_AUTH_MODE: "jwt", "dev"
  Tokens,        \* the bearer tokens there are
  NoToken,       \* the empty string
  DevToken,      \* NOTES_DEV_TOKEN of the server
  DevUser,       \* NOTES_DEV_USER_ID
  LowerTrim,     \* strings.ToLower(strings.TrimSpace(_)) on typed statuses
  Parts,         \* Parts[t]: t cut at commas, each part trimmed, no blanks
  DefaultLimit, MaxLimit,   \* notes.DefaultLimit, notes.MaxLimit
  Half,          \* 2^31: an int32 is in -Half .. Half - 1
  InitialNotes,  \* contents of the store at first
  MaxCalls       \* bound of the model: calls of all clients

\* A personal access token or a JWT: whom it was issued to, 0 when it is not
\* valid, and with what.
Token == [pat : BOOLEAN, user : Owners \cup {0}, admin : BOOLEAN,
          scopes : SUBSET Scopes]

\* flag, token, dev: -token, NOTES_TOKEN and NOTES_DEV_TOKEN.
Setting == LET T == Tokens \cup {NoToken} IN
  [program : {"mcp", "cli"}, flag : T, token : T, dev : T]

RawStatuses == DOMAIN LowerTrim

\* named: the optional flags or fields the user gives; the others are empty.
Input == [op : Ops \cup {"list", "search"}, note : NoteIDs \cup {NilID},
          titled : BOOLEAN, body : Bodies, tags : SUBSET RawTags,
          status : RawStatuses, limit : Int,
          named : SUBSET {"body", "tags", "status"}]

Named(i) ==
  /\ "body" \notin i.named => i.body = ""
  /\ "tags" \notin i.named => i.tags = {}
  /\ "status" \notin i.named => i.status = ""

\* The notes of a store; NoRow's owner is 0.
Existing(s) == {n \in NoteIDs : s[n].row.owner # 0}

ASSUME ClientsAssumption ==
  /\ \A c \in Clients : \A s \in Settings[c] : s \in Setting
  /\ \A c \in Clients : \A i \in Inputs[c] : i \in Input /\ Named(i)
  /\ AuthModes \subseteq {"jwt", "dev"}
  /\ Tokens \subseteq Token /\ NoToken \notin Tokens
  /\ DevToken \in Tokens /\ DevUser \in Owners
  /\ Statuses \cup {""} \subseteq RawStatuses
  /\ \A s \in Statuses \cup {""} : LowerTrim[s] = s
  /\ Parts \in [RawTags -> SUBSET RawTags]
  /\ \A t \in RawTags : \A p \in Parts[t] : Norm[p] # Blank /\ Parts[p] = {p}
  /\ DefaultLimit \in 1 .. MaxLimit
  /\ Half \in Nat /\ MaxLimit \in 1 .. Half - 1
  /\ InitialNotes \subseteq [NoteIDs -> Note]
  /\ IsFiniteSet(NoteIDs)
  /\ \A s \in InitialNotes : \A m, n \in NoteIDs :
       /\ s[n].row.owner = 0 => s[n] = NoNote
       /\ s[n].row.updated <= Cardinality(NoteIDs)
       /\ {m, n} \subseteq Existing(s) /\ s[m].row.updated = s[n].row.updated => m = n
  /\ MaxCalls \in Nat

VARIABLES
  notes,     \* the store
  issued,    \* ids that notes have or had
  clock,     \* the last instant used as a timestamp
  authMode,  \* the server's
  setting,   \* setting[c]: how c is configured
  step,      \* step[c]: "idle", "sent" or "answered"; "exit": it never ran
  input,     \* input[c]: what the user of c asked for last
  outage,    \* the clients for whose last call the auth service fails
  resp,      \* resp[c]: the service's response to it
  reply,     \* reply[c]: what c showed its user last
  done,      \* history: the call that c made last has changed the store
  calls      \* how many calls were made

service == <<notes, issued, clock>>
vars == <<notes, issued, clock, authMode, setting, step, input, outage,
          resp, reply, done, calls>>

-----------------------------------------------------------------------------
\* Tokens.

\* The command line takes the first token there is; the MCP server knows only
\* NOTES_TOKEN.
authToken(s) ==
  IF s.program = "mcp" THEN s.token
  ELSE IF s.flag # NoToken THEN s.flag
  ELSE IF s.token # NoToken THEN s.token ELSE s.dev

\* What buildTokenVerifier grants to everybody; notes:mcp is never asked for.
DefaultScopes == {"notes:read", "notes:write"}
NoUser == [user |-> 0, scopes |-> {}]

DevVerify(t) ==
  IF t = DevToken THEN [user |-> DevUser, scopes |-> DefaultScopes] ELSE NoUser

\* Only a JWT's holder can be promoted to notes:admin.
JWTVerify(t) ==
  IF t.user = 0 THEN NoUser
  ELSE [user |-> t.user,
        scopes |-> DefaultScopes \cup IF t.admin THEN {"notes:admin"} ELSE {}]

\* PatVerifier's answer: what the auth service knows of the token.  When it
\* does not answer, or not with 200, any token is refused like an invalid one.
PatVerify(t, failed) ==
  IF failed \/ t.user = 0 THEN NoUser
  ELSE [user |-> t.user, scopes |-> t.scopes]

\* Variant: every token is read as a JWT.
VerifyAllAsJWT(t, failed) ==
  IF authMode = "dev" THEN DevVerify(t) ELSE JWTVerify(t)

\* buildTokenVerifier, CompositeVerifier.
VerifyBearerToken(t, failed) ==
  IF authMode = "dev" THEN DevVerify(t)
  ELSE IF t.pat THEN PatVerify(t, failed) ELSE JWTVerify(t)

\* The auth service is asked about personal tokens only.
ByIntrospection(c) == authMode = "jwt" /\ authToken(setting[c]).pat

-----------------------------------------------------------------------------
\* From inputs to requests.

int32(n) == ((n + Half) % (2 * Half)) - Half

\* Variant: FINAL is taken for an unknown status.
noteStatusFromStringShort(s) ==
  IF LowerTrim[s] \in Statuses \ {"final"} THEN LowerTrim[s] ELSE "absent"

\* The MCP server drops a status it does not know, as if there were none.
noteStatusFromString(s) ==
  IF LowerTrim[s] \in Statuses THEN LowerTrim[s] ELSE "absent"

\* What the command line refuses before it calls the server.
Usage(c, i) == setting[c].program = "cli" /\
  \/ i.op = "create" /\ (~i.titled \/ i.body = "")
  \/ i.op = "add" /\ i.tags = {}
  \/ i.op \in {"create", "update"} /\ i.status # ""
       /\ LowerTrim[i.status] \notin Statuses

\* What becomes of -tags: a tag with a comma in it becomes several.
SplitTags(raw) == UNION {Parts[t] : t \in raw}

\* The service's view of the request: the token's user and the fields sent.
CallOf(c) == LET i == input[c]
                 u == VerifyBearerToken(authToken(setting[c]), c \in outage) IN
  [op |-> i.op, user |-> u.user, scopes |-> u.scopes,
   note |-> i.note, titled |-> i.titled, body |-> i.body,
   status |-> noteStatusFromString(i.status),
   tags |-> IF setting[c].program = "cli" THEN SplitTags(i.tags) ELSE i.tags]

\* search_notes leaves a limit out that is not positive.
LimitOf(c) == LET i == input[c] IN
  IF setting[c].program = "mcp" /\ i.op = "search" /\ i.limit <= 0
    THEN 0 ELSE int32(i.limit)

-----------------------------------------------------------------------------
\* The service.

\* The store's contents for one user, newest first.
Matching(c) == LET u == CallOf(c) IN
  {n \in NoteIDs :
     /\ notes[n].row.owner = u.user
     /\ u.op = "search" => normalizeTags(u.tags) \subseteq notes[n].tags}

Newer(n, S) == {m \in S : notes[m].row.updated > notes[n].row.updated}

\* Variant: the limit is used as it is, 0 included.
normalizeLimitNot(limit) == limit

normalizeLimit(limit) == IF limit = 0 THEN DefaultLimit ELSE limit

Shown(n, note) == [id |-> n, note |-> note]
Response(code, shown) == [code |-> code, shown |-> shown]

\* Interceptors and handlers of ListRecentNotes and SearchNotes.
AdmitList(c) ==
  CASE CallOf(c).user = 0 -> "unauthenticated"
    [] CallOf(c).user # 0 /\ LimitOf(c) \notin 0 .. MaxLimit -> "invalid_argument"
    [] OTHER -> IF HasScope(CallOf(c), "notes:read")
                  THEN "ok" ELSE "permission_denied"

\* The first notes, in the order of the list.
Page(c) == LET S == Matching(c) IN
  {n \in S : Cardinality(Newer(n, S)) < normalizeLimit(LimitOf(c))}
Sorted(page) ==
  {s \in [1 .. Cardinality(page) -> page] : \A k \in DOMAIN s :
     Newer(s[k], page) = {s[j] : j \in 1 .. k - 1}}

\* A page fails as a whole when one of its notes is not a valid response.
List(c) ==
  /\ input[c].op \in {"list", "search"}
  /\ \/ /\ AdmitList(c) # "ok"
        /\ resp' = [resp EXCEPT ![c] = Response(AdmitList(c), <<>>)]
     \/ /\ AdmitList(c) = "ok" /\ \E n \in Page(c) : ~ValidNote(notes[n])
        /\ resp' = [resp EXCEPT ![c] = Response("internal", <<>>)]
     \/ /\ AdmitList(c) = "ok" /\ \A n \in Page(c) : ValidNote(notes[n])
        /\ \E s \in Sorted(Page(c)) : resp' = [resp EXCEPT ![c] =
             Response("ok", [k \in DOMAIN s |-> Shown(s[k], notes[s[k]])])]
  /\ UNCHANGED service

ShowNote(n, note) ==
  IF ValidNote(note) THEN Response("ok", <<Shown(n, note)>>)
                     ELSE Response("internal", <<>>)

\* Why a call about one note is refused, or "ok".
Verdict(c) == LET u == CallOf(c)  old == notes[u.note] IN
  IF Admit(u) # "ok" THEN Admit(u)
  ELSE IF u.op = "create" THEN "ok"
  ELSE IF u.note \notin NoteIDs \/ old.row.owner # u.user THEN "not_found"
  ELSE IF u.op = "add" /\ TooManyTags(old.tags \cup normalizeTags(u.tags))
    THEN "invalid_argument" ELSE "ok"

Refused(c) ==
  /\ input[c].op \in Ops /\ Verdict(c) # "ok"
  /\ resp' = [resp EXCEPT ![c] = Response(Verdict(c), <<>>)]
  /\ UNCHANGED service

Get(c) ==
  /\ input[c].op = "get" /\ Verdict(c) = "ok"
  /\ resp' = [resp EXCEPT ![c] = ShowNote(input[c].note, notes[input[c].note])]
  /\ UNCHANGED service

\* UpdateNote replaces the whole note.
Replaced(u, old) ==
  [row |-> [old.row EXCEPT !.body = u.body, !.updated = clock + 1,
                           !.status = normalizeStatus(u.status)],
   tags |-> normalizeTags(u.tags)]

Tagged(u, old) ==
  [row |-> [old.row EXCEPT !.updated = clock + 1],
   tags |-> old.tags \cup normalizeTags(u.tags)]

Created(u) ==
  [row |-> [owner |-> u.user, body |-> u.body,
            status |-> normalizeStatus(u.status),
            created |-> clock + 1, updated |-> clock + 1],
   tags |-> normalizeTags(u.tags)]

Put(c, n, note) ==
  /\ notes' = [notes EXCEPT ![n] = note]
  /\ issued' = issued \cup {n}
  /\ clock' = clock + 1
  /\ resp' = [resp EXCEPT ![c] = ShowNote(n, note)]

Write(c) == LET u == CallOf(c) IN
  /\ input[c].op \in {"create", "update", "add"} /\ Verdict(c) = "ok"
  /\ CASE u.op = "create" -> \E n \in NoteIDs \ issued : Put(c, n, Created(u))
       [] u.op = "update" -> Put(c, u.note, Replaced(u, notes[u.note]))
       [] u.op = "add"    -> Put(c, u.note, Tagged(u, notes[u.note]))

Delete(c) ==
  /\ input[c].op = "delete" /\ Verdict(c) = "ok"
  /\ notes' = [notes EXCEPT ![input[c].note] = NoNote]
  /\ resp' = [resp EXCEPT ![c] = Response("ok", <<>>)]
  /\ UNCHANGED <<issued, clock>>

-----------------------------------------------------------------------------
\* From responses to replies.

\* protoNoteToOutput: whose note it is is not told.
Output(shown) == LET row == shown.note.row IN
  [id |-> shown.id, body |-> row.body, tags |-> shown.note.tags,
   status |-> row.status, created |-> row.created, updated |-> row.updated]

\* Variant: whatever is not about the token or a scope is a missing note.
mapRPCErrorMissing(code) ==
  CASE code = "unauthenticated"   -> "token"
    [] code = "permission_denied" -> "scope"
    [] OTHER                      -> "missing"

\* What the user is told: the hint of the MCP server, the code of the other.
mapRPCError(code) ==
  CASE code = "unauthenticated"   -> "token"
    [] code = "permission_denied" -> "scope"
    [] code = "not_found"         -> "missing"
    [] OTHER                      -> "error"

Told(said, outputs) == [said |-> said, notes |-> outputs]
Nothing == Response("none", <<>>)

\* The user saves a note as it was shown to him, every field named.
WriteBack(o) ==
  [op |-> "update", note |-> o.id, titled |-> TRUE, body |-> o.body,
   tags |-> o.tags, status |-> o.status, limit |-> 0,
   named |-> {"body", "tags", "status"}]

WriteBacks(c) == {WriteBack(reply[c].notes[k]) : k \in DOMAIN reply[c].notes}

-----------------------------------------------------------------------------
\* Actions.

\* The command line has no delete.
Offers(c, i) == setting[c].program = "cli" => i.op # "delete"

\* The user asks; the command line may refuse by itself.  Whether the auth
\* service will answer for this call is settled here.
Invoke(c) == \E i \in Inputs[c] \cup WriteBacks(c) :
  /\ step[c] = "idle" /\ calls < MaxCalls /\ Offers(c, i)
  /\ input' = [input EXCEPT ![c] = i]
  /\ done' = [done EXCEPT ![c] = FALSE]
  /\ calls' = calls + 1
  /\ IF Usage(c, i)
       THEN /\ reply' = [reply EXCEPT ![c] = Told("usage", <<>>)]
            /\ outage' = outage \ {c} /\ UNCHANGED step
       ELSE /\ step' = [step EXCEPT ![c] = "sent"]
            /\ \/ outage' = outage \ {c}
               \/ ByIntrospection(c) /\ outage' = outage \cup {c}
            /\ UNCHANGED reply
  /\ UNCHANGED <<service, authMode, setting, resp>>

\* The server carries the call out and answers.
Serve(c) ==
  /\ step[c] = "sent"
  /\ List(c) \/ Refused(c) \/ Get(c) \/ Write(c) \/ Delete(c)
  /\ step' = [step EXCEPT ![c] = "answered"]
  /\ done' = [done EXCEPT ![c] = notes' # notes]
  /\ UNCHANGED <<authMode, setting, input, outage, reply, calls>>

\* The answer arrives and is shown.
Reply(c) ==
  /\ step[c] = "answered"
  /\ reply' = [reply EXCEPT ![c] =
       IF resp[c].code = "ok"
         THEN Told("ok", [k \in DOMAIN resp[c].shown |-> Output(resp[c].shown[k])])
         ELSE Told(mapRPCError(resp[c].code), <<>>)]
  /\ resp' = [resp EXCEPT ![c] = Nothing]
  /\ step' = [step EXCEPT ![c] = "idle"]
  /\ UNCHANGED <<service, authMode, setting, input, outage, done, calls>>

\* The deadline passes or the connection breaks, before the server has the
\* request or after it has carried it out.
GiveUp(c) ==
  /\ step[c] \in {"sent", "answered"}
  /\ reply' = [reply EXCEPT ![c] = Told("error", <<>>)]
  /\ resp' = [resp EXCEPT ![c] = Nothing]
  /\ step' = [step EXCEPT ![c] = "idle"]
  /\ UNCHANGED <<service, authMode, setting, input, outage, done, calls>>

NoInput == [op |-> "list", note |-> NilID, titled |-> FALSE, body |-> "",
            tags |-> {}, status |-> "", limit |-> 0, named |-> {}]

\* Neither program runs without a token.
Init ==
  /\ notes \in InitialNotes
  /\ issued = Existing(notes)
  /\ clock = Cardinality(NoteIDs)
  /\ authMode \in AuthModes
  /\ setting \in {f \in [Clients -> UNION {Settings[c] : c \in Clients}] :
                   \A c \in Clients : f[c] \in Settings[c]}
  /\ step = [c \in Clients |->
               IF authToken(setting[c]) = NoToken THEN "exit" ELSE "idle"]
  /\ input = [c \in Clients |-> NoInput]
  /\ outage = {}
  /\ resp = [c \in Clients |-> Nothing]
  /\ reply = [c \in Clients |-> Told("none", <<>>)]
  /\ done = [c \in Clients |-> FALSE]
  /\ calls = 0

Next == \E c \in Clients : Invoke(c) \/ Serve(c) \/ Reply(c) \/ GiveUp(c)

Spec == Init /\ [][Next]_vars

-----------------------------------------------------------------------------
\* Properties.

\* What a user sees and a server may answer.
OutputType == [id : NoteIDs, body : Bodies, tags : SUBSET Tags,
               status : Statuses, created : Nat, updated : Nat]
ShownType == [id : NoteIDs, note : Note]
Sayings == {"none", "ok", "usage", "token", "scope", "missing", "error"}

\* Every variable stays in its domain: the store holds notes with normal tags
\* and a known status, whatever was typed.
ClientsTypeOK ==
  /\ notes \in [NoteIDs -> Note] /\ issued \subseteq NoteIDs /\ clock \in Nat
  /\ authMode \in AuthModes /\ calls \in 0 .. MaxCalls
  /\ setting \in [Clients -> Setting]
  /\ step \in [Clients -> {"idle", "sent", "answered", "exit"}]
  /\ input \in [Clients -> Input] /\ done \in [Clients -> BOOLEAN]
  /\ outage \subseteq Clients
  /\ resp \in [Clients -> [code : Codes, shown : Seq(ShownType)]]
  /\ reply \in [Clients -> [said : Sayings, notes : Seq(OutputType)]]

\* Whom the token that c uses speaks for, and what it may do: in dev mode the
\* one user, a personal token with its scopes, a JWT with all but admin.
Holder(c) == LET t == authToken(setting[c]) IN
  IF authMode = "jwt" THEN t.user ELSE IF t = DevToken THEN DevUser ELSE 0
MayDo(c, scope) == LET t == authToken(setting[c]) IN
  authMode = "jwt" /\ t.pat => {scope, "notes:admin"} \cap t.scopes # {}

\* Whom the service takes the caller for: nobody, when it is not told.
Caller(c) == IF c \in outage THEN 0 ELSE Holder(c)

\* What the server shows belongs to the token's holder, and a token that may
\* not read sees no page and no note; one that may not write changes nothing;
\* a token that nobody vouches for does neither (authadapter, requireOwner).
TokenDecides == \A c \in Clients :
  /\ \A k \in DOMAIN resp[c].shown :
       /\ Caller(c) # 0 /\ resp[c].shown[k].note.row.owner = Caller(c)
       /\ input[c].op \in {"list", "search", "get"} => MayDo(c, "notes:read")
  /\ done[c] => Caller(c) # 0 /\ MayDo(c, "notes:write")

\* A user who is told why his call was refused can rely on it: nothing was
\* changed; when he is told that the token was rejected, it is not valid or the
\* auth service could not be asked about it, which he is not told apart; its
\* scopes were at fault when he is told so; and when he is told that a write
\* succeeded, the store was changed.  Only after "error" he does not know.
RepliesTellTruth == \A c \in Clients : step[c] = "idle" =>
  LET said == reply[c].said
      scope == IF input[c].op \in {"list", "search", "get"}
                 THEN "notes:read" ELSE "notes:write"
  IN /\ said \in {"usage", "token", "scope", "missing"} => ~done[c]
     /\ said = "token" <=> said \notin {"none", "usage", "error"} /\ Caller(c) = 0
     /\ said = "scope" => Caller(c) # 0 /\ ~MayDo(c, scope)
     /\ said = "ok" /\ scope = "notes:write" => done[c]

\* A note saved as it was shown keeps its body, its tags and its status, in
\* whatever spelling they went out and came back; only the time of its last
\* change moves (noteStatusToString, noteStatusFromString, protoNoteToOutput).
\* Not on the command line when -tags would cut one of its tags in two.
RoundTrip ==
  [][\A c \in Clients : \A n \in NoteIDs :
       LET old == notes[n] IN
       /\ Serve(c) /\ input[c] = WriteBack(Output(Shown(n, old)))
       /\ ValidNote(old) /\ old.row.owner = Caller(c)
       /\ Caller(c) # 0 /\ MayDo(c, "notes:write")
       /\ setting[c].program = "cli" => \A t \in old.tags : Parts[t] = {t}
       => /\ notes'[n] = [old EXCEPT !.row.updated = clock']
          /\ resp'[c].code = "ok"]_vars

\* A list or search shows as many of the user's notes as he asked for, the
\* newest ones, newest first; the default when he asks for none; and it refuses
\* more than there may be, instead of showing less.  A number that is no int32
\* is not covered: it is cut.
PageAsAsked ==
  [][\A c \in Clients : LET i == input[c] IN
       /\ Serve(c) /\ i.op \in {"list", "search"}
       /\ Caller(c) # 0 /\ MayDo(c, "notes:read")
       /\ i.limit \in -Half .. Half - 1
       => LET shown == resp'[c].shown
              wanted == IF i.limit = 0 THEN DefaultLimit ELSE i.limit
              all == Matching(c)
              ignored == setting[c].program = "mcp" /\ i.op = "search" /\ i.limit < 0
              bad == i.limit \notin 0 .. MaxLimit /\ ~ignored
          IN /\ bad <=> resp'[c].code = "invalid_argument"
             /\ resp'[c].code = "ok" /\ i.limit >= 0 =>
                  Len(shown) = IF Cardinality(all) < wanted
                                 THEN Cardinality(all) ELSE wanted
             /\ \A k \in DOMAIN shown :
                  /\ shown[k].id \in all
                  /\ Newer(shown[k].id, all) = {shown[j].id : j \in 1 .. k - 1}]_vars

-----------------------------------------------------------------------------
\* The inductive invariant behind them.

\* Only programs with a token run, and only personal ones are asked about; a
\* response is there when it is awaited, and its code tells what was done.
AnswerOK == \A c \in Clients :
  LET code == resp[c].code
      scope == IF input[c].op \in {"list", "search", "get"}
                 THEN "notes:read" ELSE "notes:write"
  IN /\ step[c] = "exit" <=> authToken(setting[c]) = NoToken
     /\ c \in outage => ByIntrospection(c)
     /\ step[c] # "answered" => resp[c] = Nothing
     /\ step[c] = "answered" =>
          /\ code = "unauthenticated" <=> Caller(c) = 0
          /\ code = "permission_denied" => ~MayDo(c, scope)
          /\ code = "ok" /\ scope = "notes:write" => done[c]
          /\ done[c] => code \in {"ok", "internal"}

\* No timestamp is ahead of the clock.
ClockOK == \A n \in NoteIDs : notes[n].row.updated <= clock

ClientsInv ==
  ClientsTypeOK /\ TokenDecides /\ RepliesTellTruth /\ AnswerOK /\ ClockOK

-----------------------------------------------------------------------------
\* "Modify the title, body, category, or tags of an existing note."
\* (cmd/notes-client/README.md:132): what the user of `update' does not name
\* stays as it was.
UpdateKeepsUnnamed ==
  [][\A c \in Clients : LET i == input[c] IN
       Serve(c) /\ setting[c].program = "cli" /\ i.op = "update" /\ notes' # notes =>
         LET old == notes[i.note]
             new == notes'[i.note]
         IN /\ "body" \notin i.named => new.row.body = old.row.body
            /\ "status" \notin i.named => new.row.status = old.row.status
            /\ "tags" \notin i.named => new.tags = old.tags]_vars
=============================================================================
