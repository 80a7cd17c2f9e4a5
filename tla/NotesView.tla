----------------------------- MODULE NotesView -----------------------------
(***************************************************************************)
(* A user pages through his notes in the web client while RPCs travel.     *)
(* notes-pagination.ts keeps the cursor state and is changed when the user *)
(* clicks; notes-ui.ts renders whatever response arrives, whenever it      *)
(* arrives.  The server answers a page from the owner's notes in order of  *)
(* updated_at, and offsets are its page tokens ("" is 0).                  *)
(***************************************************************************)
EXTENDS Integers, Sequences, SequencesExt

CONSTANTS
  Notes,     \* ids of notes
  Hits,      \* the notes that match what the user searches for
  AllSlots,  \* RPCs that may ever be under way at once
  Worlds     \* the circumstances a page may be used in

\* ids: the notes that may exist; stored: the owner's notes when the page is
\* loaded, newest first; limits: the page sizes that the user types in; slots:
\* the RPCs that may be under way at once; others: whether other clients change
\* the owner's notes; faults: whether RPCs may fail; depth: bound of the model
\* on the token stack.
World == [ids : SUBSET Notes, stored : Seq(Notes), limits : SUBSET (Nat \ {0}),
          slots : SUBSET AllSlots, others : BOOLEAN, faults : BOOLEAN, depth : Nat]

ASSUME ViewAssumption == Hits \subseteq Notes /\ \A w \in Worlds : w \in World

VARIABLES
  world,     \* the one of Worlds that this page lives in
  notes,     \* the server's notes of this owner, newest first
  view,      \* notesViewState
  shown,     \* currentNotesList
  bar,       \* the pagination bar as last rendered
  origin,    \* history: mode and token of the response that was rendered
  rpc        \* rpc[s]: an RPC under way

vars == <<world, notes, view, shown, bar, origin, rpc>>

Slots == world.slots
Limits == world.limits
\* One RPC at a time, none fails, one page size and no other client.
Calm == (\E s \in Slots : Slots = {s}) /\ (\E limit \in Limits : Limits = {limit})
          /\ ~world.others /\ ~world.faults

Modes == {"list", "search"}
Free == [kind |-> "free"]
Quiet == \A s \in Slots : rpc[s] = Free

-----------------------------------------------------------------------------
\* The server: ListRecentNotes and SearchNotes.
\* Written without SelectSeq, which no theorem describes.
At(s, places) ==
  LET Place(k) == CHOOSE i \in places : Cardinality({j \in places : j <= i}) = k
  IN [k \in 1 .. Cardinality(places) |-> s[Place(k)]]

Matching(mode) == At(notes, {k \in DOMAIN notes : mode = "list" \/ notes[k] \in Hits})

\* Variant: a full page always has a successor.
NextSearchPageTokenGreedy(offset, count, total) == IF count = 0 THEN 0 ELSE offset + count

NextSearchPageToken(offset, count, total) ==
  IF count = 0 \/ offset + count >= total THEN 0 ELSE offset + count

\* The total is a column of the rows: no rows, no total.
PageOf(mode, offset, limit) ==
  LET all == Matching(mode)
      page == SubSeq(all, offset + 1, IF offset + limit < Len(all) THEN offset + limit ELSE Len(all))
      total == IF page = <<>> THEN 0 ELSE Len(all)
  IN [page |-> page, total |-> total,
      next |-> NextSearchPageToken(offset, Len(page), total)]

-----------------------------------------------------------------------------
\* resetNotesView
FreshView(mode, limit) == [mode |-> mode, limit |-> limit, token |-> 0, next |-> 0,
                           total |-> 0, stack |-> <<>>]

\* fetchNotesList or searchNotes, whichever v.mode says, sent in slot s.
FetchFrom(s, v, token, limit) ==
  /\ view' = [v EXCEPT !.limit = limit, !.token = token]
  /\ rpc' = [rpc EXCEPT ![s] = [kind |-> "page", mode |-> v.mode, token |-> token,
                                limit |-> limit, answered |-> FALSE]]

\* "Fetch Recent Notes" or the search form: reset = true.
Start(s) == \E mode \in Modes, limit \in Limits :
  /\ rpc[s] = Free
  /\ FetchFrom(s, FreshView(mode, limit), 0, limit)
  /\ UNCHANGED <<notes, shown, bar, origin>>

\* Variant: the token of the page ahead is pushed.
NextPageWrongPush(s) == \E limit \in Limits :
  /\ rpc[s] = Free /\ bar.visible /\ bar.hasNext /\ view.next # 0
  /\ Len(view.stack) < world.depth
  /\ FetchFrom(s, [view EXCEPT !.stack = Append(@, view.next)], view.next, limit)
  /\ UNCHANGED <<notes, shown, bar, origin>>

\* goToNextNotesPage
NextPage(s) == \E limit \in Limits :
  /\ rpc[s] = Free /\ bar.visible /\ bar.hasNext /\ view.next # 0
  /\ Len(view.stack) < world.depth
  /\ FetchFrom(s, [view EXCEPT !.stack = Append(@, view.token)], view.next, limit)
  /\ UNCHANGED <<notes, shown, bar, origin>>

\* Variant: the stack is read, not popped.
PreviousPageNoPop(s) == \E limit \in Limits :
  /\ rpc[s] = Free /\ bar.visible /\ bar.hasPrev /\ view.stack # <<>>
  /\ FetchFrom(s, view, Last(view.stack), limit)
  /\ UNCHANGED <<notes, shown, bar, origin>>

\* goToPreviousNotesPage
PreviousPage(s) == \E limit \in Limits :
  /\ rpc[s] = Free /\ bar.visible /\ bar.hasPrev /\ view.stack # <<>>
  /\ FetchFrom(s, [view EXCEPT !.stack = Front(@)], Last(view.stack), limit)
  /\ UNCHANGED <<notes, shown, bar, origin>>

\* Ids that are in use somewhere; a new note takes another one.
Known == Range(notes) \cup Range(shown) \cup UNION {
           CASE rpc[s].kind = "free" -> {}
             [] rpc[s].kind # "page" /\ rpc[s].kind # "free" -> {rpc[s].note}
             [] rpc[s].kind = "page" ->
                  IF rpc[s].answered THEN Range(rpc[s].reply.page) ELSE {} : s \in Slots}

\* AddTags, DeleteNote and UpdateNote on a note that is displayed; CreateNote.
Send(s, kind, n) ==
  /\ rpc[s] = Free
  /\ rpc' = [rpc EXCEPT ![s] = [kind |-> kind, note |-> n, answered |-> FALSE]]
  /\ UNCHANGED <<notes, view, shown, bar, origin>>
Change(s) ==
  \/ \E n \in Range(shown), kind \in {"tag", "delete", "update"} : Send(s, kind, n)
  \/ \E n \in world.ids \ Known : Send(s, "create", n)

-----------------------------------------------------------------------------
\* What a write does to the owner's notes: what is written becomes newest.
Written(kind, n) == LET rest == At(notes, {k \in DOMAIN notes : notes[k] # n}) IN
  IF kind = "delete" THEN rest ELSE <<n>> \o rest
CanWrite(kind, n) == (kind = "create") <=> (n \notin Range(notes))

\* The server answers; the answer travels.
Serve(s) ==
  /\ rpc[s].kind # "free" /\ ~rpc[s].answered
  /\ rpc' = [rpc EXCEPT ![s] =
       IF @.kind = "page"
         THEN [kind |-> "page", mode |-> @.mode, token |-> @.token, limit |-> @.limit,
               answered |-> TRUE, reply |-> PageOf(@.mode, @.token, @.limit)]
         ELSE [kind |-> @.kind, note |-> @.note, answered |-> TRUE,
               ok |-> CanWrite(@.kind, @.note)]]
  /\ notes' = IF rpc[s].kind # "page" /\ CanWrite(rpc[s].kind, rpc[s].note)
                THEN Written(rpc[s].kind, rpc[s].note) ELSE notes
  /\ UNCHANGED <<view, shown, bar, origin>>

\* Variant: the bar is drawn before the response is applied.
RenderBarFirst(reply) ==
  LET count == Len(reply.page)
      depth == Len(view.stack)
  IN /\ shown' = reply.page
     /\ view' = [view EXCEPT !.total = reply.total, !.next = reply.next]
     /\ bar' = [visible |-> count > 0 /\ (depth > 0 \/ view.next # 0 \/ view.total > count),
                hasPrev |-> depth > 0, hasNext |-> view.next # 0,
                from |-> depth * view.limit + 1]

\* applyNotesPageResponse and the pagination bar: the response is rendered under
\* the state of this moment.
Render(reply) ==
  LET count == Len(reply.page)
      depth == Len(view.stack)
  IN /\ shown' = reply.page
     /\ view' = [view EXCEPT !.total = reply.total, !.next = reply.next]
     /\ bar' = [visible |-> count > 0 /\ (depth > 0 \/ reply.next # 0 \/ reply.total > count),
                hasPrev |-> depth > 0, hasNext |-> reply.next # 0,
                from |-> depth * view.limit + 1]

\* populateNotesUI, when the response arrives.
ShowPage(s) ==
  /\ rpc[s].kind = "page" /\ rpc[s].answered
  /\ Render(rpc[s].reply)
  /\ origin' = [mode |-> rpc[s].mode, token |-> rpc[s].token]
  /\ rpc' = [rpc EXCEPT ![s] = Free]
  /\ UNCHANGED notes

\* A write has succeeded: AddTags and DeleteNote refresh the current page,
\* UpdateNote and CreateNote start a fresh list.
AfterChange(s) ==
  /\ rpc[s].kind \notin {"free", "page"} /\ rpc[s].answered
  /\ IF ~rpc[s].ok THEN rpc' = [rpc EXCEPT ![s] = Free] /\ UNCHANGED view
     ELSE \E limit \in Limits :
       IF rpc[s].kind \in {"tag", "delete"} THEN FetchFrom(s, view, view.token, limit)
       ELSE FetchFrom(s, FreshView("list", limit), 0, limit)
  /\ UNCHANGED <<notes, shown, bar, origin>>

\* The RPC fails, before or after the server has carried it out.
Lose(s) ==
  /\ world.faults /\ rpc[s].kind # "free"
  /\ rpc' = [rpc EXCEPT ![s] = Free]
  /\ UNCHANGED <<notes, view, shown, bar, origin>>

\* Another client of the same user (the MCP server, another tab) writes.
OtherClient == \E n \in world.ids, kind \in {"create", "update", "delete"} :
  /\ world.others /\ CanWrite(kind, n) /\ (kind = "create" => n \notin Known)
  /\ notes' = Written(kind, n)
  /\ UNCHANGED <<view, shown, bar, origin, rpc>>

Init ==
  /\ world \in Worlds
  /\ notes = world.stored
  /\ view = FreshView("list", 10)
  /\ shown = <<>>
  /\ bar = [visible |-> FALSE, hasPrev |-> FALSE, hasNext |-> FALSE, from |-> 1]
  /\ origin = [mode |-> "list", token |-> 0]
  /\ rpc = [s \in AllSlots |-> Free]

Step ==
  \/ \E s \in Slots :
       \/ Start(s) \/ NextPage(s) \/ PreviousPage(s) \/ Change(s)
       \/ Serve(s) \/ ShowPage(s) \/ AfterChange(s) \/ Lose(s)
  \/ OtherClient
Next == Step /\ UNCHANGED world

Spec == Init /\ [][Next]_vars
-----------------------------------------------------------------------------
\* The label "Showing 11-20 of 25" names the notes that are displayed, while
\* RPCs do not overlap or fail.
SummaryNamesDisplayed == Calm /\ shown # <<>> => bar.from = origin.token + 1

\* "pageTokenStack records prior tokens so "Previous" can walk back"
\* (notes-pagination.ts:5): a click on Previous asks for an earlier page,
\* while RPCs do not overlap or fail.
PreviousGoesBack ==
  [][Calm /\ (\E s \in Slots : PreviousPage(s)) => view'.token < view.token]_vars

\* Walking back ends on the first page, whatever RPCs overlapped or failed.
WalkBackEndsAtStart == Head(Append(view.stack, view.token)) = 0

\* The cursor that Next uses is the one right behind the notes displayed,
\* whatever order the responses arrived in, and there are notes behind it when
\* the server said so.
CursorFollowsDisplayed ==
  view.next # 0 => /\ view.next = origin.token + Len(shown)
                   /\ view.next < view.total

\* When nothing is under way, every matching note is displayed or can be
\* reached with Next and Previous (unless the page displayed is empty), and
\* deleted notes are not displayed any more.
AllNotesReachable == Calm /\ Quiet /\ shown # <<>> =>
  /\ view.mode = origin.mode
  /\ shown = SubSeq(Matching(view.mode), origin.token + 1, origin.token + Len(shown))
  /\ origin.token > 0 => bar.visible /\ bar.hasPrev /\ view.stack # <<>>
  /\ origin.token + Len(shown) < Len(Matching(view.mode)) =>
       bar.visible /\ bar.hasNext /\ view.next # 0
-----------------------------------------------------------------------------
\* The inductive invariant behind them.

\* What the server tells of a page: the next token lies right behind it.
ReplyOK(token, reply) ==
  /\ reply.page \in Seq(Notes) /\ reply.total \in Nat /\ reply.next \in Nat
  /\ reply.next # 0 => reply.next = token + Len(reply.page) /\ reply.next < reply.total

RpcOK(q) ==
  \/ q = Free
  \/ /\ q.kind = "page" /\ q.mode \in Modes /\ q.token \in Nat /\ q.limit \in Nat \ {0}
     /\ q.answered \in BOOLEAN /\ (q.answered => ReplyOK(q.token, q.reply))
  \/ /\ q.kind \in {"tag", "delete", "update", "create"} /\ q.note \in Notes
     /\ q.answered \in BOOLEAN /\ (q.answered => q.ok \in BOOLEAN)

ViewTypeOK ==
  /\ world \in Worlds /\ notes \in Seq(Notes) /\ shown \in Seq(Notes)
  /\ view \in [mode : Modes, limit : Nat, token : Nat, next : Nat, total : Nat,
               stack : Seq(Nat)]
  /\ bar \in [visible : BOOLEAN, hasPrev : BOOLEAN, hasNext : BOOLEAN, from : Nat]
  /\ origin \in [mode : Modes, token : Nat]
  /\ DOMAIN rpc = AllSlots /\ \A s \in AllSlots : RpcOK(rpc[s])

\* With one page size the tokens are its multiples.
Multiples == Calm => \A limit \in Limits :
  /\ view.token = Len(view.stack) * limit
  /\ \A k \in DOMAIN view.stack : view.stack[k] = (k - 1) * limit

\* A page under way is the one that the view waits for, and once answered it
\* shows the owner's notes of this moment.
PageAwaited == Calm => \A s \in Slots : rpc[s].kind = "page" =>
  /\ rpc[s].mode = view.mode /\ rpc[s].token = view.token
  /\ rpc[s].limit = view.limit /\ view.limit \in Limits
  /\ rpc[s].answered => rpc[s].reply = PageOf(rpc[s].mode, rpc[s].token, rpc[s].limit)

\* Otherwise the view is that of the page displayed, which is full when it has
\* a successor.
PageDisplayed == Calm => \A s \in Slots : rpc[s].kind # "page" =>
  /\ origin = [mode |-> view.mode, token |-> view.token]
  /\ view.next # 0 => Len(shown) \in Limits

\* The page displayed is the server's, and the bar leads to all others.
UpToDate ==
  /\ shown = SubSeq(Matching(view.mode), origin.token + 1, origin.token + Len(shown))
  /\ origin.token > 0 => bar.visible /\ bar.hasPrev /\ view.stack # <<>>
  /\ origin.token + Len(shown) < Len(Matching(view.mode)) =>
       bar.visible /\ bar.hasNext /\ view.next # 0

\* That is so unless a page is under way or about to be fetched.
DisplayCurrent == Calm /\ shown # <<>> => \A s \in Slots :
  rpc[s].kind = "free" \/ (rpc[s].kind # "page" /\ (rpc[s].answered => ~rpc[s].ok)) => UpToDate

ViewInv ==
  /\ ViewTypeOK /\ WalkBackEndsAtStart /\ CursorFollowsDisplayed
  /\ Multiples /\ PageAwaited /\ PageDisplayed /\ SummaryNamesDisplayed /\ DisplayCurrent

-----------------------------------------------------------------------------
\* "totalSize (total matching records before the limit is applied)"
\* (README.md:382).
TotalCountsMatches ==
  [][\A s \in Slots : Serve(s) /\ rpc[s].kind = "page" =>
       rpc'[s].reply.total = Len(Matching(rpc[s].mode))]_vars
=============================================================================
