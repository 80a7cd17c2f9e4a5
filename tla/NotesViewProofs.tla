-------------------------- MODULE NotesViewProofs --------------------------
(***************************************************************************)
(* Proofs about NotesView, for any notes, page sizes, RPCs under way and   *)
(* circumstances.  The argument is the inductive invariant ViewInv.        *)
(***************************************************************************)
EXTENDS NotesView, FiniteSetTheorems, SequenceTheorems, WellFoundedInduction, TLAPS

-----------------------------------------------------------------------------
\* Picking the elements at some places of a sequence.

LEMMA Least ==
  ASSUME NEW T \in SUBSET Nat, T # {}
  PROVE  \E n \in T : \A m \in T : n <= m
<1>1. PICK n \in T : \A m \in T : ~ (<<m, n>> \in OpToRel(<, Nat))
  BY WFMin, NatLessThanWellFounded
<1>2. \A m \in T : ~ (m < n)
  BY <1>1 DEF OpToRel
<1>. QED  BY <1>2

LEMMA PlacesFinite ==
  ASSUME NEW n \in Nat, NEW places \in SUBSET (1 .. n)
  PROVE  IsFiniteSet(places) /\ Cardinality(places) \in Nat
<1>1. IsFiniteSet(1 .. n)
  BY FS_Interval
<1>2. IsFiniteSet(places)
  BY <1>1, FS_Subset
<1>. QED  BY <1>2, FS_CardinalityType

\* Every number up to their number is the rank of one of them.
LEMMA RankExists ==
  ASSUME NEW n \in Nat, NEW places \in SUBSET (1 .. n), NEW k \in 1 .. Cardinality(places)
  PROVE  \E i \in places : Cardinality({j \in places : j <= i}) = k
<1> DEFINE upTo(m) == {j \in places : j <= m}
<1>1. IsFiniteSet(places) /\ Cardinality(places) \in Nat
  BY PlacesFinite
<1>2. \A m \in Nat : IsFiniteSet(upTo(m)) /\ Cardinality(upTo(m)) \in Nat
  <2> SUFFICES ASSUME NEW m \in Nat
               PROVE  IsFiniteSet(upTo(m)) /\ Cardinality(upTo(m)) \in Nat
    OBVIOUS
  <2>1. upTo(m) \in SUBSET places
    OBVIOUS
  <2>. HIDE DEF upTo
  <2>2. IsFiniteSet(upTo(m))
    BY <1>1, <2>1, FS_Subset
  <2>. QED  BY <2>2, FS_CardinalityType
<1>0. \A j \in places : j \in Nat /\ 1 <= j /\ j <= n
  OBVIOUS
<1>3. upTo(n) = places /\ Cardinality(upTo(0)) = 0
  <2>1. upTo(n) = places
    BY <1>0
  <2>2. upTo(0) = {}
    <3>1. \A j \in places : ~(j <= 0)
      BY <1>0
    <3>. QED  BY <3>1
  <2>. QED  BY <2>1, <2>2, FS_EmptySet
<1> DEFINE enough == {m \in Nat : Cardinality(upTo(m)) >= k}
<1>4. n \in enough /\ 0 \notin enough
  BY <1>1, <1>3
<1>5. PICK m \in enough : \A x \in enough : m <= x
  <2>. HIDE DEF enough
  <2>1. enough \in SUBSET Nat
    BY DEF enough
  <2>. QED  BY <1>4, <2>1, Least
<1>6. m \in Nat \ {0} /\ m - 1 \in Nat /\ m - 1 \notin enough
  <2>1. m \in Nat /\ m # 0
    BY <1>4, <1>5
  <2>2. m - 1 \in enough => m <= m - 1
    BY <1>5
  <2>. HIDE DEF enough
  <2>. QED  BY <2>1, <2>2
<1>7. Cardinality(upTo(m)) >= k /\ ~(Cardinality(upTo(m - 1)) >= k)
  BY <1>6
<1>8. m \in places
  <2> SUFFICES ASSUME m \notin places PROVE FALSE
    OBVIOUS
  <2>1. upTo(m) = upTo(m - 1)
    <3>1. \A j \in places : j <= m <=> j <= m - 1
      BY <1>0, <1>6
    <3>. QED  BY <3>1
  <2>. QED  BY <1>7, <2>1
<1>9. upTo(m) = upTo(m - 1) \cup {m} /\ m \notin upTo(m - 1)
  <2>1. \A j \in places : j <= m <=> j <= m - 1 \/ j = m
    BY <1>0, <1>6
  <2>2. m <= m /\ ~(m <= m - 1)
    BY <1>6
  <2>. QED  BY <1>8, <2>1, <2>2
<1>10. Cardinality(upTo(m)) = Cardinality(upTo(m - 1)) + 1
  BY <1>2, <1>6, <1>9, FS_AddElement
<1>11. Cardinality(upTo(m)) = k
  <2>1. Cardinality(upTo(m - 1)) \in Nat
    BY <1>2, <1>6
  <2>2. k \in Nat
    BY <1>1
  <2>. HIDE DEF upTo
  <2>. QED  BY <1>7, <1>10, <2>1, <2>2
<1>. QED  BY <1>8, <1>11

LEMMA AtType ==
  ASSUME NEW S, NEW s \in Seq(S), NEW places \in SUBSET (1 .. Len(s))
  PROVE  At(s, places) \in Seq(S)
<1> DEFINE Place(k) == CHOOSE i \in places : Cardinality({j \in places : j <= i}) = k
           size == Cardinality(places)
<1>1. Len(s) \in Nat /\ \A i \in 1 .. Len(s) : s[i] \in S
  BY ElementOfSeq, LenProperties
<1>2. size \in Nat
  BY <1>1, PlacesFinite
<1>3. \A k \in 1 .. size : Place(k) \in places
  BY <1>1, RankExists
<1>4. At(s, places) = [k \in 1 .. size |-> s[Place(k)]]
  BY DEF At
<1> HIDE DEF Place, size
<1>5. [k \in 1 .. size |-> s[Place(k)]] \in [1 .. size -> S]
  BY <1>1, <1>3
<1>. QED  BY <1>2, <1>4, <1>5, SeqDef

-----------------------------------------------------------------------------
\* Facts about the world, the server's pages and the token stack.

LEMMA WorldFacts ==
  ASSUME world \in Worlds
  PROVE  /\ Slots \subseteq AllSlots /\ Limits \subseteq Nat \ {0}
         /\ world.stored \in Seq(Notes) /\ world.ids \subseteq Notes
BY ViewAssumption DEF ViewAssumption, World, Slots, Limits

LEMMA WorldStays ==
  ASSUME UNCHANGED world
  PROVE  Slots' = Slots /\ Limits' = Limits /\ (Calm' <=> Calm)
BY DEF Slots, Limits, Calm

LEMMA CalmOne ==
  ASSUME Calm
  PROVE  /\ \A s, t \in Slots : s = t
         /\ \A k, l \in Limits : k = l
BY DEF Calm

LEMMA MatchingType ==
  ASSUME notes \in Seq(Notes), NEW mode
  PROVE  Matching(mode) \in Seq(Notes) /\ Len(Matching(mode)) \in Nat
<1> DEFINE places == {k \in DOMAIN notes : mode = "list" \/ notes[k] \in Hits}
<1>1. places \in SUBSET (1 .. Len(notes))
  BY ElementOfSeq, LenProperties
<1> HIDE DEF places
<1>2. At(notes, places) \in Seq(Notes)
  BY <1>1, AtType
<1>3. Matching(mode) = At(notes, places)
  BY DEF Matching, places
<1>. QED  BY <1>2, <1>3, LenProperties

LEMMA WrittenType ==
  ASSUME notes \in Seq(Notes), NEW kind, NEW n \in Notes
  PROVE  Written(kind, n) \in Seq(Notes)
<1> DEFINE places == {k \in DOMAIN notes : notes[k] # n}
<1>1. places \in SUBSET (1 .. Len(notes))
  BY ElementOfSeq, LenProperties
<1> HIDE DEF places
<1>2. At(notes, places) \in Seq(Notes)
  BY <1>1, AtType
<1>3. <<n>> \in Seq(Notes)
  OBVIOUS
<1>4. <<n>> \o At(notes, places) \in Seq(Notes)
  BY <1>2, <1>3, ConcatProperties
<1>5. Written(kind, n) = IF kind = "delete" THEN At(notes, places)
                         ELSE <<n>> \o At(notes, places)
  BY DEF Written, places
<1>. QED  BY <1>2, <1>4, <1>5

\* A page that is not empty lies where it was asked for, and is full when there
\* is a next one.
LEMMA PageFacts ==
  ASSUME notes \in Seq(Notes), NEW mode, NEW offset \in Nat, NEW limit \in Nat \ {0}
  PROVE  LET reply == PageOf(mode, offset, limit)
             all == Matching(mode)
         IN /\ ReplyOK(offset, reply)
            /\ reply.page # <<>> => reply.page = SubSeq(all, offset + 1, offset + Len(reply.page))
            /\ reply.page # <<>> /\ offset + Len(reply.page) < Len(all) => reply.next # 0
            /\ reply.next # 0 => Len(reply.page) = limit
<1> DEFINE all == Matching(mode)
           end == IF offset + limit < Len(all) THEN offset + limit ELSE Len(all)
           page == SubSeq(all, offset + 1, end)
           total == IF page = <<>> THEN 0 ELSE Len(all)
           next == NextSearchPageToken(offset, Len(page), total)
           reply == PageOf(mode, offset, limit)
<1>1. all \in Seq(Notes) /\ Len(all) \in Nat
  BY MatchingType
<1>2. reply.page = page /\ reply.total = total /\ reply.next = next
  BY DEF PageOf
<1> HIDE DEF all, reply
<1>3. end \in Nat /\ end <= Len(all)
  BY <1>1
<1>4. page \in Seq(Notes) /\ Len(page) = IF offset + 1 <= end THEN end - offset ELSE 0
  <2>1. \A i \in offset + 1 .. end : all[i] \in Notes
    BY <1>1, <1>3, ElementOfSeq
  <2>2. page \in Seq(Notes) /\ Len(page) = IF offset + 1 <= end THEN end - (offset + 1) + 1 ELSE 0
    <3>. HIDE DEF end
    <3>. QED  BY <1>3, <2>1, SubSeqProperties
  <2>. QED  BY <1>3, <2>2
<1>5. page # <<>> => Len(page) # 0
  BY <1>4, EmptySeq
<1>6. page # <<>> => end = offset + Len(page) /\ total = Len(all)
  BY <1>3, <1>4, <1>5
<1>7. Len(page) \in Nat /\ total \in Nat
  BY <1>1, <1>4, LenProperties
<1>8. next \in Nat /\ (next # 0 => Len(page) # 0 /\ next = offset + Len(page) /\ next < total)
  <2>. HIDE DEF page, total
  <2>. QED  BY <1>7 DEF NextSearchPageToken
<1>9. Len(page) # 0 => page # <<>>
  BY EmptySeq
<1>10. page # <<>> /\ offset + Len(page) < Len(all) => next # 0
  <2>. HIDE DEF page, total
  <2>. QED  BY <1>5, <1>6, <1>7 DEF NextSearchPageToken
<1>11. next # 0 => Len(page) = limit
  <2> SUFFICES ASSUME next # 0 PROVE Len(page) = limit
    OBVIOUS
  <2>1. page # <<>> /\ offset + Len(page) < Len(all) /\ end = offset + Len(page)
    <3>. HIDE DEF page, next, total, end
    <3>. QED  BY <1>6, <1>8, <1>9
  <2>2. end < Len(all)
    <3>. HIDE DEF page, end
    <3>. QED  BY <2>1
  <2>3. end = offset + limit
    BY <2>2
  <2>. HIDE DEF page, end
  <2>. QED  BY <1>7, <2>1, <2>3
<1>12. page # <<>> => page = SubSeq(all, offset + 1, offset + Len(page))
  BY <1>6
<1> HIDE DEF page, total, next
<1>13. ReplyOK(offset, reply)
  BY <1>2, <1>4, <1>7, <1>8 DEF ReplyOK
<1>. QED  BY <1>2, <1>10, <1>11, <1>12, <1>13 DEF all, reply

LEMMA Times ==
  ASSUME NEW k \in Nat, NEW l \in Nat
  PROVE  k * l \in Nat /\ (k + 1) * l = k * l + l
OBVIOUS

\* Next pushes the token of the page left behind.
LEMMA Pushed ==
  ASSUME NEW stack \in Seq(Nat), NEW token \in Nat, NEW next
  PROVE  LET new == Append(stack, token) IN
         /\ new \in Seq(Nat) /\ Len(new) = Len(stack) + 1 /\ Len(stack) \in Nat
         /\ \A k \in 1 .. Len(stack) : new[k] = stack[k]
         /\ new[Len(stack) + 1] = token
         /\ DOMAIN new = 1 .. Len(stack) + 1 /\ DOMAIN stack = 1 .. Len(stack)
         /\ Head(Append(new, next)) = Head(Append(stack, token))
<1> DEFINE new == Append(stack, token)
<1>1. /\ new \in Seq(Nat) /\ Len(new) = Len(stack) + 1 /\ new # <<>>
      /\ \A k \in 1 .. Len(stack) : new[k] = stack[k]
      /\ new[Len(stack) + 1] = token
  BY AppendProperties
<1>2. Head(Append(new, next)) = Head(new)
  <2>. HIDE DEF new
  <2>. QED  BY <1>1, HeadTailAppend
<1>3. Len(stack) \in Nat /\ DOMAIN stack = 1 .. Len(stack) /\ DOMAIN new = 1 .. Len(stack) + 1
  <2>. HIDE DEF new
  <2>. QED  BY <1>1, LenProperties
<1>. QED  BY <1>1, <1>2, <1>3

\* Previous pops it again.
LEMMA Popped ==
  ASSUME NEW stack \in Seq(Nat), stack # <<>>
  PROVE  /\ Front(stack) \in Seq(Nat) /\ Len(Front(stack)) = Len(stack) - 1
         /\ Len(stack) \in Nat \ {0} /\ Last(stack) = stack[Len(stack)] /\ Last(stack) \in Nat
         /\ DOMAIN Front(stack) = 1 .. Len(stack) - 1 /\ DOMAIN stack = 1 .. Len(stack)
         /\ \A k \in 1 .. Len(stack) - 1 : Front(stack)[k] = stack[k]
         /\ \A token : Head(Append(Front(stack), Last(stack))) = Head(Append(stack, token))
<1> DEFINE n == Len(stack)
<1>1. n \in Nat \ {0} /\ DOMAIN stack = 1 .. n /\ \A k \in 1 .. n : stack[k] \in Nat
  BY LenProperties, EmptySeq, ElementOfSeq
<1>2. Last(stack) = stack[n] /\ Last(stack) \in Nat
  BY <1>1 DEF Last
<1>3. /\ Front(stack) \in Seq(Nat) /\ Len(Front(stack)) = n - 1
      /\ \A k \in 1 .. n - 1 : Front(stack)[k] = stack[k]
  <2>1. \A k \in 1 .. n - 1 : stack[k] \in Nat
    BY <1>1
  <2>2. Front(stack) = SubSeq(stack, 1, n - 1)
    BY DEF Front
  <2>. HIDE DEF n
  <2>3. n - 1 \in Int /\ 1 \in Int /\ (n - 1) - 1 + 1 = n - 1
    BY <1>1
  <2>4. /\ Front(stack) \in Seq(Nat)
        /\ Len(Front(stack)) = IF 1 <= n - 1 THEN (n - 1) - 1 + 1 ELSE 0
        /\ \A k \in 1 .. (n - 1) - 1 + 1 : Front(stack)[k] = stack[1 + k - 1]
    BY <2>1, <2>2, <2>3, SubSeqProperties
  <2>5. \A k \in 1 .. n - 1 : 1 + k - 1 = k
    BY <2>3
  <2>. QED  BY <1>1, <2>3, <2>4, <2>5
<1>4. DOMAIN Front(stack) = 1 .. n - 1
  BY <1>3, LenProperties
<1>5. \A token : Head(Append(stack, token)) = Head(stack)
  BY HeadTailAppend
<1>6. Head(Append(Front(stack), Last(stack))) = Head(stack)
  <2>1. CASE n = 1
    <3>1. Front(stack) = <<>>
      BY <1>3, <2>1, EmptySeq
    <3>. QED  BY <1>2, <1>3, <2>1, <3>1, HeadTailAppend
  <2>2. CASE n # 1
    <3>1. Front(stack) # <<>> /\ Front(stack)[1] = stack[1]
      BY <1>1, <1>3, <2>2, EmptySeq
    <3>2. Head(Append(Front(stack), Last(stack))) = Head(Front(stack))
      BY <1>3, <3>1, HeadTailAppend
    <3>. QED  BY <1>3, <3>1, <3>2
  <2>. QED  BY <2>1, <2>2
<1>. QED  BY <1>1, <1>2, <1>3, <1>4, <1>5, <1>6

-----------------------------------------------------------------------------
\* The inductive invariant.

ViewRecord == [mode : Modes, limit : Nat, token : Nat, next : Nat, total : Nat,
               stack : Seq(Nat)]

LEMMA FreshFacts ==
  ASSUME NEW mode \in Modes, NEW limit \in Nat
  PROVE  LET v == FreshView(mode, limit) IN
         /\ v \in ViewRecord /\ v.mode = mode /\ v.limit = limit
         /\ v.token = 0 /\ v.next = 0 /\ v.stack = <<>>
BY EmptySeq DEF FreshView, ViewRecord

LEMMA EmptyFacts ==
  Len(<<>>) = 0 /\ Head(Append(<<>>, 0)) = 0 /\ \A k \in DOMAIN <<>> : FALSE
<1>1. <<>> \in Seq(Nat)
  BY EmptySeq
<1>. QED  BY <1>1, HeadTailAppend

LEMMA InitView == Init => ViewInv
<1> SUFFICES ASSUME Init PROVE ViewInv
  OBVIOUS
<1>1. /\ world \in Worlds /\ notes = world.stored /\ shown = <<>> /\ view = FreshView("list", 10)
      /\ \A s \in AllSlots : rpc[s] = Free
      /\ DOMAIN rpc = AllSlots
      /\ bar = [visible |-> FALSE, hasPrev |-> FALSE, hasNext |-> FALSE, from |-> 1]
      /\ origin = [mode |-> "list", token |-> 0]
  BY DEF Init
<1>2. "list" \in Modes
  BY DEF Modes
<1>3. /\ view \in ViewRecord /\ view.mode = "list"
      /\ view.token = 0 /\ view.next = 0 /\ view.stack = <<>>
  BY <1>1, <1>2, FreshFacts
<1>4. ViewTypeOK
  <2>1. \A s \in AllSlots : RpcOK(rpc[s])
    BY <1>1 DEF RpcOK
  <2>2. bar \in [visible : BOOLEAN, hasPrev : BOOLEAN, hasNext : BOOLEAN, from : Nat]
    BY <1>1
  <2>3. origin \in [mode : Modes, token : Nat]
    BY <1>1, <1>2
  <2>4. notes \in Seq(Notes) /\ shown \in Seq(Notes)
    BY <1>1, WorldFacts, EmptySeq
  <2>. QED  BY <1>1, <1>3, <2>1, <2>2, <2>3, <2>4 DEF ViewTypeOK, ViewRecord
<1>5. WalkBackEndsAtStart /\ CursorFollowsDisplayed
  BY <1>3, EmptyFacts DEF WalkBackEndsAtStart, CursorFollowsDisplayed
<1>6. Multiples
  <2>1. \A limit \in Limits : limit \in Nat
    BY <1>1, WorldFacts
  <2>2. \A limit \in Nat : 0 = 0 * limit
    OBVIOUS
  <2>. QED  BY <1>3, <2>1, <2>2, EmptyFacts DEF Multiples
<1>7. PageAwaited
  BY <1>1, WorldFacts DEF PageAwaited, Free
<1>8. PageDisplayed
  <2>1. origin = [mode |-> view.mode, token |-> view.token]
    BY <1>1, <1>3
  <2>. QED  BY <1>3, <2>1 DEF PageDisplayed
<1>9. SummaryNamesDisplayed /\ DisplayCurrent
  BY <1>1 DEF SummaryNamesDisplayed, DisplayCurrent
<1>. QED  BY <1>4, <1>5, <1>6, <1>7, <1>8, <1>9 DEF ViewInv

\* An RPC as it is sent.
Asked(v, token, limit) ==
  [kind |-> "page", mode |-> v.mode, token |-> token, limit |-> limit, answered |-> FALSE]

LEMMA RpcChanges ==
  ASSUME ViewTypeOK, NEW s \in Slots, NEW q, rpc' = [rpc EXCEPT ![s] = q]
  PROVE  /\ s \in AllSlots /\ DOMAIN rpc' = AllSlots /\ rpc'[s] = q
         /\ \A t \in AllSlots \ {s} : rpc'[t] = rpc[t]
BY WorldFacts DEF ViewTypeOK

\* A page is asked for: what is displayed stays for now.
LEMMA FetchKeeps ==
  ASSUME ViewInv, UNCHANGED <<world, notes, shown, bar, origin>>,
         NEW s \in Slots, NEW v \in ViewRecord, NEW token \in Nat, NEW limit \in Limits,
         FetchFrom(s, v, token, limit),
         Head(Append(v.stack, token)) = 0,
         v.next # 0 => v.next = view.next /\ v.total = view.total,
         Calm => /\ token = Len(v.stack) * limit
                 /\ \A k \in DOMAIN v.stack : v.stack[k] = (k - 1) * limit
  PROVE  ViewInv'
<1> USE DEF ViewInv
<1>1. limit \in Nat \ {0} /\ world \in Worlds
  BY WorldFacts DEF ViewTypeOK
<1>2. /\ view' \in ViewRecord /\ view'.mode = v.mode /\ view'.limit = limit
      /\ view'.token = token /\ view'.next = v.next /\ view'.total = v.total
      /\ view'.stack = v.stack
  BY <1>1 DEF FetchFrom, ViewRecord
<1> DEFINE q == Asked(v, token, limit)
<1>3. /\ q.kind = "page" /\ q.mode = v.mode /\ q.token = token /\ q.limit = limit
      /\ q.answered = FALSE
  BY DEF Asked
<1>4. rpc' = [rpc EXCEPT ![s] = q]
  BY DEF FetchFrom, Asked
<1>5. v.mode \in Modes
  BY DEF ViewRecord
<1> HIDE DEF q
<1>6. /\ DOMAIN rpc' = AllSlots /\ rpc'[s] = q /\ s \in AllSlots
      /\ \A t \in AllSlots \ {s} : rpc'[t] = rpc[t]
  BY <1>4, RpcChanges
<1>7. Slots' = Slots /\ Limits' = Limits /\ (Calm' <=> Calm) /\ Slots \subseteq AllSlots
  BY <1>1, WorldStays, WorldFacts
<1>8. Calm => \A t \in Slots : t = s
  BY CalmOne
<1>9. ViewTypeOK'
  <2>1. RpcOK(q)
    BY <1>3, <1>5, <1>1 DEF RpcOK
  <2>2. \A t \in AllSlots : RpcOK(rpc'[t])
    BY <1>6, <2>1 DEF ViewTypeOK
  <2>. QED  BY <1>2, <1>6, <2>2 DEF ViewTypeOK, ViewRecord
<1>10. WalkBackEndsAtStart'
  BY <1>2 DEF WalkBackEndsAtStart
<1>11. CursorFollowsDisplayed'
  BY <1>2 DEF CursorFollowsDisplayed
<1>12. Multiples'
  BY <1>2, <1>7, CalmOne DEF Multiples
<1>13. PageAwaited'
  BY <1>2, <1>3, <1>6, <1>7, <1>8 DEF PageAwaited
<1>14. PageDisplayed' /\ DisplayCurrent'
  <2>1. Calm => \A t \in Slots : rpc'[t].kind = "page"
    BY <1>3, <1>6, <1>8
  <2>. QED  BY <1>7, <2>1 DEF PageDisplayed, DisplayCurrent
<1>15. SummaryNamesDisplayed'
  BY <1>7 DEF SummaryNamesDisplayed
<1>. QED  BY <1>9, <1>10, <1>11, <1>12, <1>13, <1>14, <1>15

\* A click asks for a page.
LEMMA StartKeeps ==
  ASSUME ViewInv, UNCHANGED world, NEW s \in Slots, Start(s)
  PROVE  ViewInv'
<1>1. PICK mode \in Modes, limit \in Limits : FetchFrom(s, FreshView(mode, limit), 0, limit)
  BY DEF Start
<1> DEFINE v == FreshView(mode, limit)
<1>2. limit \in Nat
  BY WorldFacts DEF ViewInv, ViewTypeOK
<1>3. v \in ViewRecord /\ v.next = 0 /\ v.stack = <<>>
  BY <1>2, FreshFacts
<1>4. FetchFrom(s, v, 0, limit) /\ UNCHANGED <<notes, shown, bar, origin>>
  BY <1>1 DEF Start
<1> HIDE DEF v
<1>5. Head(Append(v.stack, 0)) = 0 /\ \A k \in DOMAIN v.stack : v.stack[k] = (k - 1) * limit
  BY <1>3, EmptyFacts
<1>6. 0 = Len(v.stack) * limit
  BY <1>2, <1>3, EmptyFacts
<1>. QED  BY <1>3, <1>4, <1>5, <1>6, FetchKeeps

LEMMA ViewFacts ==
  ASSUME ViewInv
  PROVE  /\ view \in ViewRecord /\ view.stack \in Seq(Nat) /\ view.mode \in Modes
         /\ view.token \in Nat /\ view.next \in Nat /\ view.total \in Nat
         /\ shown \in Seq(Notes) /\ notes \in Seq(Notes) /\ origin.token \in Nat
         /\ Len(shown) \in Nat /\ Limits \subseteq Nat \ {0} /\ Slots \subseteq AllSlots
         /\ \A s \in Slots : RpcOK(rpc[s])
BY WorldFacts, LenProperties DEF ViewInv, ViewTypeOK, ViewRecord

LEMMA NextPageKeeps ==
  ASSUME ViewInv, UNCHANGED world, NEW s \in Slots, NextPage(s)
  PROVE  ViewInv'
<1> DEFINE v == [view EXCEPT !.stack = Append(view.stack, view.token)]
           n == Len(view.stack)
<1>1. PICK limit \in Limits : FetchFrom(s, v, view.next, limit)
  BY ViewFacts DEF NextPage, ViewRecord
<1>2. UNCHANGED <<notes, shown, bar, origin>> /\ rpc[s] = Free /\ view.next # 0
  BY DEF NextPage
<1>3. /\ Append(view.stack, view.token) \in Seq(Nat)
      /\ Len(Append(view.stack, view.token)) = n + 1 /\ n \in Nat
      /\ \A k \in 1 .. n : Append(view.stack, view.token)[k] = view.stack[k]
      /\ Append(view.stack, view.token)[n + 1] = view.token
      /\ DOMAIN Append(view.stack, view.token) = 1 .. n + 1 /\ DOMAIN view.stack = 1 .. n
      /\ Head(Append(Append(view.stack, view.token), view.next))
           = Head(Append(view.stack, view.token))
  BY ViewFacts, Pushed
<1>4. /\ v \in ViewRecord /\ v.stack = Append(view.stack, view.token)
      /\ v.next = view.next /\ v.total = view.total
  BY <1>3, ViewFacts DEF ViewRecord
<1> HIDE DEF v, n
<1>5. Head(Append(v.stack, view.next)) = 0
  BY <1>3, <1>4 DEF ViewInv, WalkBackEndsAtStart
<1>6. Calm => /\ view.next = Len(v.stack) * limit
              /\ \A k \in DOMAIN v.stack : v.stack[k] = (k - 1) * limit
  <2> SUFFICES ASSUME Calm
               PROVE  /\ view.next = Len(v.stack) * limit
                      /\ \A k \in DOMAIN v.stack : v.stack[k] = (k - 1) * limit
    OBVIOUS
  <2>1. view.token = n * limit /\ \A k \in 1 .. n : view.stack[k] = (k - 1) * limit
    BY <1>3 DEF ViewInv, Multiples, n
  <2>2. rpc[s].kind # "page"
    BY <1>2 DEF Free
  <2>3. origin.token = view.token /\ Len(shown) = limit
    <3>1. origin = [mode |-> view.mode, token |-> view.token] /\ Len(shown) \in Limits
      BY <1>2, <2>2 DEF ViewInv, PageDisplayed
    <3>. QED  BY <3>1, CalmOne
  <2>4. view.next = view.token + limit
    BY <1>2, <2>3 DEF ViewInv, CursorFollowsDisplayed
  <2>5. limit \in Nat /\ (n + 1) * limit = n * limit + limit
    BY <1>3, ViewFacts, Times
  <2>6. view.next = (n + 1) * limit
    BY <2>1, <2>4, <2>5
  <2>7. \A k \in 1 .. n + 1 : v.stack[k] = (k - 1) * limit
    <3> SUFFICES ASSUME NEW k \in 1 .. n + 1 PROVE v.stack[k] = (k - 1) * limit
      OBVIOUS
    <3>1. CASE k \in 1 .. n
      BY <1>3, <1>4, <2>1, <3>1
    <3>2. CASE k = n + 1
      <4>1. k - 1 = n
        BY <1>3, <3>2
      <4>. QED  BY <1>3, <1>4, <2>1, <3>2, <4>1
    <3>. QED  BY <1>3, <3>1, <3>2
  <2>. QED  BY <1>3, <1>4, <2>6, <2>7
<1>. QED  BY <1>1, <1>2, <1>4, <1>5, <1>6, ViewFacts, FetchKeeps

LEMMA PreviousPageKeeps ==
  ASSUME ViewInv, UNCHANGED world, NEW s \in Slots, PreviousPage(s)
  PROVE  ViewInv'
<1> DEFINE v == [view EXCEPT !.stack = Front(view.stack)]
           n == Len(view.stack)
           token == Last(view.stack)
<1>1. PICK limit \in Limits : FetchFrom(s, v, token, limit)
  BY ViewFacts DEF PreviousPage, ViewRecord
<1>2. UNCHANGED <<notes, shown, bar, origin>> /\ view.stack # <<>>
  BY DEF PreviousPage
<1>3. /\ Front(view.stack) \in Seq(Nat) /\ Len(Front(view.stack)) = n - 1
      /\ n \in Nat \ {0} /\ token = view.stack[n] /\ token \in Nat
      /\ DOMAIN Front(view.stack) = 1 .. n - 1 /\ DOMAIN view.stack = 1 .. n
      /\ \A k \in 1 .. n - 1 : Front(view.stack)[k] = view.stack[k]
      /\ Head(Append(Front(view.stack), token)) = Head(Append(view.stack, view.token))
  BY <1>2, ViewFacts, Popped
<1>4. /\ v \in ViewRecord /\ v.stack = Front(view.stack)
      /\ v.next = view.next /\ v.total = view.total
  BY <1>3, ViewFacts DEF ViewRecord
<1> HIDE DEF v, n, token
<1>5. Head(Append(v.stack, token)) = 0
  BY <1>3, <1>4 DEF ViewInv, WalkBackEndsAtStart
<1>6. Calm => /\ token = Len(v.stack) * limit
              /\ \A k \in DOMAIN v.stack : v.stack[k] = (k - 1) * limit
  <2> SUFFICES ASSUME Calm
               PROVE  /\ token = Len(v.stack) * limit
                      /\ \A k \in DOMAIN v.stack : v.stack[k] = (k - 1) * limit
    OBVIOUS
  <2>1. \A k \in 1 .. n : view.stack[k] = (k - 1) * limit
    BY <1>3 DEF ViewInv, Multiples
  <2>. QED  BY <1>3, <1>4, <2>1
<1>. QED  BY <1>1, <1>2, <1>3, <1>4, <1>5, <1>6, FetchKeeps

LEMMA PageOfStays ==
  ASSUME UNCHANGED notes
  PROVE  /\ \A mode : Matching(mode)' = Matching(mode)
         /\ \A mode, offset, limit : PageOf(mode, offset, limit)' = PageOf(mode, offset, limit)
BY DEF PageOf, Matching

LEMMA UpToDateStays ==
  ASSUME UNCHANGED <<notes, view, shown, bar, origin>>
  PROVE  UpToDate' <=> UpToDate
BY DEF UpToDate, Matching

\* The response of a write has come: the current page or a fresh list is
\* fetched, or nothing.
LEMMA AfterChangeKeeps ==
  ASSUME ViewInv, UNCHANGED world, NEW s \in Slots, AfterChange(s)
  PROVE  ViewInv'
<1>1. UNCHANGED <<notes, shown, bar, origin>> /\ rpc[s].kind \notin {"free", "page"}
      /\ rpc[s].answered
  BY DEF AfterChange
<1>2. CASE rpc[s].ok
  <2>1. PICK limit \in Limits :
          IF rpc[s].kind \in {"tag", "delete"} THEN FetchFrom(s, view, view.token, limit)
          ELSE FetchFrom(s, FreshView("list", limit), 0, limit)
    BY <1>2 DEF AfterChange
  <2>2. CASE FetchFrom(s, view, view.token, limit)
    <3>1. Head(Append(view.stack, view.token)) = 0
      BY DEF ViewInv, WalkBackEndsAtStart
    <3>2. Calm => /\ view.token = Len(view.stack) * limit
                  /\ \A k \in DOMAIN view.stack : view.stack[k] = (k - 1) * limit
      BY DEF ViewInv, Multiples
    <3>. QED  BY <1>1, <2>2, <3>1, <3>2, ViewFacts, FetchKeeps
  <2>3. CASE FetchFrom(s, FreshView("list", limit), 0, limit)
    <3> DEFINE v == FreshView("list", limit)
    <3>1. limit \in Nat /\ "list" \in Modes
      BY ViewFacts DEF Modes
    <3>2. v \in ViewRecord /\ v.next = 0 /\ v.stack = <<>>
      BY <3>1, FreshFacts
    <3>3. FetchFrom(s, v, 0, limit)
      BY <2>3
    <3> HIDE DEF v
    <3>4. Head(Append(v.stack, 0)) = 0
          /\ \A k \in DOMAIN v.stack : v.stack[k] = (k - 1) * limit
      BY <3>2, EmptyFacts
    <3>5. 0 = Len(v.stack) * limit
      BY <3>1, <3>2, EmptyFacts
    <3>. QED  BY <1>1, <3>2, <3>3, <3>4, <3>5, FetchKeeps
  <2>. QED  BY <2>1, <2>2, <2>3
<1>3. CASE ~rpc[s].ok
  <2> USE DEF ViewInv
  <2>1. rpc' = [rpc EXCEPT ![s] = Free] /\ UNCHANGED view
    BY <1>3 DEF AfterChange
  <2>2. /\ DOMAIN rpc' = AllSlots /\ rpc'[s] = Free /\ s \in AllSlots
        /\ \A t \in AllSlots \ {s} : rpc'[t] = rpc[t]
    BY <2>1, RpcChanges
  <2>3. Slots' = Slots /\ Limits' = Limits /\ (Calm' <=> Calm) /\ Slots \subseteq AllSlots
    BY WorldStays, WorldFacts DEF ViewTypeOK
  <2>4. Calm => \A t \in Slots : t = s
    BY CalmOne
  <2>5. ViewTypeOK'
    <3>1. \A t \in AllSlots : RpcOK(rpc'[t])
      BY <2>2 DEF ViewTypeOK, RpcOK
    <3>. QED  BY <1>1, <2>1, <2>2, <3>1 DEF ViewTypeOK
  <2>6. WalkBackEndsAtStart' /\ CursorFollowsDisplayed' /\ SummaryNamesDisplayed' /\ Multiples'
    BY <1>1, <2>1, <2>3
    DEF WalkBackEndsAtStart, CursorFollowsDisplayed, SummaryNamesDisplayed, Multiples
  <2>7. PageAwaited'
    BY <2>2, <2>3, <2>4 DEF PageAwaited, Free
  <2>8. PageDisplayed'
    BY <1>1, <2>1, <2>3, <2>4 DEF PageDisplayed
  <2>9. DisplayCurrent'
    <3>1. UpToDate => UpToDate'
      BY <1>1, <2>1, UpToDateStays
    <3>. QED  BY <1>1, <1>3, <2>3, <2>4, <3>1 DEF DisplayCurrent
  <2>. QED  BY <2>5, <2>6, <2>7, <2>8, <2>9
<1>. QED  BY <1>2, <1>3

\* A write is sent, or an RPC fails, or another client writes.
LEMMA ChangeKeeps ==
  ASSUME ViewInv, UNCHANGED world, NEW s \in Slots, Change(s)
  PROVE  ViewInv'
<1> USE DEF ViewInv
<1>1. PICK kind \in {"tag", "delete", "update", "create"}, n \in Notes : Send(s, kind, n)
  <2>1. Range(shown) \subseteq Notes /\ world.ids \subseteq Notes
    BY ViewFacts, WorldFacts, ElementOfSeq, LenProperties DEF Range, ViewTypeOK
  <2>. QED  BY <2>1 DEF Change
<1> DEFINE q == [kind |-> kind, note |-> n, answered |-> FALSE]
<1>2. /\ UNCHANGED <<notes, view, shown, bar, origin>> /\ rpc[s] = Free
      /\ rpc' = [rpc EXCEPT ![s] = q]
  BY <1>1 DEF Send
<1>3. q.kind = kind /\ q.note = n /\ q.answered = FALSE /\ kind # "page"
  OBVIOUS
<1> HIDE DEF q
<1>4. /\ DOMAIN rpc' = AllSlots /\ rpc'[s] = q /\ s \in AllSlots
      /\ \A t \in AllSlots \ {s} : rpc'[t] = rpc[t]
  BY <1>2, RpcChanges
<1>5. Slots' = Slots /\ Limits' = Limits /\ (Calm' <=> Calm) /\ Slots \subseteq AllSlots
  BY WorldStays, WorldFacts DEF ViewTypeOK
<1>6. Calm => \A t \in Slots : t = s
  BY CalmOne
<1>7. ViewTypeOK'
  <2>1. RpcOK(q)
    BY <1>3 DEF RpcOK
  <2>2. \A t \in AllSlots : RpcOK(rpc'[t])
    BY <1>4, <2>1 DEF ViewTypeOK
  <2>. QED  BY <1>2, <1>4, <2>2 DEF ViewTypeOK
<1>8. WalkBackEndsAtStart' /\ CursorFollowsDisplayed' /\ SummaryNamesDisplayed' /\ Multiples'
  BY <1>2, <1>5
  DEF WalkBackEndsAtStart, CursorFollowsDisplayed, SummaryNamesDisplayed, Multiples
<1>9. PageAwaited'
  BY <1>3, <1>4, <1>5, <1>6 DEF PageAwaited
<1>10. PageDisplayed'
  BY <1>2, <1>5, <1>6 DEF PageDisplayed, Free
<1>11. DisplayCurrent'
  <2>1. UpToDate => UpToDate'
    BY <1>2, UpToDateStays
  <2>2. rpc[s].kind = "free"
    BY <1>2 DEF Free
  <2>. QED  BY <1>2, <1>5, <1>6, <2>1, <2>2 DEF DisplayCurrent
<1>. QED  BY <1>7, <1>8, <1>9, <1>10, <1>11

LEMMA LoseKeeps ==
  ASSUME ViewInv, UNCHANGED world, NEW s \in Slots, Lose(s)
  PROVE  ViewInv'
<1> USE DEF ViewInv
<1>1. UNCHANGED <<notes, view, shown, bar, origin>> /\ rpc' = [rpc EXCEPT ![s] = Free]
  BY DEF Lose
<1>2. ~Calm'
  BY WorldStays DEF Lose, Calm
<1>3. DOMAIN rpc' = AllSlots /\ \A t \in AllSlots : RpcOK(rpc'[t])
  BY <1>1, RpcChanges DEF ViewTypeOK, RpcOK
<1>4. ViewTypeOK' /\ WalkBackEndsAtStart' /\ CursorFollowsDisplayed'
  BY <1>1, <1>3 DEF ViewTypeOK, WalkBackEndsAtStart, CursorFollowsDisplayed
<1>. QED  BY <1>2, <1>4
          DEF Multiples, PageAwaited, PageDisplayed, SummaryNamesDisplayed, DisplayCurrent

LEMMA OtherClientKeeps ==
  ASSUME ViewInv, UNCHANGED world, OtherClient
  PROVE  ViewInv'
<1> USE DEF ViewInv
<1>1. UNCHANGED <<view, shown, bar, origin, rpc>>
  BY DEF OtherClient
<1>2. ~Calm'
  BY WorldStays DEF OtherClient, Calm
<1>3. notes' \in Seq(Notes)
  BY ViewFacts, WrittenType, WorldFacts DEF OtherClient, ViewTypeOK
<1>4. ViewTypeOK' /\ WalkBackEndsAtStart' /\ CursorFollowsDisplayed'
  BY <1>1, <1>3 DEF ViewTypeOK, WalkBackEndsAtStart, CursorFollowsDisplayed
<1>. QED  BY <1>2, <1>4
          DEF Multiples, PageAwaited, PageDisplayed, SummaryNamesDisplayed, DisplayCurrent

\* The server answers: a page as the notes are now, a write by changing them.
LEMMA ServeKeeps ==
  ASSUME ViewInv, UNCHANGED world, NEW s \in Slots, Serve(s)
  PROVE  ViewInv'
<1> USE DEF ViewInv
<1> DEFINE old == rpc[s]
           page == [kind |-> "page", mode |-> old.mode, token |-> old.token,
                    limit |-> old.limit, answered |-> TRUE,
                    reply |-> PageOf(old.mode, old.token, old.limit)]
           write == [kind |-> old.kind, note |-> old.note, answered |-> TRUE,
                     ok |-> CanWrite(old.kind, old.note)]
           q == IF old.kind = "page" THEN page ELSE write
<1>1. /\ UNCHANGED <<view, shown, bar, origin>> /\ old.kind # "free" /\ ~old.answered
      /\ s \in DOMAIN rpc
  BY WorldFacts DEF Serve, ViewTypeOK
<1>2. rpc' = [rpc EXCEPT ![s] = q]
  BY <1>1 DEF Serve
<1>3. RpcOK(old) /\ notes \in Seq(Notes)
  BY ViewFacts
<1>4. /\ page.kind = "page" /\ page.mode = old.mode /\ page.token = old.token
      /\ page.limit = old.limit /\ page.answered = TRUE
      /\ page.reply = PageOf(old.mode, old.token, old.limit)
      /\ write.kind = old.kind /\ write.note = old.note /\ write.answered = TRUE
      /\ write.ok = CanWrite(old.kind, old.note)
  OBVIOUS
<1> HIDE DEF page, write
<1>5. RpcOK(q)
  <2>1. CASE old.kind = "page"
    <3>1. old.mode \in Modes /\ old.token \in Nat /\ old.limit \in Nat \ {0}
      BY <1>3, <2>1 DEF RpcOK, Free
    <3>2. ReplyOK(old.token, PageOf(old.mode, old.token, old.limit))
      BY <1>3, <3>1, PageFacts
    <3>3. ReplyOK(page.token, page.reply)
      BY <1>4, <3>2
    <3>. QED  BY <1>4, <2>1, <3>1, <3>3 DEF RpcOK
  <2>2. CASE old.kind # "page"
    <3>1. old.kind \in {"tag", "delete", "update", "create"} /\ old.note \in Notes
      BY <1>1, <1>3, <2>2 DEF RpcOK, Free
    <3>2. write.ok \in BOOLEAN
      BY <1>4 DEF CanWrite
    <3>. QED  BY <1>4, <2>2, <3>1, <3>2 DEF RpcOK
  <2>. QED  BY <2>1, <2>2
<1>6. notes' \in Seq(Notes)
  <2>1. CASE UNCHANGED notes
    BY <1>3, <2>1
  <2>2. CASE old.kind # "page" /\ notes' = Written(old.kind, old.note)
    <3>1. old.note \in Notes
      BY <1>1, <1>3, <2>2 DEF RpcOK, Free
    <3>. QED  BY <1>3, <2>2, <3>1, WrittenType
  <2>. QED  BY <2>1, <2>2 DEF Serve
<1>7. old.kind = "page" \/ ~CanWrite(old.kind, old.note) => UNCHANGED notes
  BY DEF Serve
<1>8. q.kind = old.kind /\ q.answered = TRUE
  BY <1>4
<1>9. old.kind # "page" => q.ok = CanWrite(old.kind, old.note)
  BY <1>4
<1>10. old.kind = "page" => /\ q.mode = old.mode /\ q.token = old.token /\ q.limit = old.limit
                            /\ q.reply = PageOf(old.mode, old.token, old.limit)
  BY <1>4
<1> HIDE DEF q
<1>11. /\ DOMAIN rpc' = AllSlots /\ rpc'[s] = q /\ s \in AllSlots
       /\ \A t \in AllSlots \ {s} : rpc'[t] = rpc[t]
  BY <1>2, RpcChanges
<1>12. Slots' = Slots /\ Limits' = Limits /\ (Calm' <=> Calm) /\ Slots \subseteq AllSlots
  BY WorldStays, WorldFacts DEF ViewTypeOK
<1>13. Calm => \A t \in Slots : t = s
  BY CalmOne
<1>14. ViewTypeOK'
  <2>1. \A t \in AllSlots : RpcOK(rpc'[t])
    BY <1>5, <1>11 DEF ViewTypeOK
  <2>. QED  BY <1>1, <1>6, <1>11, <2>1 DEF ViewTypeOK
<1>15. WalkBackEndsAtStart' /\ CursorFollowsDisplayed' /\ SummaryNamesDisplayed' /\ Multiples'
  BY <1>1, <1>12
  DEF WalkBackEndsAtStart, CursorFollowsDisplayed, SummaryNamesDisplayed, Multiples
<1>16. PageAwaited'
  <2> SUFFICES ASSUME Calm, old.kind = "page"
               PROVE  /\ rpc'[s].mode = view.mode /\ rpc'[s].token = view.token
                      /\ rpc'[s].limit = view.limit /\ view.limit \in Limits
                      /\ rpc'[s].reply = PageOf(rpc[s].mode, rpc[s].token, rpc[s].limit)'
    BY <1>1, <1>8, <1>11, <1>12, <1>13 DEF PageAwaited
  <2>1. UNCHANGED notes
    BY <1>7
  <2>2. rpc'[s].reply = PageOf(rpc'[s].mode, rpc'[s].token, rpc'[s].limit)
    BY <1>10, <1>11
  <2>3. PageOf(rpc[s].mode, rpc[s].token, rpc[s].limit)'
          = PageOf(rpc'[s].mode, rpc'[s].token, rpc'[s].limit)
    BY <2>1 DEF PageOf, Matching
  <2>. QED  BY <1>10, <1>11, <2>2, <2>3 DEF PageAwaited
<1>17. PageDisplayed'
  BY <1>1, <1>8, <1>11, <1>12, <1>13 DEF PageDisplayed
<1>18. DisplayCurrent'
  <2> SUFFICES ASSUME Calm, shown # <<>>, old.kind # "page", ~q.ok
               PROVE  UpToDate'
    BY <1>1, <1>8, <1>11, <1>12, <1>13 DEF DisplayCurrent
  <2>1. UNCHANGED notes
    BY <1>7, <1>9
  <2>2. UpToDate
    BY <1>1 DEF DisplayCurrent
  <2>. QED  BY <1>1, <2>1, <2>2, UpToDateStays
<1>. QED  BY <1>14, <1>15, <1>16, <1>17, <1>18

\* A response is displayed: alone, it is the one that the view waits for and
\* shows the notes of this moment.
LEMMA ShowPageKeeps ==
  ASSUME ViewInv, UNCHANGED world, NEW s \in Slots, ShowPage(s)
  PROVE  ViewInv'
<1> USE DEF ViewInv
<1> DEFINE reply == rpc[s].reply
           depth == Len(view.stack)
           count == Len(reply.page)
<1>1. /\ UNCHANGED notes /\ rpc[s].kind = "page" /\ rpc[s].answered
      /\ rpc' = [rpc EXCEPT ![s] = Free] /\ Render(reply)
      /\ origin' = [mode |-> rpc[s].mode, token |-> rpc[s].token]
  BY DEF ShowPage
<1>2. /\ rpc[s].mode \in Modes /\ rpc[s].token \in Nat /\ rpc[s].limit \in Nat \ {0}
      /\ ReplyOK(rpc[s].token, reply)
  <2>1. RpcOK(rpc[s])
    BY ViewFacts
  <2>2. rpc[s] # Free /\ rpc[s].kind \notin {"tag", "delete", "update", "create"}
    BY <1>1 DEF Free
  <2>. QED  BY <1>1, <2>1, <2>2 DEF RpcOK
<1>3. /\ reply.page \in Seq(Notes) /\ reply.total \in Nat /\ reply.next \in Nat
      /\ count \in Nat /\ (reply.page # <<>> => count # 0)
      /\ reply.next # 0 => reply.next = rpc[s].token + count /\ reply.next < reply.total
  BY <1>2, LenProperties, EmptySeq DEF ReplyOK
<1>4. depth \in Nat /\ (depth > 0 => view.stack # <<>>)
  BY ViewFacts, LenProperties, EmptySeq
<1>5. /\ shown' = reply.page
      /\ view' = [view EXCEPT !.total = reply.total, !.next = reply.next]
      /\ bar' = [visible |-> count > 0 /\ (depth > 0 \/ reply.next # 0 \/ reply.total > count),
                 hasPrev |-> depth > 0, hasNext |-> reply.next # 0,
                 from |-> depth * view.limit + 1]
  BY <1>1 DEF Render
<1>6. /\ bar'.visible = (count > 0 /\ (depth > 0 \/ reply.next # 0 \/ reply.total > count))
      /\ bar'.hasPrev = (depth > 0) /\ bar'.hasNext = (reply.next # 0)
      /\ bar'.from = depth * view.limit + 1
      /\ origin'.mode = rpc[s].mode /\ origin'.token = rpc[s].token
  BY <1>1, <1>5
<1>7. bar' \in [visible : BOOLEAN, hasPrev : BOOLEAN, hasNext : BOOLEAN, from : Nat]
  <2>1. view.limit \in Nat
    BY ViewFacts DEF ViewRecord
  <2>2. depth * view.limit + 1 \in Nat
    BY <1>4, <2>1, Times
  <2>. HIDE DEF depth, count, reply
  <2>. QED  BY <1>5, <2>2
<1>8. /\ view' \in ViewRecord /\ view'.mode = view.mode /\ view'.limit = view.limit
      /\ view'.token = view.token /\ view'.next = reply.next
      /\ view'.total = reply.total /\ view'.stack = view.stack
  BY <1>3, <1>5, ViewFacts DEF ViewRecord
<1> HIDE DEF reply, depth, count
<1>9. /\ DOMAIN rpc' = AllSlots /\ rpc'[s] = Free /\ s \in AllSlots
      /\ \A t \in AllSlots \ {s} : rpc'[t] = rpc[t]
  BY <1>1, RpcChanges
<1>10. Slots' = Slots /\ Limits' = Limits /\ (Calm' <=> Calm) /\ Slots \subseteq AllSlots
  BY WorldStays, WorldFacts DEF ViewTypeOK
<1>11. Calm => \A t \in Slots : t = s
  BY CalmOne
<1>12. Calm => /\ rpc[s].mode = view.mode /\ rpc[s].token = view.token
               /\ rpc[s].limit = view.limit /\ view.limit \in Limits
               /\ reply = PageOf(rpc[s].mode, rpc[s].token, rpc[s].limit)
               /\ view.token = depth * view.limit
  BY <1>1 DEF PageAwaited, Multiples, reply, depth
<1>13. Calm => /\ reply.page # <<>> => reply.page
                    = SubSeq(Matching(rpc[s].mode), rpc[s].token + 1, rpc[s].token + count)
               /\ reply.page # <<>> /\ rpc[s].token + count < Len(Matching(rpc[s].mode))
                    => reply.next # 0
               /\ reply.next # 0 => count = view.limit
  <2> DEFINE mode == rpc[s].mode
             offset == rpc[s].token
             limit == rpc[s].limit
             sent == PageOf(mode, offset, limit)
  <2>1. notes \in Seq(Notes) /\ offset \in Nat /\ limit \in Nat \ {0}
    BY <1>2, ViewFacts
  <2> HIDE DEF mode, offset, limit
  <2>2. /\ sent.page # <<>> =>
             sent.page = SubSeq(Matching(mode), offset + 1, offset + Len(sent.page))
        /\ sent.page # <<>> /\ offset + Len(sent.page) < Len(Matching(mode)) => sent.next # 0
        /\ sent.next # 0 => Len(sent.page) = limit
    BY <2>1, PageFacts
  <2>3. Calm => reply = sent /\ limit = view.limit
    BY <1>12 DEF mode, offset, limit
  <2> HIDE DEF sent
  <2>. QED  BY <2>2, <2>3 DEF mode, offset, count
<1>14. ViewTypeOK'
  <2>1. \A t \in AllSlots : RpcOK(rpc'[t])
    BY <1>9 DEF ViewTypeOK, RpcOK
  <2>2. origin' \in [mode : Modes, token : Nat]
    BY <1>1, <1>2
  <2>. QED  BY <1>1, <1>3, <1>5, <1>7, <1>8, <1>9, <2>1, <2>2 DEF ViewTypeOK, ViewRecord
<1>15. WalkBackEndsAtStart' /\ Multiples'
  BY <1>8, <1>10 DEF WalkBackEndsAtStart, Multiples
<1>16. CursorFollowsDisplayed'
  BY <1>3, <1>5, <1>6, <1>8 DEF CursorFollowsDisplayed, count
<1>17. PageAwaited'
  BY <1>9, <1>10, <1>11 DEF PageAwaited, Free
<1>18. PageDisplayed'
  BY <1>1, <1>5, <1>8, <1>9, <1>10, <1>11, <1>12, <1>13 DEF PageDisplayed, count
<1>19. SummaryNamesDisplayed'
  BY <1>6, <1>10, <1>12 DEF SummaryNamesDisplayed
<1>20. DisplayCurrent'
  <2> SUFFICES ASSUME Calm, reply.page # <<>> PROVE UpToDate'
    BY <1>5, <1>10, <1>11 DEF DisplayCurrent
  <2>1. Matching(view.mode)' = Matching(rpc[s].mode)
    BY <1>1, <1>8, <1>12 DEF Matching
  <2>2. shown' = SubSeq(Matching(view.mode)', origin'.token + 1, origin'.token + Len(shown'))
    BY <1>5, <1>6, <1>13, <2>1 DEF count
  <2>3. count > 0
    BY <1>3
  <2>4. origin'.token > 0 => bar'.visible /\ bar'.hasPrev /\ view'.stack # <<>>
    <3> SUFFICES ASSUME origin'.token > 0
                 PROVE  bar'.visible /\ bar'.hasPrev /\ view'.stack # <<>>
      OBVIOUS
    <3>1. depth * view.limit > 0
      BY <1>6, <1>12
    <3>2. 0 * view.limit = 0
      BY ViewFacts DEF ViewRecord
    <3>3. depth > 0
      BY <1>4, <3>1, <3>2
    <3>. QED  BY <1>4, <1>6, <1>8, <2>3, <3>3
  <2>5. origin'.token + Len(shown') < Len(Matching(view.mode)')
          => bar'.visible /\ bar'.hasNext /\ view'.next # 0
    <3> SUFFICES ASSUME origin'.token + Len(shown') < Len(Matching(view.mode)')
                 PROVE  bar'.visible /\ bar'.hasNext /\ view'.next # 0
      OBVIOUS
    <3>1. reply.next # 0
      BY <1>5, <1>6, <1>13, <2>1 DEF count
    <3>. QED  BY <1>6, <1>8, <2>3, <3>1
  <2>. QED  BY <2>2, <2>4, <2>5 DEF UpToDate
<1>. QED  BY <1>14, <1>15, <1>16, <1>17, <1>18, <1>19, <1>20

LEMMA NextView == ViewInv /\ [Next]_vars => ViewInv'
<1> SUFFICES ASSUME ViewInv, [Next]_vars PROVE ViewInv'
  OBVIOUS
<1>1. CASE UNCHANGED vars
  <2>1. UNCHANGED <<world, notes, view, shown, bar, origin, rpc>>
    BY <1>1 DEF vars
  <2>2. Slots' = Slots /\ Limits' = Limits /\ (Calm' <=> Calm)
    BY <2>1, WorldStays
  <2>3. PageAwaited'
    <3>1. \A s \in Slots : PageOf(rpc[s].mode, rpc[s].token, rpc[s].limit)'
                              = PageOf(rpc[s].mode, rpc[s].token, rpc[s].limit)
      BY <2>1 DEF PageOf, Matching
    <3>. QED  BY <2>1, <2>2, <3>1 DEF ViewInv, PageAwaited
  <2>4. DisplayCurrent'
    BY <2>1, <2>2, UpToDateStays DEF ViewInv, DisplayCurrent
  <2>. QED  BY <2>1, <2>2, <2>3, <2>4
    DEF ViewInv, ViewTypeOK, WalkBackEndsAtStart, CursorFollowsDisplayed, Multiples,
        PageDisplayed, SummaryNamesDisplayed
<1>2. CASE Next
  <2>1. UNCHANGED world
    BY <1>2 DEF Next
  <2>2. ASSUME NEW s \in Slots,
               \/ Start(s) \/ NextPage(s) \/ PreviousPage(s) \/ Change(s)
               \/ Serve(s) \/ ShowPage(s) \/ AfterChange(s) \/ Lose(s)
        PROVE  ViewInv'
    BY <2>1, <2>2, StartKeeps, NextPageKeeps, PreviousPageKeeps, ChangeKeeps, ServeKeeps,
       ShowPageKeeps, AfterChangeKeeps, LoseKeeps
  <2>3. CASE OtherClient
    BY <2>1, <2>3, OtherClientKeeps
  <2>. QED  BY <1>2, <2>2, <2>3 DEF Next, Step
<1>. QED  BY <1>1, <1>2

-----------------------------------------------------------------------------
\* The inductive invariant: what is displayed, the cursor, the stack and the
\* RPCs under way fit together (notes-pagination.ts, notes-ui.ts).
THEOREM ViewInvariant == Spec => []ViewInv
<1>. QED  BY InitView, NextView, PTL DEF Spec

\* Previous ends on the first page, whatever RPCs overlapped, failed or came
\* late (notes-pagination.ts, goToPreviousNotesPage).
THEOREM WalksBackToStart == Spec => []WalkBackEndsAtStart
<1>1. ViewInv => WalkBackEndsAtStart
  BY DEF ViewInv
<1>. QED  BY <1>1, ViewInvariant, PTL

\* Next goes on right behind the notes displayed, in whatever order the
\* responses arrived (notes-ui.ts, applyNotesPageResponse).
THEOREM CursorIsBehindDisplayed == Spec => []CursorFollowsDisplayed
<1>1. ViewInv => CursorFollowsDisplayed
  BY DEF ViewInv
<1>. QED  BY <1>1, ViewInvariant, PTL

\* The label of the pagination bar counts from the first note displayed, while
\* RPCs do not overlap or fail and the page size stays.
THEOREM SummaryIsRight == Spec => []SummaryNamesDisplayed
<1>1. ViewInv => SummaryNamesDisplayed
  BY DEF ViewInv
<1>. QED  BY <1>1, ViewInvariant, PTL

\* Under the same circumstances, what is displayed when all is quiet is what the
\* server has, and every other matching note can be paged to.
THEOREM NotesReachable == Spec => []AllNotesReachable
<1>1. ViewInv => AllNotesReachable
  <2> SUFFICES ASSUME ViewInv, Calm, Quiet, shown # <<>>
               PROVE  view.mode = origin.mode /\ UpToDate
    BY DEF AllNotesReachable, UpToDate
  <2>1. PICK s \in Slots : TRUE
    BY DEF Calm
  <2>2. rpc[s].kind = "free"
    BY <2>1 DEF Quiet, Free
  <2>3. UpToDate
    BY <2>2 DEF ViewInv, DisplayCurrent
  <2>4. origin = [mode |-> view.mode, token |-> view.token]
    BY <2>2 DEF ViewInv, PageDisplayed
  <2>. QED  BY <2>3, <2>4
<1>. QED  BY <1>1, ViewInvariant, PTL

\* Under the same circumstances, a click on Previous asks for an earlier page.
THEOREM PreviousIsEarlier == Spec => PreviousGoesBack
<1>1. ViewInv /\ [Next]_vars =>
        [Calm /\ (\E s \in Slots : PreviousPage(s)) => view'.token < view.token]_vars
  <2> SUFFICES ASSUME ViewInv, Calm, NEW s \in Slots, PreviousPage(s)
               PROVE  view'.token < view.token
    OBVIOUS
  <2> DEFINE n == Len(view.stack)
  <2>1. PICK limit \in Limits :
          FetchFrom(s, [view EXCEPT !.stack = Front(view.stack)], Last(view.stack), limit)
    BY ViewFacts DEF PreviousPage, ViewRecord
  <2>2. view'.token = Last(view.stack)
    BY <2>1, ViewFacts DEF FetchFrom, ViewRecord
  <2>3. n \in Nat \ {0} /\ Last(view.stack) = view.stack[n] /\ DOMAIN view.stack = 1 .. n
    BY ViewFacts, Popped DEF PreviousPage
  <2>4. view.token = n * limit /\ view.stack[n] = (n - 1) * limit
    BY <2>3 DEF ViewInv, Multiples
  <2>5. limit \in Nat \ {0}
    BY ViewFacts
  <2> HIDE DEF n
  <2>6. n * limit = (n - 1) * limit + limit /\ (n - 1) * limit \in Nat
    <3>1. n - 1 \in Nat /\ (n - 1) + 1 = n
      BY <2>3
    <3>. QED  BY <2>5, <3>1, Times
  <2>. QED  BY <2>2, <2>3, <2>4, <2>5, <2>6
<1>. QED  BY <1>1, ViewInvariant, PTL DEF Spec, PreviousGoesBack
=============================================================================
