-------------------------- MODULE MigrationsProofs --------------------------
(***************************************************************************)
(* Starting processes migrate a database once, for any number of them, any *)
(* migrations and any failures.  The invariant is preserved because all    *)
(* that a process knows of the ledger it learned while holding the lock,   *)
(* and only the holder of the lock changes the ledger.  And ParseDBMateUp  *)
(* finds the statements that are written, in files of any length.          *)
(***************************************************************************)
EXTENDS Migrations, MigrationFile, SequenceTheorems, WellFoundedInduction, TLAPS

-----------------------------------------------------------------------------
\* The migration files.  Numbers first.

LEMMA LeastNumber ==
  ASSUME NEW T \in SUBSET Nat, T # {}
  PROVE  \E n \in T : \A m \in T : n <= m
<1>1. PICK n \in T : \A m \in T : ~ (<<m, n>> \in OpToRel(<, Nat))
  BY WFMin, NatLessThanWellFounded
<1>2. \A m \in T : ~ (m < n)
  BY <1>1 DEF OpToRel
<1>. QED  BY <1>2

\* A set of numbers that holds 0 and, up to n, the successor of each of its
\* elements holds all numbers up to n.
LEMMA Climb ==
  ASSUME NEW n \in Nat, NEW T, 0 \in T,
         \A i \in 0 .. n : i < n /\ i \in T => i + 1 \in T
  PROVE  \A i \in 0 .. n : i \in T
<1> DEFINE missing == {i \in Nat : i <= n /\ i \notin T}
<1> SUFFICES ASSUME missing # {} PROVE FALSE
  OBVIOUS
<1>1. PICK i \in missing : \A j \in missing : i <= j
  <2>1. missing \in SUBSET Nat
    OBVIOUS
  <2>. HIDE DEF missing
  <2>. QED  BY <2>1, LeastNumber
<1>2. i \in Nat /\ i <= n /\ i \notin T /\ i # 0
  BY <1>1
<1>3. i - 1 \in Nat /\ i - 1 < n /\ ~(i <= i - 1)
  BY <1>2
<1>4. i - 1 \in T
  BY <1>1, <1>3
<1>5. i - 1 \in 0 .. n /\ (i - 1) + 1 = i
  BY <1>2, <1>3
<1>. QED  BY <1>2, <1>3, <1>4, <1>5

-----------------------------------------------------------------------------
\* The parser is well defined.

LEMMA ParserUnfolds ==
  ASSUME NEW text, Len(text) \in Nat
  PROVE  /\ Parser(text)[0] = Fresh
         /\ \A i \in 1 .. Len(text) : Parser(text)[i] = ReadLine(Parser(text)[i - 1], text[i])
<1> DEFINE n == Len(text)
           Body(f, m) == [i \in 0 .. m |-> IF i = 0 THEN Fresh ELSE ReadLine(f[i - 1], text[i])]
           T == {m \in Nat : \E f : f = Body(f, m)}
<1>1. 0 \in T
  <2>1. Body(<<>>, 0) = Body(Body(<<>>, 0), 0)
    OBVIOUS
  <2>. QED  BY <2>1
<1>2. \A m \in 0 .. n : m < n /\ m \in T => m + 1 \in T
  <2> SUFFICES ASSUME NEW m \in 0 .. n, m \in T
               PROVE  m + 1 \in T
    OBVIOUS
  <2>1. PICK f : f = Body(f, m)
    OBVIOUS
  <2>2. m \in Nat /\ m + 1 \in Nat
    OBVIOUS
  <2> DEFINE g == Body(f, m + 1)
  <2>3. \A i \in 0 .. m : g[i] = f[i]
    <3>1. \A i \in 0 .. m : f[i] = IF i = 0 THEN Fresh ELSE ReadLine(f[i - 1], text[i])
      BY <2>1
    <3>2. \A i \in 0 .. m : i \in 0 .. m + 1
      BY <2>2
    <3>. QED  BY <3>1, <3>2
  <2>4. g = Body(g, m + 1)
    <3> SUFFICES ASSUME NEW i \in 0 .. m + 1, i # 0
                 PROVE  f[i - 1] = g[i - 1]
      OBVIOUS
    <3>1. i - 1 \in 0 .. m
      BY <2>2
    <3>. QED  BY <2>3, <3>1
  <2>. HIDE DEF g
  <2>. QED  BY <2>2, <2>4
<1>3. n \in T
  <2>1. n \in 0 .. n
    OBVIOUS
  <2>. HIDE DEF T, n
  <2>2. n \in Nat
    BY DEF n
  <2>. QED  BY <1>1, <1>2, <2>1, <2>2, Climb
<1>4. Parser(text) = CHOOSE f : f = Body(f, n)
  BY DEF Parser
<1>5. Parser(text) = Body(Parser(text), n)
  BY <1>3, <1>4
<1>. QED  BY <1>5

LEMMA FirstPlace ==
  ASSUME NEW text \in Seq(Lines), NEW marker
  PROVE  First(text, marker) \in 1 .. Len(text) + 1
<1> DEFINE places == {i \in Nat : 1 <= i /\ (i <= Len(text) => text[i] = marker)}
<1>1. Len(text) \in Nat
  BY LenProperties
<1>2. Len(text) + 1 \in places
  BY <1>1
<1>3. PICK i \in places : \A j \in places : i <= j
  <2>1. places \in SUBSET Nat
    OBVIOUS
  <2>. HIDE DEF places
  <2>. QED  BY <1>2, <2>1, LeastNumber
<1>4. i \in 1 .. Len(text) + 1
  BY <1>1, <1>2, <1>3
<1>5. \A j \in 1 .. i - 1 : text[j] # marker
  <2> SUFFICES ASSUME NEW j \in 1 .. i - 1, text[j] = marker PROVE FALSE
    OBVIOUS
  <2>1. j \in places /\ ~(i <= j)
    BY <1>4
  <2>. QED  BY <1>3, <2>1
<1>6. i <= Len(text) => text[i] = marker
  BY <1>3
<1>. QED  BY <1>4, <1>5, <1>6 DEF First

LEMMA SectionType ==
  ASSUME NEW file \in Seq(Lines)
  PROVE  UpSection(file) \in Seq(Lines)
<1> DEFINE rest == SubSeq(file, First(file, "up") + 1, Len(file))
<1>1. Len(file) \in Nat
  BY LenProperties
<1>2. First(file, "up") \in 1 .. Len(file) + 1
  BY FirstPlace
<1>3. rest \in Seq(Lines)
  BY <1>1, <1>2
<1> HIDE DEF rest
<1>4. Len(rest) \in Nat /\ First(rest, "down") \in 1 .. Len(rest) + 1
  BY <1>3, LenProperties, FirstPlace
<1>5. SubSeq(rest, 1, First(rest, "down") - 1) \in Seq(Lines)
  BY <1>3, <1>4
<1>. QED  BY <1>5 DEF UpSection, rest

-----------------------------------------------------------------------------
\* Reading a line.

State == [ok : BOOLEAN, out : Seq(Seq(Lines)), current : Seq(Lines), block : BOOLEAN]
Bounds == {"begin", "end"}

LEMMA FlushFields ==
  ASSUME NEW p \in State
  PROVE  /\ Flush(p) \in State
         /\ Flush(p).ok = p.ok /\ Flush(p).block = p.block /\ Flush(p).current = <<>>
         /\ Flush(p).out = IF moduleContainsSQL(p.current) THEN Append(p.out, p.current)
                                                           ELSE p.out
<1>1. <<>> \in Seq(Lines)
  OBVIOUS
<1>2. Append(p.out, p.current) \in Seq(Seq(Lines))
  BY DEF State
<1>. QED  BY <1>1, <1>2 DEF Flush, State

LEMMA ReadBound ==
  ASSUME NEW p \in State, NEW line \in Bounds
  PROVE  /\ ReadLine(p, line) \in State
         /\ ReadLine(p, line).out = Flush(p).out /\ ReadLine(p, line).current = <<>>
         /\ ReadLine(p, line).block <=> line = "begin"
         /\ ReadLine(p, line).ok <=> p.ok /\ (p.block <=> line = "end")
<1> DEFINE q == Flush(p)
<1>1. q \in State /\ q.ok = p.ok /\ q.current = <<>>
  BY FlushFields
<1>2. ReadLine(p, line) =
        [q EXCEPT !.block = (line = "begin"), !.ok = q.ok /\ (p.block <=> line = "end")]
  BY DEF ReadLine, Bounds
<1> HIDE DEF q
<1> DEFINE B == (line = "begin")
           K == (q.ok /\ (p.block <=> line = "end"))
<1>3. B \in BOOLEAN /\ K \in BOOLEAN
  OBVIOUS
<1>4. ReadLine(p, line) = [q EXCEPT !.block = B, !.ok = K]
  BY <1>2
<1>5. (B <=> line = "begin") /\ (K <=> p.ok /\ (p.block <=> line = "end"))
  BY <1>1
<1> HIDE DEF B, K
<1>6. /\ ReadLine(p, line) \in State
      /\ ReadLine(p, line).out = q.out /\ ReadLine(p, line).current = q.current
      /\ ReadLine(p, line).block = B /\ ReadLine(p, line).ok = K
  BY <1>1, <1>3, <1>4 DEF State
<1>. QED  BY <1>1, <1>5, <1>6 DEF q

LEMMA ReadOther ==
  ASSUME NEW p \in State, NEW line \in Lines \ Bounds,
         NEW q, q = [p EXCEPT !.current = Append(p.current, line)]
  PROVE  /\ q \in State /\ q.ok = p.ok /\ q.block = p.block /\ q.out = p.out
         /\ q.current = Append(p.current, line)
         /\ ReadLine(p, line) = IF EndsStatement(line) /\ ~p.block THEN Flush(q) ELSE q
<1>1. Append(p.current, line) \in Seq(Lines)
  BY DEF State
<1>. QED  BY <1>1 DEF ReadLine, Bounds, State

LEMMA InBlockNext ==
  ASSUME NEW text, NEW i \in Nat \ {0}
  PROVE  InBlock(text, i + 1) <=> text[i] = "begin" \/ (InBlock(text, i) /\ text[i] # "end")
<1>1. InBlock(text, i + 1) <=>
        \E b \in 1 .. i : text[b] = "begin" /\ \A j \in b .. i : text[j] # "end"
  BY DEF InBlock
<1>2. CASE text[i] = "begin"
  <2>1. i \in 1 .. i /\ \A j \in i .. i : text[j] # "end"
    BY <1>2
  <2>. QED  BY <1>1, <1>2, <2>1
<1>3. CASE text[i] # "begin"
  <2>1. ASSUME InBlock(text, i + 1) PROVE InBlock(text, i) /\ text[i] # "end"
    <3>1. PICK b \in 1 .. i : text[b] = "begin" /\ \A j \in b .. i : text[j] # "end"
      BY <1>1, <2>1
    <3>2. b \in 1 .. i - 1 /\ i \in b .. i /\ \A j \in b .. i - 1 : j \in b .. i
      BY <1>3, <3>1
    <3>. QED  BY <3>1, <3>2 DEF InBlock
  <2>2. ASSUME InBlock(text, i), text[i] # "end" PROVE InBlock(text, i + 1)
    <3>1. PICK b \in 1 .. i - 1 : text[b] = "begin" /\ \A j \in b .. i - 1 : text[j] # "end"
      BY <2>2 DEF InBlock
    <3>2. b \in 1 .. i /\ \A j \in b .. i : j = i \/ j \in b .. i - 1
      BY <3>1
    <3>. QED  BY <1>1, <2>2, <3>1, <3>2
  <2>. QED  BY <1>3, <2>1, <2>2
<1>. QED  BY <1>2, <1>3

-----------------------------------------------------------------------------
\* The runs that end before a line, and how they grow.

Closed(text, b) == {r \in Segments(text) : r[2] < b}

LEMMA CutsAt ==
  ASSUME NEW text, NEW i
  PROVE  CutAfter(text, i) <=> \/ text[i] \in Bounds \/ text[i + 1] \in Bounds
                               \/ EndsStatement(text[i]) /\ ~InBlock(text, i)
BY DEF CutAfter, Bounds

\* Runs are apart, so the one that starts at a is the only one to end there.
LEMMA RunIsNext ==
  ASSUME NEW text \in Seq(Lines), NEW a \in DOMAIN text, NEW b \in DOMAIN text, a <= b,
         \A j \in a .. b - 1 : ~CutAfter(text, j),
         a > 1 => CutAfter(text, a - 1),
         b < Len(text) => CutAfter(text, b)
  PROVE  Closed(text, b + 1) = Closed(text, a) \cup
           (IF \E j \in a .. b : text[j] \in Sql THEN {<<a, b>>} ELSE {})
<1>1. Len(text) \in Nat /\ DOMAIN text = 1 .. Len(text)
  BY LenProperties
<1>2. ASSUME NEW r \in Segments(text), r[2] < b + 1, ~(r[2] < a)
      PROVE  r = <<a, b>> /\ \E j \in a .. b : text[j] \in Sql
  <2>1. /\ r \in (DOMAIN text) \X (DOMAIN text) /\ r[1] <= r[2]
        /\ \A i \in r[1] .. r[2] - 1 : ~CutAfter(text, i)
        /\ r[1] > 1 => CutAfter(text, r[1] - 1)
        /\ r[2] < Len(text) => CutAfter(text, r[2])
        /\ \E i \in r[1] .. r[2] : text[i] \in Sql
    BY DEF Segments
  <2>2. r[1] \in 1 .. Len(text) /\ r[2] \in 1 .. Len(text) /\ r = <<r[1], r[2]>>
    BY <1>1, <2>1
  <2>3. r[2] = b
    <3> SUFFICES ASSUME r[2] # b PROVE FALSE
      OBVIOUS
    <3>1. r[2] \in a .. b - 1 /\ r[2] < Len(text)
      BY <1>1, <1>2, <2>2
    <3>. QED  BY <2>1, <3>1
  <2>4. ~(r[1] < a)
    <3> SUFFICES ASSUME r[1] < a PROVE FALSE
      OBVIOUS
    <3>1. a > 1 /\ a - 1 \in r[1] .. r[2] - 1
      BY <1>1, <2>2, <2>3
    <3>. QED  BY <2>1, <3>1
  <2>5. ~(r[1] > a)
    <3> SUFFICES ASSUME r[1] > a PROVE FALSE
      OBVIOUS
    <3>1. r[1] > 1 /\ r[1] - 1 \in a .. b - 1
      BY <1>1, <2>1, <2>2, <2>3
    <3>. QED  BY <2>1, <3>1
  <2>6. r[1] = a
    BY <1>1, <2>2, <2>4, <2>5
  <2>. QED  BY <2>1, <2>2, <2>3, <2>6
<1>3. ASSUME \E j \in a .. b : text[j] \in Sql
      PROVE  <<a, b>> \in Segments(text)
  BY <1>3 DEF Segments
<1>4. \A r \in Segments(text) : r[2] < a => r[2] < b + 1
  BY <1>1 DEF Segments
<1>5. b < b + 1 /\ <<a, b>>[2] = b
  BY <1>1
<1>. QED  BY <1>2, <1>3, <1>4, <1>5 DEF Closed

LEMMA BoundEndsNothing ==
  ASSUME NEW text \in Seq(Lines), NEW k \in DOMAIN text, text[k] \in Bounds
  PROVE  Closed(text, k + 1) = Closed(text, k)
<1>1. Len(text) \in Nat /\ DOMAIN text = 1 .. Len(text)
  BY LenProperties
<1>2. ASSUME NEW r \in Segments(text), r[2] = k PROVE FALSE
  <2>1. /\ r[1] \in 1 .. Len(text) /\ r[1] <= k
        /\ \A i \in r[1] .. k - 1 : ~CutAfter(text, i)
        /\ \E i \in r[1] .. k : text[i] \in Sql
    BY <1>1, <1>2 DEF Segments
  <2>2. CASE r[1] < k
    <3>1. k - 1 \in r[1] .. k - 1 /\ (k - 1) + 1 = k
      BY <1>1, <2>1, <2>2
    <3>. QED  BY <2>1, <3>1, CutsAt
  <2>3. CASE r[1] = k
    <3>1. text[k] \in Sql
      BY <1>1, <2>1, <2>3
    <3>. QED  BY <3>1 DEF Sql, Bounds
  <2>. QED  BY <1>1, <2>1, <2>2, <2>3
<1>3. \A r \in Segments(text) : r[2] < k + 1 <=> r[2] < k \/ r[2] = k
  BY <1>1 DEF Segments
<1>. QED  BY <1>2, <1>3 DEF Closed

\* A statement more for a run more.
LEMMA OneMore ==
  ASSUME NEW text \in Seq(Lines), NEW a \in DOMAIN text, NEW b \in DOMAIN text,
         NEW out \in Seq(Seq(Lines)), Spells(text, Closed(text, a), out)
  PROVE  Spells(text, Closed(text, a) \cup {<<a, b>>}, Append(out, SubSeq(text, a, b)))
<1> DEFINE m == Len(out)
           more == Append(out, SubSeq(text, a, b))
           runs == Closed(text, a)
<1>1. m \in Nat /\ DOMAIN out = 1 .. m
  BY LenProperties
<1>2. DOMAIN more = 1 .. m + 1 /\ more[m + 1] = SubSeq(text, a, b)
      /\ \A i \in 1 .. m : more[i] = out[i]
  <2>1. SubSeq(text, a, b) \in Seq(Lines)
    BY LenProperties
  <2>2. /\ more \in Seq(Seq(Lines)) /\ Len(more) = m + 1
        /\ \A i \in 1 .. m : more[i] = out[i]
        /\ more[m + 1] = SubSeq(text, a, b)
    BY <2>1, AppendProperties
  <2>. HIDE DEF more, m
  <2>. QED  BY <2>2, LenProperties
<1>3. PICK place \in [1 .. m -> runs] :
        /\ {place[i] : i \in 1 .. m} = runs
        /\ \A i, j \in 1 .. m : i < j => place[i][2] < place[j][1]
        /\ \A i \in 1 .. m : out[i] = SubSeq(text, place[i][1], place[i][2])
  BY <1>1 DEF Spells
<1> DEFINE all == [i \in 1 .. m + 1 |-> IF i = m + 1 THEN <<a, b>> ELSE place[i]]
<1>4. all[m + 1] = <<a, b>> /\ \A i \in 1 .. m : all[i] = place[i]
  <2>1. m + 1 \in 1 .. m + 1 /\ \A i \in 1 .. m : i \in 1 .. m + 1 /\ i # m + 1
    BY <1>1
  <2>. HIDE DEF m
  <2>. QED  BY <2>1
<1>5. \A i \in 1 .. m + 1 : i = m + 1 \/ i \in 1 .. m
  <2>1. m \in Nat
    BY <1>1
  <2>. HIDE DEF m
  <2>. QED  BY <2>1
<1>6. all \in [1 .. m + 1 -> runs \cup {<<a, b>>}]
  <2>. HIDE DEF m, runs
  <2>. QED  BY <1>3, <1>5
<1> HIDE DEF m, more, all
<1>7. {all[i] : i \in 1 .. m + 1} = runs \cup {<<a, b>>}
  <2>1. m + 1 \in 1 .. m + 1 /\ \A i \in 1 .. m : i \in 1 .. m + 1
    BY <1>1
  <2>2. \A i \in 1 .. m + 1 : all[i] \in runs \cup {<<a, b>>}
    BY <1>6
  <2>3. \A r \in runs : \E i \in 1 .. m : all[i] = r
    BY <1>3, <1>4
  <2>. QED  BY <1>4, <2>1, <2>2, <2>3, Zenon
<1>8. \A i, j \in 1 .. m + 1 : i < j => all[i][2] < all[j][1]
  <2> SUFFICES ASSUME NEW i \in 1 .. m + 1, NEW j \in 1 .. m + 1, i < j
               PROVE  all[i][2] < all[j][1]
    OBVIOUS
  <2>1. i \in 1 .. m /\ all[i] = place[i]
    BY <1>1, <1>4
  <2>2. CASE j = m + 1
    <3>1. place[i] \in runs
      BY <1>3, <2>1
    <3>2. place[i][2] < a
      BY <3>1 DEF Closed
    <3>. QED  BY <1>4, <2>1, <2>2, <3>2
  <2>3. CASE j \in 1 .. m
    BY <1>3, <1>4, <2>1, <2>3
  <2>. QED  BY <1>5, <2>2, <2>3
<1>9. \A i \in 1 .. m + 1 : more[i] = SubSeq(text, all[i][1], all[i][2])
  <2> SUFFICES ASSUME NEW i \in 1 .. m + 1
               PROVE  more[i] = SubSeq(text, all[i][1], all[i][2])
    OBVIOUS
  <2>1. CASE i = m + 1
    BY <1>2, <1>4, <2>1
  <2>2. CASE i \in 1 .. m
    BY <1>2, <1>3, <1>4, <2>2
  <2>. QED  BY <1>5, <2>1, <2>2
<1>10. Spells(text, runs \cup {<<a, b>>}, more)
  <2>. HIDE DEF runs
  <2>. QED  BY <1>2, <1>6, <1>7, <1>8, <1>9 DEF Spells
<1>. QED  BY <1>10 DEF more

-----------------------------------------------------------------------------
\* What the parser knows after i lines: the runs that have ended are spelled,
\* and the line a begins the text collected since.
Since(text, i, p, a) ==
  /\ a \in 1 .. i + 1
  /\ p.current = SubSeq(text, a, i)
  /\ \A j \in a .. i - 1 : ~CutAfter(text, j)
  /\ a > 1 /\ a <= Len(text) => CutAfter(text, a - 1)
  /\ a <= i => text[i] \notin Bounds /\ ~(EndsStatement(text[i]) /\ ~InBlock(text, i))
  /\ Spells(text, Closed(text, a), p.out)

BlocksOK(text, i) == \A k \in 1 .. i :
  /\ text[k] = "begin" => ~InBlock(text, k)
  /\ text[k] = "end" => InBlock(text, k)

HasRead(text, i, p) ==
  /\ p \in State
  /\ p.block <=> InBlock(text, i + 1)
  /\ p.ok <=> BlocksOK(text, i)
  /\ \E a \in 1 .. i + 1 : Since(text, i, p, a)

LEMMA NothingRead ==
  ASSUME NEW text \in Seq(Lines)
  PROVE  HasRead(text, 0, Fresh)
<1>1. Fresh \in State /\ Fresh.block = FALSE /\ Fresh.ok = TRUE
      /\ Fresh.current = <<>> /\ Fresh.out = <<>>
  BY DEF Fresh, State
<1>2. ~InBlock(text, 1) /\ BlocksOK(text, 0)
  BY DEF InBlock, BlocksOK
<1>3. Closed(text, 1) = {}
  <2>1. \A r \in Segments(text) : ~(r[2] < 1)
    BY LenProperties DEF Segments
  <2>. QED  BY <2>1 DEF Closed
<1>4. Spells(text, {}, <<>>)
  <2>1. DOMAIN <<>> = {} /\ <<>> \in [{} -> {}]
    OBVIOUS
  <2>. QED  BY <2>1 DEF Spells
<1>5. SubSeq(text, 1, 0) = <<>>
  BY LenProperties
<1>6. Since(text, 0, Fresh, 1)
  BY <1>1, <1>3, <1>4, <1>5 DEF Since
<1>. QED  BY <1>1, <1>2, <1>6 DEF HasRead

\* The text collected ends with line b: it is spelled if it is a run.
LEMMA FlushSpells ==
  ASSUME NEW text \in Seq(Lines), NEW b \in 0 .. Len(text), NEW a \in 1 .. b + 1,
         NEW p \in State, p.current = SubSeq(text, a, b),
         \A j \in a .. b - 1 : ~CutAfter(text, j),
         a > 1 /\ a <= Len(text) => CutAfter(text, a - 1),
         a <= b /\ b < Len(text) => CutAfter(text, b),
         Spells(text, Closed(text, a), p.out)
  PROVE  Spells(text, Closed(text, b + 1), Flush(p).out)
<1>1. Len(text) \in Nat /\ DOMAIN text = 1 .. Len(text)
  BY LenProperties
<1>2. Flush(p).out = IF moduleContainsSQL(p.current) THEN Append(p.out, p.current) ELSE p.out
  BY FlushFields
<1>3. CASE a = b + 1
  <2>1. p.current = <<>>
    BY <1>1, <1>3
  <2>2. ~moduleContainsSQL(p.current)
    BY <2>1 DEF moduleContainsSQL
  <2>. QED  BY <1>2, <1>3, <2>2
<1>4. CASE a <= b
  <2>1. a \in DOMAIN text /\ b \in DOMAIN text /\ a <= Len(text)
    BY <1>1, <1>4
  <2>2. Closed(text, b + 1) = Closed(text, a) \cup
           (IF \E j \in a .. b : text[j] \in Sql THEN {<<a, b>>} ELSE {})
    BY <1>4, <2>1, RunIsNext
  <2>3. moduleContainsSQL(p.current) <=> \E j \in a .. b : text[j] \in Sql
    <3>1. DOMAIN p.current = 1 .. (b - a + 1)
          /\ \A i \in 1 .. (b - a + 1) : p.current[i] = text[a + i - 1]
      BY <1>1, <1>4, <2>1
    <3>2. \A i \in 1 .. (b - a + 1) : a + i - 1 \in a .. b
      BY <2>1, <1>1
    <3>3. \A j \in a .. b : j - a + 1 \in 1 .. (b - a + 1) /\ a + (j - a + 1) - 1 = j
      <4> SUFFICES ASSUME NEW j \in a .. b
                   PROVE  j - a + 1 \in 1 .. (b - a + 1) /\ a + (j - a + 1) - 1 = j
        OBVIOUS
      <4>1. a \in Int /\ b \in Int /\ j \in Int /\ a <= j /\ j <= b
        BY <2>1, <1>1
      <4>. QED  BY <4>1
    <3>. QED  BY <3>1, <3>2, <3>3 DEF moduleContainsSQL
  <2>4. p.out \in Seq(Seq(Lines))
    BY DEF State
  <2>5. CASE moduleContainsSQL(p.current)
    <3>1. Closed(text, b + 1) = Closed(text, a) \cup {<<a, b>>}
      BY <2>2, <2>3, <2>5
    <3>2. Flush(p).out = Append(p.out, SubSeq(text, a, b))
      BY <1>2, <2>5, Zenon
    <3>. QED  BY <2>1, <2>4, <3>1, <3>2, OneMore
  <2>6. CASE ~moduleContainsSQL(p.current)
    <3>1. Closed(text, b + 1) = Closed(text, a)
      BY <2>2, <2>3, <2>6
    <3>. QED  BY <1>2, <2>6, <3>1
  <2>. QED  BY <2>5, <2>6
<1>. QED  BY <1>1, <1>3, <1>4

LEMMA LineMore ==
  ASSUME NEW text \in Seq(Lines), NEW i \in Nat, i < Len(text), NEW a \in 1 .. i + 1
  PROVE  Append(SubSeq(text, a, i), text[i + 1]) = SubSeq(text, a, i + 1)
<1> DEFINE s == SubSeq(text, a, i)
           t == SubSeq(text, a, i + 1)
           m == i - a + 1
<1>1. /\ Len(text) \in Nat /\ m \in Nat /\ a + m = i + 1
      /\ \A j \in 1 .. m : a + j - 1 \in 1 .. Len(text)
  BY LenProperties
<1>2. /\ s \in Seq(Lines) /\ Len(s) = m
      /\ \A j \in 1 .. m : s[j] = text[a + j - 1]
  BY <1>1
<1>3. /\ t \in Seq(Lines) /\ Len(t) = m + 1
      /\ \A j \in 1 .. m + 1 : t[j] = text[a + j - 1]
  BY <1>1
<1>4. text[i + 1] \in Lines
  BY <1>1, ElementOfSeq
<1> HIDE DEF s, t, m
<1>5. /\ Append(s, text[i + 1]) \in Seq(Lines) /\ Len(Append(s, text[i + 1])) = m + 1
      /\ \A j \in 1 .. m : Append(s, text[i + 1])[j] = s[j]
      /\ Append(s, text[i + 1])[m + 1] = text[i + 1]
  BY <1>2, <1>4, AppendProperties
<1>6. \A j \in 1 .. m + 1 : Append(s, text[i + 1])[j] = t[j]
  <2> SUFFICES ASSUME NEW j \in 1 .. m + 1 PROVE Append(s, text[i + 1])[j] = t[j]
    OBVIOUS
  <2>1. CASE j \in 1 .. m
    BY <1>2, <1>3, <1>5, <2>1
  <2>2. CASE j = m + 1
    <3>1. a + (m + 1) - 1 = i + 1
      BY <1>1
    <3>. QED  BY <1>3, <1>5, <2>2, <3>1
  <2>3. m \in Nat
    BY <1>1
  <2>4. j = m + 1 \/ j \in 1 .. m
    BY <2>3
  <2>. QED  BY <2>1, <2>2, <2>4, Zenon
<1>7. Append(s, text[i + 1]) = t
  BY <1>3, <1>5, <1>6, SeqEqual
<1>. QED  BY <1>7 DEF s, t

LEMMA ReadsOn ==
  ASSUME NEW text \in Seq(Lines), NEW i \in Nat, i < Len(text),
         NEW p, HasRead(text, i, p)
  PROVE  HasRead(text, i + 1, ReadLine(p, text[i + 1]))
<1> DEFINE k == i + 1
           line == text[i + 1]
           q == ReadLine(p, line)
<1>1. /\ Len(text) \in Nat /\ DOMAIN text = 1 .. Len(text)
      /\ k \in DOMAIN text /\ k \in Nat \ {0} /\ line \in Lines
  BY LenProperties, ElementOfSeq
<1>2. p \in State /\ (p.block <=> InBlock(text, k)) /\ (p.ok <=> BlocksOK(text, i))
  BY DEF HasRead
<1>3. PICK a \in 1 .. k : Since(text, i, p, a)
  BY DEF HasRead
<1>4. /\ p.current = SubSeq(text, a, i)
      /\ \A j \in a .. i - 1 : ~CutAfter(text, j)
      /\ a > 1 /\ a <= Len(text) => CutAfter(text, a - 1)
      /\ a <= i => text[i] \notin Bounds /\ ~(EndsStatement(text[i]) /\ ~InBlock(text, i))
      /\ Spells(text, Closed(text, a), p.out)
  BY <1>3 DEF Since
<1>5. InBlock(text, k + 1) <=> line = "begin" \/ (InBlock(text, k) /\ line # "end")
  BY <1>1, InBlockNext
<1>6. BlocksOK(text, k) <=> /\ BlocksOK(text, i)
                            /\ line = "begin" => ~InBlock(text, k)
                            /\ line = "end" => InBlock(text, k)
  <2>1. \A j \in 1 .. k : j = k \/ j \in 1 .. i
    BY <1>1
  <2>2. k \in 1 .. k /\ \A j \in 1 .. i : j \in 1 .. k
    BY <1>1
  <2>. QED  BY <2>1, <2>2 DEF BlocksOK
<1>7. CASE line \in Bounds
  <2>1. /\ q \in State /\ q.out = Flush(p).out /\ q.current = <<>>
        /\ q.block <=> line = "begin"
        /\ q.ok <=> p.ok /\ (p.block <=> line = "end")
    BY <1>2, <1>7, ReadBound
  <2>2. Spells(text, Closed(text, k), Flush(p).out)
    <3>1. a <= i => CutAfter(text, i)
      BY <1>7, CutsAt
    <3>2. i \in 0 .. Len(text) /\ a \in 1 .. i + 1
      BY <1>1
    <3>. QED  BY <1>2, <1>4, <3>1, <3>2, FlushSpells
  <2>3. Spells(text, Closed(text, k + 1), q.out)
    BY <1>1, <1>7, <2>1, <2>2, BoundEndsNothing
  <2>4. CutAfter(text, k)
    BY <1>7, CutsAt
  <2>5. SubSeq(text, k + 1, k) = <<>>
    BY <1>1
  <2>6. Since(text, k, q, k + 1)
    BY <1>1, <2>1, <2>3, <2>4, <2>5 DEF Since
  <2>7. q.block <=> InBlock(text, k + 1)
    BY <1>5, <1>7, <2>1 DEF Bounds
  <2>8. q.ok <=> BlocksOK(text, k)
    BY <1>2, <1>6, <1>7, <2>1 DEF Bounds
  <2>9. k + 1 \in 1 .. k + 1
    BY <1>1
  <2>. QED  BY <2>1, <2>6, <2>7, <2>8, <2>9 DEF HasRead
<1>8. CASE line \notin Bounds
  <2> DEFINE longer == [p EXCEPT !.current = Append(p.current, line)]
  <2>1. /\ longer \in State /\ longer.ok = p.ok /\ longer.block = p.block
        /\ longer.out = p.out /\ longer.current = Append(p.current, line)
        /\ q = IF EndsStatement(line) /\ ~p.block THEN Flush(longer) ELSE longer
    BY <1>1, <1>2, <1>8, ReadOther
  <2>2. longer.current = SubSeq(text, a, k)
    <3>1. Append(SubSeq(text, a, i), line) = SubSeq(text, a, k)
      BY LineMore
    <3>. QED  BY <1>4, <2>1, <3>1, Zenon
  <2>3. \A j \in a .. k - 1 : ~CutAfter(text, j)
    <3> SUFFICES ASSUME NEW j \in a .. k - 1 PROVE ~CutAfter(text, j)
      OBVIOUS
    <3>1. CASE j \in a .. i - 1
      BY <1>4, <3>1
    <3>2. CASE j = i
      BY <1>4, <1>8, <3>2, CutsAt
    <3>. QED  BY <1>1, <3>1, <3>2
  <2>4. a <= k
    BY <1>1
  <2> HIDE DEF longer
  <2>5. (InBlock(text, k + 1) <=> InBlock(text, k)) /\ (BlocksOK(text, k) <=> BlocksOK(text, i))
    BY <1>5, <1>6, <1>8 DEF Bounds
  <2>6. CASE EndsStatement(line) /\ ~p.block
    <3>1. CutAfter(text, k)
      BY <1>2, <2>6, CutsAt
    <3>2. Spells(text, Closed(text, k + 1), Flush(longer).out)
      <4>1. k \in 0 .. Len(text) /\ a \in 1 .. k + 1
        BY <1>1
      <4>. QED  BY <1>4, <2>1, <2>2, <2>3, <3>1, <4>1, FlushSpells
    <3>3. q = Flush(longer)
      BY <2>1, <2>6
    <3>4. /\ q \in State /\ q.ok = p.ok /\ q.block = p.block /\ q.current = <<>>
      BY <2>1, <3>3, FlushFields
    <3>5. SubSeq(text, k + 1, k) = <<>> /\ k + 1 \in 1 .. k + 1
      BY <1>1
    <3>6. Since(text, k, q, k + 1)
      BY <1>1, <3>1, <3>2, <3>3, <3>4, <3>5 DEF Since
    <3>7. q.block <=> InBlock(text, k + 1)
      BY <1>2, <2>5, <3>4
    <3>8. q.ok <=> BlocksOK(text, k)
      BY <1>2, <2>5, <3>4
    <3>. QED  BY <3>4, <3>5, <3>6, <3>7, <3>8 DEF HasRead
  <2>7. CASE ~(EndsStatement(line) /\ ~p.block)
    <3>1. q = longer
      BY <2>1, <2>7
    <3>2. a \in 1 .. k + 1
      BY <1>1
    <3>3. line \notin Bounds /\ ~(EndsStatement(line) /\ ~InBlock(text, k))
      BY <1>2, <1>8, <2>7
    <3>4. Since(text, k, q, a)
      BY <1>4, <2>1, <2>2, <2>3, <3>1, <3>2, <3>3 DEF Since
    <3>5. q.block <=> InBlock(text, k + 1)
      BY <1>2, <2>1, <2>5, <3>1
    <3>6. q.ok <=> BlocksOK(text, k)
      BY <1>2, <2>1, <2>5, <3>1
    <3>. QED  BY <2>1, <3>1, <3>2, <3>4, <3>5, <3>6 DEF HasRead
  <2>. QED  BY <2>6, <2>7
<1>. QED  BY <1>7, <1>8

LEMMA AllRead ==
  ASSUME NEW text \in Seq(Lines)
  PROVE  HasRead(text, Len(text), Parser(text)[Len(text)])
<1> DEFINE n == Len(text)
           T == {i \in Nat : i <= n /\ HasRead(text, i, Parser(text)[i])}
<1>1. n \in Nat
  BY LenProperties
<1>2. 0 \in T
  BY <1>1, NothingRead, ParserUnfolds
<1>3. \A i \in 0 .. n : i < n /\ i \in T => i + 1 \in T
  <2> SUFFICES ASSUME NEW i \in 0 .. n, i < n, i \in T
               PROVE  i + 1 \in T
    OBVIOUS
  <2>1. i \in Nat /\ i + 1 \in Nat /\ i + 1 <= n /\ i + 1 \in 1 .. n /\ (i + 1) - 1 = i
    BY <1>1
  <2>2. HasRead(text, i, Parser(text)[i])
    OBVIOUS
  <2>3. Parser(text)[i + 1] = ReadLine(Parser(text)[i], text[i + 1])
    BY <1>1, <2>1, ParserUnfolds
  <2>4. HasRead(text, i + 1, ReadLine(Parser(text)[i], text[i + 1]))
    BY <2>1, <2>2, ReadsOn
  <2>. QED  BY <2>1, <2>3, <2>4
<1>4. n \in 0 .. n
  BY <1>1
<1>5. n \in T
  <2>. HIDE DEF T, n
  <2>. QED  BY <1>1, <1>2, <1>3, <1>4, Climb
<1>. QED  BY <1>5

\* A migration file of any length is refused, or its statements are the runs of
\* its lines (ParseDBMateUp).
THEOREM FileParsedAsWritten ==
  ASSUME NEW file \in Seq(Lines)
  PROVE  ParsedAsWritten(file)
<1> DEFINE text == UpSection(file)
           n == Len(text)
           last == Parser(text)[n]
<1>1. text \in Seq(Lines)
  BY SectionType
<1> HIDE DEF text
<1>2. n \in Nat /\ DOMAIN text = 1 .. n
  BY <1>1, LenProperties
<1>3. HasRead(text, n, last)
  BY <1>1, AllRead
<1> HIDE DEF last
<1>4. last \in State /\ (last.block <=> InBlock(text, n + 1)) /\ (last.ok <=> BlocksOK(text, n))
  BY <1>3 DEF HasRead
<1>5. last.ok /\ ~last.block <=> WellFormed(text)
  BY <1>2, <1>4 DEF WellFormed, BlocksOK
<1>6. ParseDBMateUp(file) =
        IF HasUp(file) /\ last.ok /\ ~last.block THEN Flush(last).out ELSE <<>>
  BY DEF ParseDBMateUp, last, text
<1>7. Spells(text, Segments(text), Flush(last).out)
  <2>1. PICK a \in 1 .. n + 1 : Since(text, n, last, a)
    BY <1>3 DEF HasRead
  <2>2. /\ last.current = SubSeq(text, a, n)
        /\ \A j \in a .. n - 1 : ~CutAfter(text, j)
        /\ a > 1 /\ a <= Len(text) => CutAfter(text, a - 1)
        /\ Spells(text, Closed(text, a), last.out)
    BY <2>1 DEF Since
  <2>3. n \in 0 .. Len(text) /\ ~(n < Len(text))
    BY <1>2
  <2>4. Spells(text, Closed(text, n + 1), Flush(last).out)
    BY <1>1, <1>4, <2>2, <2>3, FlushSpells
  <2>5. Closed(text, n + 1) = Segments(text)
    <3>1. \A r \in Segments(text) : r[2] < n + 1
      BY <1>2 DEF Segments
    <3>. QED  BY <3>1 DEF Closed
  <2>. QED  BY <2>4, <2>5
<1>8. ParsedAsWritten(file) <=>
        IF HasUp(file) /\ WellFormed(text)
          THEN Spells(text, Segments(text), ParseDBMateUp(file))
          ELSE ParseDBMateUp(file) = <<>>
  BY DEF ParsedAsWritten, text
<1>. QED  BY <1>5, <1>6, <1>7, <1>8

LEMMA FilesParsed == ParsesAsWritten
<1> SUFFICES ASSUME NEW k \in 0 .. MaxLines, NEW file \in [1 .. k -> Lines]
             PROVE  ParsedAsWritten(file)
  BY DEF ParsesAsWritten
<1>1. k \in Nat
  BY FilesAssumption
<1>2. file \in Seq(Lines)
  BY <1>1, SeqDef
<1>. QED  BY <1>2, FileParsedAsWritten

-----------------------------------------------------------------------------
\* The processes.

USE MigrationsAssumption DEF Versions

\* The first state: nobody knows anything, the database is as Migrated says.
LEMMA InitMInv == Init => MInv
<1> SUFFICES ASSUME Init PROVE MInv  OBVIOUS
<1>1. TypeOK  BY SMTT(30) DEF Init, TypeOK, Steps
<1>2. HolderOK  BY DEF Init, HolderOK, UnderLock, InTx
<1>3. LookOK  BY DEF Init, LookOK, InTx
<1>4. NeverTwice /\ ServesMigrated  BY DEF Init, NeverTwice, ServesMigrated
<1>5. LedgerMatchesSchema  BY DEF Init, LedgerMatchesSchema
<1> QED  BY <1>1, <1>2, <1>3, <1>4, <1>5 DEF MInv

\* A migration is committed by the holder of the lock only, who knows that it
\* is not listed and has executed all of its statements.
LEMMA PublishOK ==
  ASSUME MInv, NEW s \in Servers, pc[s] = "commit", Publish(s)
  PROVE  /\ lock = s
         /\ at[s] \in Versions
         /\ schema' \in [Versions -> Nat]
         /\ ledger \subseteq ledger' /\ ledger' \subseteq Versions
         /\ at[s] \in ledger'
         /\ LedgerMatchesSchema'
<1>1. lock = s  BY DEF MInv, HolderOK, UnderLock, InTx
<1>2. at[s] \in Versions /\ ran[s] = Statements[at[s]]
  BY DEF MInv, LookOK, InTx
<1>3. /\ schema' = [schema EXCEPT ![at[s]] = Statements[at[s]]]
      /\ ledger' = ledger \cup {at[s]}
  BY <1>2 DEF Publish
<1>4. schema \in [Versions -> Nat] /\ ledger \subseteq Versions
  BY DEF MInv, TypeOK
<1>5. schema' \in [Versions -> Nat]  BY <1>2, <1>3, <1>4
<1>6. LedgerMatchesSchema'
  BY <1>2, <1>3, <1>4 DEF MInv, LedgerMatchesSchema
<1> QED  BY <1>1, <1>2, <1>3, <1>4, <1>5, <1>6

\* A process that has begun nothing and one that gets the lock.
LEMMA BeginsOK ==
  ASSUME MInv, NEW s \in Servers, Start(s) \/ Lock(s)
  PROVE  MInv'
<1>1. CASE Start(s)
  <2> USE <1>1 DEF Start, Goto, database
  <2>1. TypeOK'  BY DEF MInv, TypeOK, Steps
  <2>2. HolderOK'  BY DEF MInv, TypeOK, HolderOK, UnderLock, InTx
  <2>3. LookOK'  BY DEF MInv, TypeOK, LookOK, InTx
  <2>4. (NeverTwice /\ ServesMigrated /\ LedgerMatchesSchema)'
    BY DEF MInv, TypeOK, NeverTwice, ServesMigrated, LedgerMatchesSchema
  <2> QED  BY <2>1, <2>2, <2>3, <2>4 DEF MInv
<1>2. CASE Lock(s)
  <2> USE <1>2 DEF Lock, Goto, database
  <2>0. \A t \in Servers : pc[t] \notin UnderLock /\ ran[t] = 0
    BY DEF MInv, HolderOK
  <2>1. TypeOK'  BY DEF MInv, TypeOK, Steps, UnderLock
  <2>2. HolderOK'  BY <2>0 DEF MInv, TypeOK, HolderOK, UnderLock, InTx
  <2>3. LookOK'  BY <2>0 DEF MInv, TypeOK, LookOK, UnderLock, InTx
  <2>4. (NeverTwice /\ ServesMigrated /\ LedgerMatchesSchema)'
    BY DEF MInv, TypeOK, NeverTwice, ServesMigrated, LedgerMatchesSchema
  <2> QED  BY <2>1, <2>2, <2>3, <2>4 DEF MInv
<1> QED  BY <1>1, <1>2

\* A process that ends after Migrate held neither the lock nor a transaction.
LEMMA StopOK ==
  ASSUME MInv, NEW s \in Servers, Stop(s)
  PROVE  MInv'
<1> USE DEF Stop, Goto, database
<1>1. TypeOK'  BY DEF MInv, TypeOK, Steps
<1>2. HolderOK'  BY DEF MInv, TypeOK, HolderOK, UnderLock, InTx
<1>3. LookOK'  BY DEF MInv, TypeOK, LookOK, InTx
<1>4. (NeverTwice /\ ServesMigrated /\ LedgerMatchesSchema)'
  BY DEF MInv, TypeOK, NeverTwice, ServesMigrated, LedgerMatchesSchema
<1> QED  BY <1>1, <1>2, <1>3, <1>4 DEF MInv

\* The loop: what it has passed is listed.
LEMMA CheckOK ==
  ASSUME MInv, NEW s \in Servers, Check(s)
  PROVE  MInv'
<1> USE DEF Check, Goto, database
<1>0. lock = s /\ ran[s] = 0 /\ \A v \in Versions : v < at[s] => v \in ledger
  BY DEF MInv, HolderOK, LookOK, UnderLock
<1>1. at[s] <= Embedded[s] => at[s] \in Versions
  BY DEF MInv, TypeOK
<1>2. pc' \in [Servers -> Steps]
  BY DEF MInv, TypeOK, Steps, UnderLock, InTx
<1>3. at' \in [Servers -> 1 .. Last + 1]
  <2>1. CASE UNCHANGED at  BY <2>1 DEF MInv, TypeOK
  <2>2. CASE at[s] \in Versions /\ at' = [at EXCEPT ![s] = @ + 1]
    <3>1. at[s] + 1 \in 1 .. Last + 1  BY <2>2
    <3> QED  BY <2>2, <3>1 DEF MInv, TypeOK
  <2> QED  BY <1>1, <2>1, <2>2
<1>4. TypeOK'  BY <1>2, <1>3 DEF MInv, TypeOK
<1>5. HolderOK'  BY <1>0 DEF MInv, TypeOK, HolderOK, UnderLock, InTx
<1>6. LookOK'
  <2> SUFFICES ASSUME NEW t \in Servers PROVE LookOK!(t)'  BY DEF LookOK
  <2>1. CASE t # s  BY <2>1 DEF MInv, TypeOK, LookOK, InTx
  <2>2. CASE t = s  BY <2>2, <1>0, <1>1 DEF MInv, TypeOK, LookOK, InTx
  <2> QED  BY <2>1, <2>2
<1>7. UNCHANGED <<schema, ledger>>  OBVIOUS
<1>8. (NeverTwice /\ ServesMigrated /\ LedgerMatchesSchema)'
  <2>1. LedgerMatchesSchema'  BY <1>7 DEF MInv, LedgerMatchesSchema
  <2>2. NeverTwice'  BY DEF MInv, TypeOK, NeverTwice
  <2>3. ServesMigrated'  BY DEF MInv, TypeOK, ServesMigrated
  <2> QED  BY <2>1, <2>2, <2>3
<1> QED  BY <1>4, <1>5, <1>6, <1>8 DEF MInv

\* No statement meets its own object: the migration is not listed, hence not
\* there.
LEMMA ExecuteOK ==
  ASSUME MInv, NEW s \in Servers, Execute(s)
  PROVE  MInv'
<1> USE DEF Execute, Goto, database
<1>0. /\ lock = s /\ at[s] \in Versions /\ at[s] \notin ledger
      /\ ran[s] \in Nat /\ ran[s] < Statements[at[s]]
  BY DEF MInv, TypeOK, HolderOK, LookOK, UnderLock, InTx
<1>1. ~(schema[at[s]] > ran[s])
  BY <1>0 DEF MInv, LedgerMatchesSchema
<1>2. /\ ran' = [ran EXCEPT ![s] = ran[s] + 1]
      /\ pc' = [pc EXCEPT ![s] =
           IF ran'[s] = Statements[at[s]] THEN "record" ELSE "apply"]
      /\ UNCHANGED <<schema, ledger, lock, at, faults>>
  BY <1>1
<1>3. TypeOK'  BY <1>0, <1>2 DEF MInv, TypeOK, Steps, UnderLock, InTx
<1>4. HolderOK'  BY <1>0, <1>2 DEF MInv, TypeOK, HolderOK, UnderLock, InTx
<1>5. LookOK'
  <2> SUFFICES ASSUME NEW t \in Servers PROVE LookOK!(t)'  BY DEF LookOK
  <2>1. CASE t # s  BY <2>1, <1>2 DEF MInv, TypeOK, LookOK, InTx
  <2>2. CASE t = s  BY <2>2, <1>0, <1>2 DEF MInv, TypeOK, LookOK, InTx
  <2> QED  BY <2>1, <2>2
<1>6. (NeverTwice /\ ServesMigrated /\ LedgerMatchesSchema)'
  BY <1>2 DEF MInv, TypeOK, NeverTwice, ServesMigrated, LedgerMatchesSchema
<1> QED  BY <1>3, <1>4, <1>5, <1>6 DEF MInv

\* The version is not listed twice.
LEMMA RecordOK ==
  ASSUME MInv, NEW s \in Servers, Record(s)
  PROVE  MInv'
<1> USE DEF Record, Goto, database
<1>0. lock = s /\ at[s] \notin ledger
  BY DEF MInv, HolderOK, LookOK, UnderLock, InTx
<1>1. pc' = [pc EXCEPT ![s] = "commit"]  BY <1>0
<1>2. TypeOK'  BY <1>1 DEF MInv, TypeOK, Steps, UnderLock, InTx
<1>3. HolderOK'  BY <1>0, <1>1 DEF MInv, TypeOK, HolderOK, UnderLock, InTx
<1>4. LookOK'  BY <1>1 DEF MInv, TypeOK, LookOK, InTx
<1>5. (NeverTwice /\ ServesMigrated /\ LedgerMatchesSchema)'
  BY <1>1 DEF MInv, TypeOK, NeverTwice, ServesMigrated, LedgerMatchesSchema
<1> QED  BY <1>2, <1>3, <1>4, <1>5 DEF MInv

\* The holder commits, and goes on to the next version.
LEMMA CommitOK ==
  ASSUME MInv, NEW s \in Servers, Commit(s)
  PROVE  MInv'
<1> USE DEF Commit, Goto
<1>0. /\ lock = s /\ at[s] \in Versions
      /\ schema' \in [Versions -> Nat]
      /\ ledger \subseteq ledger' /\ ledger' \subseteq Versions
      /\ at[s] \in ledger'
      /\ LedgerMatchesSchema'
  BY PublishOK
<1>1. TypeOK'
  <2>1. at[s] + 1 \in 1 .. Last + 1  BY <1>0
  <2>2. at' \in [Servers -> 1 .. Last + 1]  BY <2>1 DEF MInv, TypeOK
  <2>3. pc' \in [Servers -> Steps]  BY DEF MInv, TypeOK, Steps, UnderLock
  <2> QED  BY <1>0, <2>2, <2>3 DEF MInv, TypeOK
<1>2. HolderOK'  BY <1>0 DEF MInv, TypeOK, HolderOK, UnderLock, InTx
<1>3. \A t \in Servers \ {s} : pc[t] \notin UnderLock
  BY <1>0 DEF MInv, HolderOK
<1>4. LookOK'
  <2> SUFFICES ASSUME NEW t \in Servers PROVE LookOK!(t)'  BY DEF LookOK
  <2>1. CASE t # s
    BY <2>1, <1>3 DEF MInv, TypeOK, LookOK, UnderLock, InTx
  <2>2. CASE t = s
    <3>1. \A v \in Versions : v < at[s] => v \in ledger
      BY DEF MInv, LookOK, InTx
    <3>2. at'[s] = at[s] + 1 /\ ran'[s] = 0 /\ pc'[s] = "check"
      BY DEF MInv, TypeOK
    <3>3. \A v \in Versions : v < at'[s] => v \in ledger'
      BY <3>1, <3>2, <1>0
    <3> QED  BY <2>2, <3>2, <3>3 DEF InTx
  <2> QED  BY <2>1, <2>2
<1>5. (NeverTwice /\ ServesMigrated)'
  BY <1>0 DEF MInv, TypeOK, NeverTwice, ServesMigrated
<1> QED  BY <1>0, <1>1, <1>2, <1>4, <1>5 DEF MInv

\* The lock is given up when nobody else has begun; a process that serves
\* has passed every migration of its binary.
LEMMA UnlockOK ==
  ASSUME MInv, NEW s \in Servers, Unlock(s)
  PROVE  MInv'
<1> USE DEF Unlock, Goto, database
<1>0. lock = s  BY DEF MInv, HolderOK, UnderLock
<1>1. \A t \in Servers \ {s} : pc[t] \notin UnderLock /\ ran[t] = 0
  BY <1>0 DEF MInv, HolderOK
<1>2. pc[s] = "unlock" => 1 .. Embedded[s] \subseteq ledger
  BY DEF MInv, TypeOK, LookOK
<1>3. TypeOK'  BY DEF MInv, TypeOK, Steps
<1>4. HolderOK'  BY <1>1 DEF MInv, TypeOK, HolderOK, UnderLock, InTx
<1>5. LookOK'  BY <1>1 DEF MInv, TypeOK, LookOK, UnderLock, InTx
<1>6. (NeverTwice /\ ServesMigrated /\ LedgerMatchesSchema)'
  BY <1>2 DEF MInv, TypeOK, NeverTwice, ServesMigrated, LedgerMatchesSchema
<1> QED  BY <1>3, <1>4, <1>5, <1>6 DEF MInv

\* A process that failed or died keeps the lock and the open transaction.
LEMMA FaultOK ==
  ASSUME MInv, NEW s \in Servers, Fail(s) \/ Die(s)
  PROVE  MInv'
<1> USE DEF Goto, Fault, database
<1>1. CASE Fail(s)
  <2> USE <1>1 DEF Fail
  <2>0. lock = s  BY DEF MInv, HolderOK, UnderLock
  <2>1. TypeOK'  BY DEF MInv, TypeOK, Steps, UnderLock
  <2>2. HolderOK'  BY <2>0 DEF MInv, TypeOK, HolderOK, UnderLock
  <2>3. LookOK'  BY DEF MInv, TypeOK, LookOK, InTx
  <2>4. (NeverTwice /\ ServesMigrated /\ LedgerMatchesSchema)'
    BY DEF MInv, TypeOK, NeverTwice, ServesMigrated, LedgerMatchesSchema
  <2> QED  BY <2>1, <2>2, <2>3, <2>4 DEF MInv
<1>2. CASE Die(s)
  <2> USE <1>2 DEF Die
  <2>0. CASE UNCHANGED database
    <3>1. TypeOK'  BY <2>0 DEF MInv, TypeOK, Steps
    <3>2. HolderOK'  BY DEF MInv, TypeOK, HolderOK, UnderLock, InTx
    <3>3. LookOK'  BY <2>0 DEF MInv, TypeOK, LookOK, InTx
    <3>4. (NeverTwice /\ ServesMigrated /\ LedgerMatchesSchema)'
      BY <2>0
      DEF MInv, TypeOK, NeverTwice, ServesMigrated, LedgerMatchesSchema
    <3> QED  BY <3>1, <3>2, <3>3, <3>4 DEF MInv
  <2>1. CASE pc[s] = "commit" /\ Publish(s)
    <3>0. /\ lock = s
          /\ schema' \in [Versions -> Nat]
          /\ ledger \subseteq ledger' /\ ledger' \subseteq Versions
          /\ LedgerMatchesSchema'
      BY <2>1, PublishOK
    <3>1. TypeOK'  BY <3>0 DEF MInv, TypeOK, Steps
    <3>2. HolderOK'  BY <3>0 DEF MInv, TypeOK, HolderOK, UnderLock, InTx
    <3>3. \A t \in Servers \ {s} : pc[t] \notin UnderLock
      BY <3>0 DEF MInv, HolderOK
    <3>4. LookOK'  BY <3>3 DEF MInv, TypeOK, LookOK, UnderLock, InTx
    <3>5. (NeverTwice /\ ServesMigrated)'
      BY <3>0 DEF MInv, TypeOK, NeverTwice, ServesMigrated
    <3> QED  BY <3>0, <3>1, <3>2, <3>4, <3>5 DEF MInv
  <2> QED  BY <2>0, <2>1
<1> QED  BY <1>1, <1>2

\* The end of a session frees its own lock only.
LEMMA SessionEndsOK ==
  ASSUME MInv, NEW s \in Servers, SessionEnds(s)
  PROVE  MInv'
<1> USE DEF SessionEnds, Goto, database
<1>1. TypeOK'  BY DEF MInv, TypeOK, Steps
<1>2. HolderOK'  BY DEF MInv, TypeOK, HolderOK, UnderLock, InTx
<1>3. LookOK'  BY DEF MInv, TypeOK, LookOK, InTx
<1>4. (NeverTwice /\ ServesMigrated /\ LedgerMatchesSchema)'
  BY DEF MInv, TypeOK, NeverTwice, ServesMigrated, LedgerMatchesSchema
<1> QED  BY <1>1, <1>2, <1>3, <1>4 DEF MInv

\* Every step of every process and session.
LEMMA NextMInv == MInv /\ [Next]_vars => MInv'
<1> SUFFICES ASSUME MInv, [Next]_vars PROVE MInv'  OBVIOUS
<1>1. CASE UNCHANGED vars
  BY <1>1 DEF vars, MInv, TypeOK, HolderOK, LookOK, NeverTwice,
              ServesMigrated, LedgerMatchesSchema, UnderLock, InTx
<1>2. CASE Next
  <2> PICK s \in Servers :
             Start(s) \/ Proceed(s) \/ Stop(s) \/ Fail(s) \/ Die(s)
    BY <1>2 DEF Next
  <2> QED
    BY BeginsOK, CheckOK, ExecuteOK, RecordOK, CommitOK, UnlockOK,
       StopOK, SessionEndsOK, FaultOK DEF Proceed
<1> QED  BY <1>1, <1>2

\* The inductive invariant holds in every reachable state: all of Migrate's
\* knowledge of the ledger is gained and used under one hold of the lock.
THEOREM MigrationInvariant == Spec => []MInv
BY InitMInv, NextMInv, PTL DEF Spec

\* No start fails on a migration that has already been applied, by whomever.
THEOREM MigratesOnce == Spec => []NeverTwice
BY MigrationInvariant, PTL DEF MInv

\* A migration is in the database as a whole and listed, or not at all.
THEOREM LedgerIsTrue == Spec => []LedgerMatchesSchema
BY MigrationInvariant, PTL DEF MInv

\* Requests are served on a database that has the migrations of the binary.
THEOREM NoServiceBeforeMigrated == Spec => []ServesMigrated
BY MigrationInvariant, PTL DEF MInv
=============================================================================
