--------------------------- MODULE MigrationFile ---------------------------
(***************************************************************************)
(* ParseDBMateUp: the statements of a migration file.  A line matters only *)
(* as a marker, as SQL that does or does not end with a semicolon, as a    *)
(* comment with or without one, or as blank; a marker stands at the start  *)
(* of its line.                                                            *)
(***************************************************************************)
EXTENDS Naturals, Sequences

CONSTANT MaxLines   \* the longest file that ParsesAsWritten looks at
ASSUME FilesAssumption == MaxLines \in Nat

Markers == {"up", "down", "begin", "end"}
Sql == {"sql", "sql;"}
Lines == Markers \cup Sql \cup {"comment", "comment;", "blank"}

\* strings.HasSuffix(trimmed, ";"), which comments can have too.
EndsStatement(line) == line \in {"sql;", "comment;"}

moduleContainsSQL(text) == \E i \in DOMAIN text : text[i] \in Sql

\* strings.Cut: where the marker stands first, or a place behind the text.
First(text, marker) == CHOOSE i \in 1 .. Len(text) + 1 :
  /\ i <= Len(text) => text[i] = marker
  /\ \A j \in 1 .. i - 1 : text[j] # marker

\* The lines after the first `up' and before the first `down' after it.
UpSection(file) ==
  LET rest == SubSeq(file, First(file, "up") + 1, Len(file))
  IN SubSeq(rest, 1, First(rest, "down") - 1)

HasUp(file) == \E i \in DOMAIN file : file[i] = "up"

\* The parser between two lines: done, the text collected, within a block.
Flush(p) == [p EXCEPT
  !.out = IF moduleContainsSQL(p.current) THEN Append(@, p.current) ELSE @,
  !.current = <<>>]

\* Variant: an `end' without a `begin' is ignored.
ReadLineForgiving(p, line) ==
  IF line \in {"begin", "end"}
    THEN [Flush(p) EXCEPT !.block = line = "begin",
                          !.ok = @ /\ (p.block => line = "end")]
    ELSE LET q == [p EXCEPT !.current = Append(@, line)]
         IN IF EndsStatement(line) /\ ~p.block THEN Flush(q) ELSE q

ReadLine(p, line) ==
  IF line \in {"begin", "end"}
    THEN [Flush(p) EXCEPT !.block = line = "begin",
                          !.ok = @ /\ (p.block <=> line = "end")]
    ELSE LET q == [p EXCEPT !.current = Append(@, line)]
         IN IF EndsStatement(line) /\ ~p.block THEN Flush(q) ELSE q

Fresh == [ok |-> TRUE, out |-> <<>>, current |-> <<>>, block |-> FALSE]

\* The parser after each line of the section.
Parser(text) ==
  LET p[i \in 0 .. Len(text)] ==
        IF i = 0 THEN Fresh ELSE ReadLine(p[i - 1], text[i])
  IN p

\* The statements, <<>> when the file is refused.
ParseDBMateUp(file) ==
  LET text == UpSection(file)
      last == Parser(text)[Len(text)]
  IN IF HasUp(file) /\ last.ok /\ ~last.block
       THEN Flush(last).out ELSE <<>>

-----------------------------------------------------------------------------
\* The same without a parser: positions, blocks and cuts.

\* Line i of the section is within a block.
InBlock(text, i) == \E b \in 1 .. i - 1 :
  text[b] = "begin" /\ \A j \in b .. i - 1 : text[j] # "end"

\* A statement may not go on from line i to line i + 1.
CutAfter(text, i) ==
  \/ {text[i], text[i + 1]} \cap {"begin", "end"} # {}
  \/ EndsStatement(text[i]) /\ ~InBlock(text, i)

WellFormed(text) ==
  /\ \A i \in DOMAIN text :
       /\ text[i] = "begin" => ~InBlock(text, i)
       /\ text[i] = "end" => InBlock(text, i)
  /\ ~InBlock(text, Len(text) + 1)

\* The maximal runs of lines without a cut that contain SQL.
Segments(text) ==
  {r \in (DOMAIN text) \X (DOMAIN text) :
     /\ r[1] <= r[2]
     /\ \A i \in r[1] .. r[2] - 1 : ~CutAfter(text, i)
     /\ r[1] > 1 => CutAfter(text, r[1] - 1)
     /\ r[2] < Len(text) => CutAfter(text, r[2])
     /\ \E i \in r[1] .. r[2] : text[i] \in Sql}

\* The statements are these runs, all of them and in their order.
Spells(text, runs, statements) ==
  \E place \in [DOMAIN statements -> runs] :
    /\ {place[i] : i \in DOMAIN statements} = runs
    /\ \A i, j \in DOMAIN statements : i < j => place[i][2] < place[j][1]
    /\ \A i \in DOMAIN statements :
         statements[i] = SubSeq(text, place[i][1], place[i][2])

\* A file is refused, or its statements are just these runs: no line of SQL is
\* dropped, moved or joined to another statement, and no block is split.
ParsedAsWritten(file) ==
  LET text == UpSection(file)
      statements == ParseDBMateUp(file)
  IN IF HasUp(file) /\ WellFormed(text)
       THEN Spells(text, Segments(text), statements)
       ELSE statements = <<>>

ParsesAsWritten ==
  \A file \in UNION {[1 .. k -> Lines] : k \in 0 .. MaxLines} : ParsedAsWritten(file)
=============================================================================
