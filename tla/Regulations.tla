----------------------------- MODULE Regulations -----------------------------
(***************************************************************************)
(* Cutting the regulations into numbered chunks.  regulations.py does this *)
(* for the service and build_index.py, with the same rules, for the        *)
(* evaluation.                                                             *)
(*                                                                         *)
(* A line is a heading of a level, or text of level 0 that may begin a     *)
(* clause ("1. ..."); a line of size 0 is blank.  A file is a document id  *)
(* with its lines.                                                         *)
(***************************************************************************)
EXTENDS Loops, Naturals, Sequences, SequencesExt, FiniteSetsExt

CONSTANTS
  Files,      \* file names, in the order they are read
  MaxChars    \* MAX_CHUNK_CHARS

ASSUME RegulationsAssumption == MaxChars \in Nat \ {0}

Line == [level : Nat, clause : BOOLEAN, size : Nat, word : STRING]

Regulation == [id : STRING, lines : Seq(Line)]

IsBlank(line) == line.level = 0 /\ line.size = 0

(* strip(): blank lines go at both ends. *)
StripLines(lines) ==
  LET first == SelectInSeq(lines, LAMBDA l : ~IsBlank(l))
      last  == SelectLastInSeq(lines, LAMBDA l : ~IsBlank(l))
  IN IF first = 0 THEN <<>> ELSE SubSeq(lines, first, last)

(* Characters of some lines joined by line ends. *)
Chars(lines) ==
  IF lines = <<>> THEN 0 ELSE Total([i \in DOMAIN lines |-> lines[i].size]) + Len(lines) - 1

(* A text is cut before every line that begins a clause, the first excepted. *)
AddLine(parts, line) ==
  IF parts = <<>> \/ line.clause
  THEN Append(parts, <<line>>)
  ELSE Append(Front(parts), Append(Last(parts), line))

Clauses(lines) ==
  LET upto[n \in 0..Len(lines)] ==
        IF n = 0 THEN <<>> ELSE AddLine(upto[n - 1], lines[n])
  IN  upto[Len(lines)]

(* Clauses are put together as long as they fit; the line end between them
   is not counted. *)
PackClause(pieces, part) ==
  IF pieces = <<>> \/ Chars(Last(pieces)) + Chars(part) > MaxChars
  THEN Append(pieces, part)
  ELSE Append(Front(pieces), Last(pieces) \o part)

Packed(parts) ==
  LET upto[n \in 0..Len(parts)] ==
        IF n = 0 THEN <<>> ELSE PackClause(upto[n - 1], parts[n])
  IN  upto[Len(parts)]

SplitLongChunk(lines) ==
  IF Chars(lines) <= MaxChars THEN <<lines>>
  ELSE LET pieces == Packed(Clauses(lines))
       IN [p \in DOMAIN pieces |-> StripLines(pieces[p])]

(* The scanner: the headings above the current line, whether there is one,
   the lines since it, and the chunks so far. *)
NewScan(file) == [id |-> file.id, crumb |-> <<file.id>>, headed |-> FALSE, open |-> <<>>, chunks |-> <<>>]

Flush(scan) ==
  LET pieces == IF ~scan.headed \/ StripLines(scan.open) = <<>>
                THEN <<>> ELSE SplitLongChunk(StripLines(scan.open))
      number == Len(scan.chunks)
  IN [scan EXCEPT !.chunks = @ \o [p \in DOMAIN pieces |->
        [id |-> <<scan.id, number + p>>, path |-> scan.crumb, body |-> pieces[p]]]]

(* Only as many headings above as the level allows are kept. *)
ScanLine(scan, line) ==
  CASE line.level > 0 ->
         LET done == Flush(scan)
         IN [done EXCEPT !.crumb = Append(SubSeq(@, 1, Min({Len(@), line.level - 1})), line.word),
                         !.headed = TRUE, !.open = <<>>]
    [] line.level = 0 /\ scan.headed -> [scan EXCEPT !.open = Append(@, line)]
    [] OTHER -> scan

Scanned(file) ==
  LET upto[n \in 0..Len(file.lines)] ==
        IF n = 0 THEN NewScan(file) ELSE ScanLine(upto[n - 1], file.lines[n])
  IN  upto[Len(file.lines)]

(* Variant: the section still open at the end of the file is forgotten. *)
ChunkDocument_NoLastFlush(file) == Scanned(file).chunks

ChunkDocument(file) == Flush(Scanned(file)).chunks

ChunkAll(docs) == FlattenSeq([f \in DOMAIN Files |-> ChunkDocument(docs[Files[f]])])

IdsOf(chunks) == {chunks[c].id : c \in DOMAIN chunks}

-----------------------------------------------------------------------------
(* Every line that says something below a heading is in exactly one chunk,
   in the order of the file; chunks are numbered from 1 without a gap; and
   a chunk is longer than the limit only by the one line end that was not
   counted, unless it is a single clause. *)
CutWhole(file) ==
  LET chunks == ChunkDocument(file)
      bodies == FlattenSeq([c \in DOMAIN chunks |-> chunks[c].body])
      first  == SelectInSeq(file.lines, LAMBDA l : l.level > 0)
      below  == IF first = 0 THEN <<>> ELSE SubSeq(file.lines, first, Len(file.lines))
      silent == {l \in ToSet(file.lines) : l.level > 0 \/ IsBlank(l)}
  IN /\ Without(bodies, silent) = Without(below, silent)
     /\ \A c \in DOMAIN chunks :
          /\ chunks[c].id = <<file.id, c>>
          /\ \/ Chars(chunks[c].body) <= MaxChars + 1
             \/ Len(Clauses(chunks[c].body)) = 1
=============================================================================
