-------------------------------- MODULE Index --------------------------------
(***************************************************************************)
(* The tutor's material: the documents that build_corpus derives from the  *)
(* lecture sources, the chunks that init_vectorstore cuts them into, and   *)
(* the vector store with its completion marker, built by a process of its  *)
(* own that is killed, fails and is run again while the server serves.     *)
(*                                                                         *)
(* A line of a document is known by what it is, a heading with its title,  *)
(* a fence or text, and by its length.                                     *)
(***************************************************************************)
EXTENDS Loops, Integers, Sequences, SequencesExt, FiniteSets

CONSTANTS
  Sections,     \* the sections of the lecture sources
  Source,       \* what a section's directory holds, [Sections -> [readme, docs, code]]
  Batch,        \* chunks per call to the embedding model
  Tries,        \* times a batch is tried
  MaxBuilds,    \* bound: runs of init_vectorstore
  ChunkMax, ChunkTarget, ChunkMin, Overlap,   \* lengths
  Shapes        \* bound: documents tried out with --dry-run, sequences of lines

MaxLevel == 6

(* A line that is not blank; a fence's mark is one of two. *)
DocLine ==
  {line \in [is : {"heading", "fence", "text"}, level : 0..MaxLevel, title : Nat, mark : 0..2,
             len : Nat \ {0}] :
     /\ line.is = "heading" => line.level > 0
     /\ line.is = "fence" => line.mark > 0}

(* A chunk has room for more than the headings put before it. *)
ASSUME IndexAssumption ==
  /\ Source \in [Sections -> [readme : BOOLEAN, docs : BOOLEAN, code : BOOLEAN]]
  /\ {Batch, Tries, Overlap} \subseteq Nat \ {0}
  /\ {MaxBuilds, ChunkMax, ChunkTarget, ChunkMin} \subseteq Nat
  /\ ChunkMax > 1 + MaxLevel
  /\ Shapes \subseteq Seq(DocLine)

VARIABLES
  store,      \* ids in the vector store
  marker,     \* the completion marker exists
  build,      \* the run of init_vectorstore
  opened,     \* the server's handle: not opened, on the store, or on one removed since
  removed,    \* what such a handle still shows
  cut         \* the chunks a dry run reported

indexVars == <<store, marker, build, opened, removed, cut>>

-----------------------------------------------------------------------------
(* A section's README becomes a lesson; its examples a description, from
   their docstrings, and a model solution, from their code, which is the one
   kind of document a learner must not see.  A chapter's own README becomes
   a lesson too, as if of a section that holds nothing else. *)
Corpus ==
  LET Doc(kind, visibility, wanted) ==
        {[section |-> s, kind |-> kind, visibility |-> visibility] : s \in {x \in Sections : wanted[x]}}
  IN  Doc("lesson", "public", [s \in Sections |-> Source[s].readme])
      \cup Doc("description", "public", [s \in Sections |-> Source[s].docs])
      \cup Doc("solution", "restricted", [s \in Sections |-> Source[s].code])

(* build_corpus refuses a source without any restricted document. *)
ASSUME RestrictedAssumption == \E doc \in Corpus : doc.visibility = "restricted"

(* The id of a chunk names its document and its place in it.  Each document
   is one chunk here: what a chunk is cut from does not matter to the store. *)
IdsOf(docs) == docs

Public(id) == id.visibility = "public"

-----------------------------------------------------------------------------
(* Cutting a document into blocks.  Inside a code fence, which only its own
   mark closes, nothing is a heading.  The path of a block are the titles of
   the headings above it. *)
NoBlocks == [blocks |-> <<>>, path |-> <<>>, lines |-> <<>>, len |-> 0, fence |-> 0]

Flush(p, doc, kind) ==
  IF p.lines = <<>> THEN p
  ELSE [p EXCEPT !.blocks = Append(@, [kind |-> kind, lines |-> p.lines, len |-> p.len - 1,
                                       path |-> [h \in DOMAIN p.path |-> doc[p.path[h]].title]]),
                 !.lines = <<>>, !.len = 0]

Keep(p, doc, n) == [p EXCEPT !.lines = Append(@, n), !.len = @ + doc[n].len + 1]

ParseLine(p, doc, n) ==
  LET line   == doc[n]
      inCode == p.fence # 0
      above  == Without(p.path, {h \in DOMAIN doc : doc[h].level >= line.level})
  IN  CASE inCode /\ line.is = "fence" /\ line.mark = p.fence ->
             [Flush(Keep(p, doc, n), doc, "code") EXCEPT !.fence = 0]
        [] ~inCode /\ line.is = "fence" ->
             Keep([Flush(p, doc, "prose") EXCEPT !.fence = line.mark], doc, n)
        [] ~inCode /\ line.is = "heading" ->
             [Flush(p, doc, "prose") EXCEPT !.path = Append(above, n)]
        [] OTHER -> Keep(p, doc, n)

Parsed(doc) ==
  LET upto[n \in 0..Len(doc)] == IF n = 0 THEN NoBlocks ELSE ParseLine(upto[n - 1], doc, n)
  IN  upto[Len(doc)]

ParseBlocks(doc) ==
  LET last == Parsed(doc)
  IN  Flush(last, doc, IF last.fence # 0 THEN "code" ELSE "prose").blocks

(* Packing blocks into chunks.  The line of headings put before a chunk takes
   Crumb(path); blocks are joined by blank lines.  The parts of a chunk are
   the blocks it was given; its text is what stands in it: how much of which
   block, where, and whether it is there again. *)
Sep == 2
Crumb(path) == 1 + Len(path)

NoChunk == [path |-> <<>>, len |-> 0, parts |-> <<>>, text |-> {}]

Told(k, at, len) == [block |-> k, at |-> at, len |-> len, again |-> FALSE]

Moved(text, by) == {[piece EXCEPT !.at = @ + by] : piece \in text}

(* The end of a text, whatever it is the end of. *)
Ending(text, from) ==
  LET start(piece) == IF piece.at < from THEN from ELSE piece.at
  IN  {[block |-> piece.block, at |-> start(piece) - from, len |-> piece.at + piece.len - start(piece),
        again |-> TRUE] : piece \in {any \in text : any.at + any.len > from}}

(* What stands in a chunk before its text. *)
Blanks(chunk) == Cardinality({n \in 0..(chunk.len - 1) : \A piece \in chunk.text : n < piece.at})

(* The open chunk ends with a separator, which is stripped, and so is what
   is left of one at its beginning. *)
Close(p) ==
  LET blanks == Blanks(p.open)
  IN  IF p.open.len = 0 THEN p
      ELSE [out  |-> Append(p.out, [p.open EXCEPT !.len = @ - Sep - blanks, !.text = Moved(@, -blanks)]),
            open |-> NoChunk]

(* A code block over the limit stays whole, a prose block over it is cut by
   a splitter that keeps to the limit. *)
Oversize(p, block, k, limit) ==
  LET piece(len) == [path |-> block.path, len |-> len, parts |-> <<k>>, text |-> {Told(k, 0, len)}]
      pieces == IF block.kind = "code" THEN <<piece(block.len)>>
                ELSE [m \in 1..((block.len + limit - 1) \div limit) |->
                        piece(IF m * limit <= block.len THEN limit ELSE block.len % limit)]
  IN  [Close(p) EXCEPT !.out = @ \o pieces]

(* Any other block is added to the open chunk.  When it does not fit, the
   next chunk begins with the last Overlap characters of this one, the end of
   a code block like any other; a chunk that has reached its target is
   closed. *)
Adjoin(p, block, k, limit) ==
  LET full  == p.open.len > 0 /\ p.open.len + block.len + Sep > limit
      from  == IF p.open.len < Overlap THEN 0 ELSE p.open.len - Overlap
      begun == IF full THEN [NoChunk EXCEPT !.len = p.open.len - from + Sep,
                                            !.text = Ending(p.open.text, from)]
               ELSE p.open
      added == [(IF full THEN Close(p) ELSE p) EXCEPT
                  !.open = [path  |-> block.path,
                            len   |-> begun.len + block.len + Sep,
                            parts |-> Append(begun.parts, k),
                            text  |-> begun.text \cup {Told(k, begun.len, block.len)}]]
  IN  IF added.open.len >= ChunkTarget THEN Close(added) ELSE added

(* Variant: text under two headings may share a chunk. *)
PackBlock_AcrossHeadings(p, block, k) ==
  LET limit == ChunkMax - Crumb(block.path)
  IN  IF block.len > limit THEN Oversize(p, block, k, limit) ELSE Adjoin(p, block, k, limit)

PackBlock(p, block, k) ==
  LET here  == IF p.open.path # block.path THEN Close(p) ELSE p
      limit == ChunkMax - Crumb(block.path)
  IN  IF block.len > limit THEN Oversize(here, block, k, limit) ELSE Adjoin(here, block, k, limit)

(* A chunk below the minimum joins the one before it, if both stand under
   one heading and fit. *)
Merge(merged, chunk) ==
  LET before == Last(merged)
  IN  IF /\ merged # <<>>
         /\ chunk.len < ChunkMin
         /\ before.path = chunk.path
         /\ before.len + chunk.len + Sep <= ChunkMax - Crumb(chunk.path)
      THEN Append(Front(merged), [before EXCEPT !.len = @ + Sep + chunk.len,
                                                !.parts = @ \o chunk.parts,
                                                !.text = @ \cup Moved(chunk.text, before.len + Sep)])
      ELSE Append(merged, chunk)

Packed(blocks) ==
  LET upto[k \in 0..Len(blocks)] ==
        IF k = 0 THEN [out |-> <<>>, open |-> NoChunk]
        ELSE PackBlock(upto[k - 1], blocks[k], k)
  IN  Close(upto[Len(blocks)]).out

Merged(chunks) ==
  LET upto[n \in 0..Len(chunks)] ==
        IF n = 0 THEN <<>> ELSE Merge(upto[n - 1], chunks[n])
  IN  upto[Len(chunks)]

Pack(blocks) == Merged(Packed(blocks))

-----------------------------------------------------------------------------
NoReport == [doc |-> <<>>, blocks |-> <<>>, chunks |-> <<>>]

NoBuild == [at |-> "none", snapshot |-> IdsOf(Corpus), todo |-> {}, tries |-> 0, resume |-> FALSE,
            runs |-> 0]

(* The server starts beside a finished index, or beside what a run that was
   killed has left of one, which may be nothing. *)
IndexInit ==
  /\ store \in SUBSET IdsOf(Corpus)
  /\ marker \in BOOLEAN /\ (marker => store = IdsOf(Corpus))
  /\ build = NoBuild
  /\ opened = "no"
  /\ removed = {}
  /\ cut = NoReport

(* Files are read in the order of their paths: of one section the lesson
   before the description before the solution; which section comes first is
   left open.  --limit takes the first of them. *)
FirstFiles ==
  LET rank(doc) == CASE doc.kind = "lesson" -> 1 [] doc.kind = "description" -> 2 [] OTHER -> 3
  IN  {docs \in (SUBSET Corpus) \ {{}} :
         \A d \in docs, e \in Corpus \ docs : d.section = e.section => rank(d) <= rank(e)}

(* Variant: the old marker stays until the new one is written over it. *)
StartBuild_MarkerStays ==
  /\ build.at = "none" /\ build.runs < MaxBuilds
  /\ \E docs \in FirstFiles, resume \in BOOLEAN :
       /\ build' = [build EXCEPT !.at = IF resume THEN "open" ELSE "clear", !.resume = resume,
                                 !.snapshot = IdsOf(docs), !.runs = @ + 1]
  /\ UNCHANGED <<store, marker, opened, removed, cut>>

(* A run reads the corpus, or with --limit its first files only, and takes
   the marker away before it touches anything else. *)
StartBuild ==
  /\ build.at = "none" /\ build.runs < MaxBuilds
  /\ \E docs \in FirstFiles, resume \in BOOLEAN :
       /\ build' = [build EXCEPT !.at = IF resume THEN "open" ELSE "clear", !.resume = resume,
                                 !.snapshot = IdsOf(docs), !.runs = @ + 1]
  /\ marker' = FALSE
  /\ UNCHANGED <<store, opened, removed, cut>>

(* Without --resume the old store goes, under the feet of a server that has
   it open. *)
ClearStore ==
  /\ build.at = "clear"
  /\ store' = {}
  /\ IF opened = "live" THEN opened' = "stale" /\ removed' = store
                        ELSE UNCHANGED <<opened, removed>>
  /\ build' = [build EXCEPT !.at = "open"]
  /\ UNCHANGED <<marker, cut>>

(* What is stored already is not embedded again. *)
OpenStore ==
  /\ build.at = "open"
  /\ LET todo == IF build.resume THEN build.snapshot \ store ELSE build.snapshot
     IN  build' = [build EXCEPT !.at = IF todo = {} THEN "finish" ELSE "add", !.todo = todo, !.tries = 0]
  /\ UNCHANGED <<store, marker, opened, removed, cut>>

AddBatch ==
  /\ build.at = "add"
  /\ \E ids \in SUBSET build.todo :
       /\ Cardinality(ids) = IF Cardinality(build.todo) < Batch THEN Cardinality(build.todo) ELSE Batch
       /\ store' = store \cup ids
       /\ build' = [build EXCEPT !.todo = @ \ ids, !.tries = 0,
                                 !.at = IF build.todo = ids THEN "finish" ELSE "add"]
  /\ UNCHANGED <<marker, opened, removed, cut>>

(* A limit that was hit or a connection that failed: wait and try the same
   batch again, a bounded number of times. *)
RetryBatch ==
  /\ build.at = "add" /\ build.tries < Tries - 1
  /\ build' = [build EXCEPT !.tries = @ + 1]
  /\ UNCHANGED <<store, marker, opened, removed, cut>>

(* The marker is the last thing a run writes. *)
FinishBuild ==
  /\ build.at = "finish"
  /\ marker' = TRUE
  /\ build' = [build EXCEPT !.at = "none", !.todo = {}]
  /\ UNCHANGED <<store, opened, removed, cut>>

(* The run is killed, or a batch has failed for good; killed while it clears
   the store, it leaves some of it. *)
BuildDies ==
  /\ build.at # "none"
  /\ build' = [build EXCEPT !.at = "none", !.todo = {}]
  /\ \/ UNCHANGED store
     \/ build.at = "clear" /\ store' \in SUBSET store
  /\ UNCHANGED <<marker, opened, removed, cut>>

(* With --dry-run the chunks of the documents are reported and nothing is
   touched.  Bound: it is tried once, before anything is indexed. *)
DryRun ==
  /\ build.runs = 0 /\ store = {} /\ cut = NoReport
  /\ \E doc \in Shapes :
       LET blocks == ParseBlocks(doc)
       IN  cut' = [doc |-> doc, blocks |-> blocks, chunks |-> Pack(blocks)]
  /\ build' = [build EXCEPT !.runs = MaxBuilds]
  /\ UNCHANGED <<store, marker, opened, removed>>

IndexStep == StartBuild \/ ClearStore \/ OpenStore \/ AddBatch \/ RetryBatch \/ FinishBuild
             \/ BuildDies \/ DryRun

-----------------------------------------------------------------------------
(* The server's side: the handle is opened once per process. *)

Open == opened' = IF opened = "no" THEN "live" ELSE opened

Visible == IF opened = "stale" THEN removed ELSE store

(* The filter is part of the query. *)
LearnerFilter(ids) == {id \in ids : Public(id)}

-----------------------------------------------------------------------------
(* A marker vouches for everything the run that wrote it set out to store,
   whatever runs were killed before or resumed (init_vectorstore.py:294: half
   an index must never look ready). *)
ReadyMeansWhole == marker => build.snapshot \subseteq store

Size(chunk) == Crumb(chunk.path) + chunk.len

(* Cutting loses and reorders nothing but headings, takes no line of a code
   block for a heading, never mixes headings, and gives every block of code
   whole to one chunk.  What else stands in a chunk repeats text given before
   it, from under the same headings and no longer than the overlap.  It may
   be half a block of code: only the giving keeps init_vectorstore.py's
   promise (:112-113) that code is not cut.  Only a code block of its own may
   be arbitrarily long: any other chunk exceeds the limit by no more than the
   overlap that was put before it. *)
CutIsFaithful ==
  LET kind(k) == cut.blocks[k].kind
      lines   == FlattenSeq([k \in DOMAIN cut.blocks |-> cut.blocks[k].lines])
      holds   == FlattenSeq([c \in DOMAIN cut.chunks |-> cut.chunks[c].parts])
  IN  /\ \A m \in 2..Len(lines) : lines[m - 1] < lines[m]
      /\ \A n \in DOMAIN cut.doc : n \in Range(lines) \/ cut.doc[n].is = "heading"
      /\ \A k \in DOMAIN cut.blocks : kind(k) = "code" =>
           LET body == cut.blocks[k].lines
           IN  cut.doc[body[1]].is = "fence" /\ body = [m \in DOMAIN body |-> body[1] + m - 1]
      /\ Range(holds) = DOMAIN cut.blocks
      /\ \A m \in 2..Len(holds) :
           /\ holds[m - 1] <= holds[m]
           /\ holds[m - 1] = holds[m] => kind(holds[m]) = "prose"
      /\ \A c \in DOMAIN cut.chunks :
           LET chunk == cut.chunks[c]
           IN  /\ \A k \in Range(chunk.parts) :
                    /\ cut.blocks[k].path = chunk.path
                    /\ \E piece \in chunk.text : piece.block = k /\ ~piece.again
               /\ \A piece \in chunk.text :
                    /\ cut.blocks[piece.block].path = chunk.path
                    /\ IF piece.again
                       THEN piece.len <= Overlap /\ \E k \in Range(chunk.parts) : piece.block < k
                       ELSE /\ piece.block \in Range(chunk.parts)
                            /\ kind(piece.block) = "code" => piece.len = cut.blocks[piece.block].len
               /\ \/ Size(chunk) <= ChunkMax + Overlap + Sep
                  \/ Len(chunk.parts) = 1 /\ kind(chunk.parts[1]) = "code"
=============================================================================
