----------------------------- MODULE Documents ------------------------------
(***************************************************************************)
(* How documents and records of other systems become memories of           *)
(* living_memoryv2 (ingest.py, connectors.py and their calls in            *)
(* mcp_server.py).  A Markdown document is split at its headings, a long   *)
(* section into chunks, and every chunk is remembered on its own; a record *)
(* is one memory.  The server may die between two of them and a caller     *)
(* repeats the call.                                                       *)
(*                                                                         *)
(* A document is a sequence of blocks, headings and paragraphs, with one   *)
(* empty line between any two.                                             *)
(***************************************************************************)
EXTENDS Lists, Integers, FiniteSets, FiniteSetsExt

CONSTANTS
    Texts,       \* the documents, see Block
    Records,     \* the records of connectors, see Record
    MaxChars     \* max_section_chars, more than 80 in the code

\* level 0 is a paragraph; size is its length and blanks where it has spaces,
\* neither at its ends.
Block == [level : 0 .. 6, title : STRING, size : Nat \ {0}, blanks : SUBSET Nat]

\* stamp is updated_at, 0 if the record has none.
Record == [id : STRING, body : STRING, stamp : Nat]

ASSUME DocumentsAssumption ==
    /\ \A d \in Texts : d \in Seq(Block)
    /\ Records \subseteq Record
    /\ MaxChars \in Nat \ {0}

VARIABLES
    shelf,       \* memories of chunks, in the order they were remembered
    filed,       \* memories of records
    filing,      \* the call in progress: its document and the chunks left
    shelved,     \* ghost: answered calls with their documents
    requests     \* calls so far, which stands for the time of each

documentVars == <<shelf, filed, filing, shelved, requests>>

NoFiling == [text |-> <<>>, todo |-> <<>>]

DocumentsInit == /\ shelf = <<>> /\ filed = {} /\ filing = NoFiling
                 /\ shelved = {} /\ requests = 0

-----------------------------------------------------------------------------
(* split_markdown_sections                                                 *)

\* The headings that stay above one of that level.
Above(stack, level) == Without(stack, {h \in ToSet(stack) : h[1] >= level})

\* flush: the section begun is one more; it is its path and its blocks, by number.
Flushed(split) ==
    IF split.blocks = <<>> THEN split.done
    ELSE Append(split.done, [path |-> split.stack, blocks |-> split.blocks])

\* A heading ends the section and takes the headings of its level and below it
\* from the path.
Headed(split, text, b) ==
    IF text[b].level = 0
    THEN [split EXCEPT !.blocks = Append(@, b)]
    ELSE [stack |-> Append(Above(split.stack, text[b].level), <<text[b].level, text[b].title>>),
          blocks |-> <<b>>, done |-> Flushed(split)]

NoSections == [stack |-> <<>>, blocks |-> <<>>, done |-> <<>>]

Sections(text) ==
    LET split[b \in 0 .. Len(text)] ==
            IF b = 0 THEN NoSections ELSE Headed(split[b - 1], text, b)
    IN  Flushed(split[Len(text)])

\* A chunk is a sequence of pieces: of a block, from a character to another.
Piece(b, from, to) == [block |-> b, from |-> from, to |-> to]
Whole(text, b) == Piece(b, 0, text[b].size)
SizeOf(chunk) ==
    LET size[p \in 0 .. Len(chunk)] ==
            IF p = 0 THEN 2 * (Len(chunk) - 1) ELSE size[p - 1] + chunk[p].to - chunk[p].from
    IN  size[Len(chunk)]

\* A long paragraph is cut at the last blank of the second half, if it has one.
Cut(text, b, start) ==
    LET end == start + MaxChars
        blank == {i \in text[b].blanks : start + MaxChars \div 2 < i /\ i < end}
    IN  IF end >= text[b].size THEN text[b].size
        ELSE IF blank = {} THEN end ELSE Max(blank)

\* strip
Stripped(text, b, from, to) ==
    LET kept == (from .. to - 1) \ text[b].blanks
    IN  IF kept = {} THEN <<>> ELSE <<<<Piece(b, Min(kept), Max(kept) + 1)>>>>

\* _split_long_paragraph
LongChunks(text, b) ==
    LET chunks[start \in 0 .. text[b].size] ==
            IF start = text[b].size THEN <<>>
            ELSE LET end == Cut(text, b, start) IN Stripped(text, b, start, end) \o chunks[end]
    IN  chunks[0]

\* Mutant: a long paragraph forgets the chunk begun.
PackedForgets(pack, text, b) ==
    IF text[b].size > MaxChars
    THEN [out |-> pack.out \o LongChunks(text, b), chunk |-> <<>>]
    ELSE [pack EXCEPT !.chunk = Append(@, Whole(text, b))]
\* One more paragraph: cut on its own, into the chunk begun, or a new one.
Packed(pack, text, b) ==
    LET begun == IF pack.chunk = <<>> THEN <<>> ELSE <<pack.chunk>>
        longer == Append(pack.chunk, Whole(text, b))
    IN  IF text[b].size > MaxChars
        THEN [out |-> pack.out \o begun \o LongChunks(text, b), chunk |-> <<>>]
        ELSE IF SizeOf(longer) <= MaxChars THEN [pack EXCEPT !.chunk = longer]
        ELSE [out |-> Append(pack.out, pack.chunk), chunk |-> <<Whole(text, b)>>]

\* What is left of a packing: its chunks and the one begun.
Closed(pack) == IF pack.chunk = <<>> THEN pack.out ELSE Append(pack.out, pack.chunk)

\* _chunk_text
Chunked(text, blocks) ==
    LET all == [i \in DOMAIN blocks |-> Whole(text, blocks[i])]
        pack[i \in 0 .. Len(blocks)] ==
            IF i = 0 THEN [out |-> <<>>, chunk |-> <<>>]
            ELSE Packed(pack[i - 1], text, blocks[i])
    IN  IF SizeOf(all) <= MaxChars THEN <<all>> ELSE Closed(pack[Len(blocks)])

\* The chunks of one section.
SectionRows(text, section, i) ==
    LET chunks == Chunked(text, section.blocks)
    IN  [c \in DOMAIN chunks |-> [section |-> i, chunk |-> c, pieces |-> chunks[c],
                                  path |-> section.path]]

\* Sections in order, and the chunks of each.
Split(text) ==
    LET sections == Sections(text)
        rows[i \in 0 .. Len(sections)] ==
            IF i = 0 THEN <<>> ELSE rows[i - 1] \o SectionRows(text, sections[i], i)
    IN  rows[Len(sections)]

-----------------------------------------------------------------------------
(* The calls.                                                              *)

FilingIdle == filing = NoFiling

\* remember_markdown
RememberMarkdown(text) ==
    /\ FilingIdle
    /\ requests' = requests + 1
    /\ filing' = [text |-> text, todo |-> Split(text)]
    /\ UNCHANGED <<shelf, filed, shelved>>

\* vault.remember of one chunk: a memory of its own, its time makes it one.
ShelveChunk ==
    /\ filing.todo # <<>>
    /\ shelf' = Append(shelf, [text |-> filing.text, call |-> requests, row |-> Head(filing.todo)])
    /\ filing' = [filing EXCEPT !.todo = Tail(@)]
    /\ UNCHANGED <<filed, shelved, requests>>

AnswerMarkdown ==
    /\ ~FilingIdle /\ filing.todo = <<>>
    /\ shelved' = shelved \cup {[text |-> filing.text, call |-> requests]}
    /\ filing' = NoFiling
    /\ UNCHANGED <<shelf, filed, requests>>

\* to_memory: its time is the record's, or that of the call; with its content
\* the time is all there is in a memory's id.
RecordMemory(r) == [id |-> r.id, body |-> r.body, at |-> r.stamp,
                    call |-> IF r.stamp = 0 THEN requests + 1 ELSE 0]

\* ingest_connector_record
IngestRecord(r) ==
    /\ FilingIdle
    /\ requests' = requests + 1
    /\ filed' = filed \cup {RecordMemory(r)}
    /\ UNCHANGED <<shelf, filing, shelved>>

-----------------------------------------------------------------------------
\* The characters of a piece, and of a text, that are not blank.
InkOf(text, p) == {p.block} \X ((p.from .. p.to - 1) \ text[p.block].blanks)
Ink(text) == UNION {InkOf(text, Whole(text, b)) : b \in DOMAIN text}

\* The headings a block is under: of every level the last before it, unless a
\* higher one came later.
PathOf(text, b) ==
    {h \in 1 .. b : /\ text[h].level > 0
                    /\ \A k \in h + 1 .. b : text[k].level = 0 \/ text[k].level > text[h].level}

\* Where the chunks of a call are on the shelf.
Filed(call) == {i \in DOMAIN shelf : shelf[i].call = call}

\* An answered document is on the shelf as a whole, whatever calls died or were
\* repeated: chunk after chunk in its order, every character but blanks in one
\* piece, no chunk longer than asked for, each under the headings its blocks are
\* under.
DocumentsAreWhole ==
    \A x \in shelved :
        LET text == x.text
            pieces(i) == shelf[i].row.pieces
            ink(i) == UNION {InkOf(text, pieces(i)[p]) : p \in DOMAIN pieces(i)}
        IN  /\ UNION {ink(i) : i \in Filed(x.call)} = Ink(text)
            /\ \A i, j \in Filed(x.call) : \A p \in DOMAIN pieces(i), q \in DOMAIN pieces(j) :
                  InkOf(text, pieces(i)[p]) \cap InkOf(text, pieces(j)[q]) # {} => i = j /\ p = q
            /\ \A i \in Filed(x.call) :
                  /\ SizeOf(pieces(i)) <= MaxChars
                  /\ \A p \in DOMAIN pieces(i) :
                        {text[h].title : h \in PathOf(text, pieces(i)[p].block)}
                            = {h[2] : h \in ToSet(shelf[i].row.path)}
            /\ \A i, j \in Filed(x.call) :
                  i < j => Last(pieces(i)).block <= Head(pieces(j)).block

=============================================================================
