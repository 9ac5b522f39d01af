------------------------------- MODULE Frames -------------------------------
(***************************************************************************)
(* How living_memoryv2 fits recalled memories into a budget of tokens: the *)
(* text frame and the structured frame of sif.py and the packets of        *)
(* context.py.  A text is its length; an item is a result with the lengths *)
(* of the lines that stand for it.  Fewer than ten results are fitted, so  *)
(* the number of a line is one character.                                  *)
(***************************************************************************)
EXTENDS Integers, Sequences, SequencesExt, FiniteSetsExt

CONSTANT CharsPerToken   \* 4 in the code

ASSUME FramesAssumption == CharsPerToken \in Nat \ {0}

\* What prompt_text_for returns has this length; gap: a blank falls where it is
\* cut; micro and extras: the shortest line and what may follow it.
Lines == [text : Nat, gap : BOOLEAN, meta : Nat, micro : Nat, extras : Seq(Nat)]

\* Mutant: a started token is not counted.
TokensDown(chars) == chars \div CharsPerToken
\* estimate_tokens
Tokens(chars) == (chars + CharsPerToken - 1) \div CharsPerToken

Least(x, y) == IF x < y THEN x ELSE y

-----------------------------------------------------------------------------
(* SIFContextAssembler                                                     *)

\* _header_line: a small budget leaves the query what a first id does not need.
HeaderLine(query, budget) ==
    LET room == budget * CharsPerToken - 14 - 52
        most == IF budget >= 80 THEN 72 ELSE IF room < 0 THEN 0 ELSE Least(72, room)
    IN  14 + Least(query, most)

\* _fit_chars and _one_line: a text that is cut ends in three dots, and loses a
\* blank before them; three characters or fewer are cut without.
FitChars(l, chars) ==
    IF chars <= 0 THEN 0
    ELSE IF l.text <= chars THEN l.text
    ELSE IF l.gap /\ chars > 4 THEN chars - 1 ELSE chars

\* _fit_micro_meta_line: of the extras every one that still fits, in order.
MicroLine(used, l, budget) ==
    LET longer(line, extra) == IF Tokens(used + 1 + line + 1 + extra) <= budget
                               THEN line + 1 + extra ELSE line
        line[i \in 0 .. Len(l.extras)] ==
            IF i = 0 THEN l.micro ELSE longer(line[i - 1], l.extras[i])
    IN  IF Tokens(used + 1 + l.micro) > budget THEN 0 ELSE line[Len(l.extras)]

\* One result: its meta line and as much of its text as fits, else the micro
\* line, else nothing.  (The second fit of the code, to the characters that are
\* left, never happens: the first one counts started tokens as whole.)
FitResult(frame, m, l, budget) ==
    LET prefix == frame.used + 1 + l.meta + 1
        snippet == FitChars(l, (budget - Tokens(prefix)) * CharsPerToken)
        micro == MicroLine(frame.used, l, budget)
    IN  IF snippet > 0
        THEN [frame EXCEPT !.used = prefix + snippet, !.ids = Append(@, m),
                           !.quoted = @ \cup {m}]
        ELSE IF micro > 0
        THEN [frame EXCEPT !.used = @ + 1 + micro, !.ids = Append(@, m)]
        ELSE [frame EXCEPT !.dropped = @ + 1]

\* assemble, in the order given (preserve_order).
TextFrame(order, lines, query, budget) ==
    LET start == [used |-> HeaderLine(query, budget), ids |-> <<>>, quoted |-> {}, dropped |-> 0]
        after[i \in 0 .. Len(order)] ==
            IF i = 0 THEN start ELSE FitResult(after[i - 1], order[i], lines[order[i]], budget)
    IN  after[Len(order)]

-----------------------------------------------------------------------------
(* SIFContextAssemblerV2: the lists of a structured frame shrink from the  *)
(* first that is not empty, by one entry at a time, until the rest fits.   *)

ShrinkOrder == <<"assertions", "entities", "hints", "subgraphs", "evidence", "current_facts",
                 "decisions">>

\* lists: for each list the lengths of its entries; fixed: the length of what
\* never shrinks.
Total(s) ==
    LET upto[i \in 0 .. Len(s)] == IF i = 0 THEN 0 ELSE upto[i - 1] + s[i] IN upto[Len(s)]

Length(lists, fixed) == fixed + Total([i \in DOMAIN ShrinkOrder |-> Total(lists[ShrinkOrder[i]])])
Entries(lists) == Total([i \in DOMAIN ShrinkOrder |-> Len(lists[ShrinkOrder[i]])])

Shrunk(lists) ==
    LET i == Min({j \in DOMAIN ShrinkOrder : lists[ShrinkOrder[j]] # <<>>})
    IN  [lists EXCEPT ![ShrinkOrder[i]] = Front(@)]

\* The key, the digits and the comma of token_roi.estimated_tokens.
Powers == {10, 100, 1000, 10000, 100000, 1000000, 10000000, 100000000, 1000000000}
EstimateLength(n) == 21 + Cardinality({p \in Powers : p <= n})

\* Mutant: a list is taken for short enough when its own entries are.
FitSectionsBare(lists, fixed, budget) ==
    LET total == Entries(lists)
        done(l) == Tokens(Length(l, 0)) <= budget \/ \A s \in DOMAIN l : l[s] = <<>>
        after[n \in 0 .. total] == IF n = 0 THEN lists ELSE Shrunk(after[n - 1])
        pops == Min({n \in 0 .. total : done(after[n])})
        fitted == Length(after[pops], fixed)
    IN  [lists |-> after[pops], dropped |-> pops, roi |-> Tokens(fitted),
         tokens |-> Tokens(fitted + EstimateLength(Tokens(fitted)))]
\* _fit_sections: what was fitted gets its estimate (roi) written into it, and is
\* estimated again as it is returned (tokens).
FitSections(lists, fixed, budget) ==
    LET total == Entries(lists)
        done(l) == Tokens(Length(l, fixed)) <= budget \/ \A s \in DOMAIN l : l[s] = <<>>
        after[n \in 0 .. total] == IF n = 0 THEN lists ELSE Shrunk(after[n - 1])
        pops == Min({n \in 0 .. total : done(after[n])})
        fitted == Length(after[pops], fixed)
    IN  [lists |-> after[pops], dropped |-> pops, roi |-> Tokens(fitted),
         tokens |-> Tokens(fitted + EstimateLength(Tokens(fitted)))]

-----------------------------------------------------------------------------
(* ContextAssembler: a result is cut to the tokens that are left.          *)

\* _fit_text: the tokens of what is left of a text, cut at the end without dots.
Packet(used, l, budget) ==
    LET chars == (budget - used) * CharsPerToken
    IN  Tokens(IF l.text <= chars THEN l.text ELSE IF l.gap THEN chars - 1 ELSE chars)

PacketAdded(frame, m, l, budget) ==
    IF frame.used >= budget \/ l.text = 0 THEN frame
    ELSE [used |-> frame.used + Packet(frame.used, l, budget), ids |-> Append(frame.ids, m)]
Packets(order, lines, budget) ==
    LET after[i \in 0 .. Len(order)] ==
            IF i = 0 THEN [used |-> 0, ids |-> <<>>]
            ELSE PacketAdded(after[i - 1], order[i], lines[order[i]], budget)
    IN  after[Len(order)]

=============================================================================
