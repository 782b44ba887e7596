------------------------------- MODULE Chunking -------------------------------
(***************************************************************************)
(* The chunking strategies and presets, as functions of a text whose tokens *)
(* are told apart, the order in which process_document inserts the chunks,  *)
(* and their enrichment by calls to a model, a few at a time.               *)
(***************************************************************************)
EXTENDS Integers, FiniteSets, SequencesExt

CONSTANTS
  CkLength,      \* bound: tokens of a plain text
  CkBlocks,      \* bound: blocks of a structured text
  CkSizes, CkOverlaps, CkFloors,   \* chunk_size, chunk_overlap and heading_only_min_chars
  Concurrency    \* CONCURRENCY: calls of the enrichment under way, 3 in the code

VARIABLES ckIn, ckOut, ckCalls
chunkingVars == <<ckIn, ckOut, ckCalls>>

(***************************************************************************)
(* Texts: sequences of tokens [is, at], the kind of the token and its place *)
(* in the input.  A separator of the code is one token.                     *)
(***************************************************************************)
Spaces == {"para", "line", "space"}
Sep(kind) == <<[is |-> kind, at |-> 0]>>
Letters(s) == {s[i].at : i \in {j \in DOMAIN s : s[j].is \notin Spaces}}
Trim(s) == LET I == {i \in DOMAIN s : s[i].is \notin Spaces} IN
           IF I = {} THEN <<>> ELSE SubSeq(s, Min(I), Max(I))
Glue(kind, a, b) == IF a = <<>> THEN b ELSE IF b = <<>> THEN a ELSE a \o Sep(kind) \o b
GlueAll(kind, ss) == FoldLeft(LAMBDA a, b : Glue(kind, a, b), <<>>, ss)
\* str.split: the parts between the tokens of a kind, empty ones included.
SplitAt(s, kind) ==
  LET cuts == <<0>> \o SetToSortSeq({i \in DOMAIN s : s[i].is = kind}, <) \o <<Len(s) + 1>> IN
  [i \in 1..(Len(cuts) - 1) |-> SubSeq(s, cuts[i] + 1, cuts[i + 1] - 1)]

Chunk(text, level) == [text |-> text, level |-> level, position |-> 0, id |-> 0, parent |-> 0]
Placed(chunks) == [i \in DOMAIN chunks |-> [chunks[i] EXCEPT !.position = i - 1]]

(***************************************************************************)
(* recursive                                                                *)
(***************************************************************************)
ForceShort(s, size) == [i \in 1..(Len(s) \div size) |-> SubSeq(s, (i - 1) * size + 1, i * size)]   \* mutant
ForceSplit(s, size) == [i \in 1..((Len(s) + size - 1) \div size) |->
                          SubSeq(s, (i - 1) * size + 1, Min({i * size, Len(s)}))]
RECURSIVE SplitRecursive(_, _, _)
SplitRecursive(s, size, kinds) ==
  IF Len(s) <= size THEN <<s>>
  ELSE IF kinds = <<>> THEN ForceSplit(s, size)
  ELSE LET Kept(cur) == IF cur = <<>> THEN <<>> ELSE <<cur>>
           Step(acc, part) ==
             LET candidate == IF acc.cur = <<>> THEN part ELSE acc.cur \o Sep(Head(kinds)) \o part IN
             IF Len(candidate) <= size THEN [acc EXCEPT !.cur = candidate]
             ELSE IF Len(part) <= size THEN [out |-> acc.out \o Kept(acc.cur), cur |-> part]
             ELSE [out |-> acc.out \o Kept(acc.cur) \o SplitRecursive(part, size, Tail(kinds)), cur |-> <<>>]
           last == FoldLeft(Step, [out |-> <<>>, cur |-> <<>>], SplitAt(s, Head(kinds))) IN
       last.out \o Kept(last.cur)
\* Each piece begins with the end of the one before.
Overlapped(pieces, n) ==
  [i \in DOMAIN pieces |-> IF i = 1 \/ n = 0 THEN pieces[i]
     ELSE LET p == pieces[i - 1] IN SubSeq(p, Max({1, Len(p) - n + 1}), Len(p)) \o pieces[i]]
Recursive(s, size, overlap) ==
  IF Trim(s) = <<>> THEN <<>>
  ELSE LET pieces == Overlapped(SplitRecursive(s, size, <<"line", "space">>), overlap) IN
       SelectSeq([i \in DOMAIN pieces |-> [Chunk(pieces[i], 0) EXCEPT !.position = i - 1]],
                 LAMBDA c : Trim(c.text) # <<>>)

\* sentence: whole sentences are packed, one that is too long is cut.
Sentences(s, size) ==
  LET Step(acc, sent) ==
        LET candidate == Glue("space", acc.cur, sent)
            done == IF acc.cur = <<>> THEN acc.out ELSE Append(acc.out, acc.cur) IN
        IF Len(candidate) <= size THEN [acc EXCEPT !.cur = candidate]
        ELSE IF Len(sent) > size THEN [out |-> done \o ForceSplit(sent, size), cur |-> <<>>]
        ELSE [out |-> done, cur |-> sent]
      parts == SplitAt(s, "line")
      sents == SelectSeq([i \in DOMAIN parts |-> Trim(parts[i])], LAMBDA p : p # <<>>)
      last == FoldLeft(Step, [out |-> <<>>, cur |-> <<>>], sents)
      all == IF last.cur = <<>> THEN last.out ELSE Append(last.out, last.cur) IN
  Placed([i \in DOMAIN all |-> Chunk(all[i], 0)])

(***************************************************************************)
(* Structured texts are sequences of blocks [title, text].                  *)
(***************************************************************************)
\* Blocks up to the next title, joined, are the body of a section; the text before the first
\* title has none.
Sections(blocks, glue) ==
  LET New(acc) == IF acc.heading # <<>> \/ Trim(acc.body) # <<>>
                  THEN Append(acc.out, [heading |-> acc.heading, body |-> acc.body]) ELSE acc.out
      Step(acc, b) == IF b.title THEN [out |-> New(acc), heading |-> b.text, body |-> <<>>]
                                 ELSE [acc EXCEPT !.body = Glue(glue, acc.body, Trim(b.text))] IN
  New(FoldLeft(Step, [out |-> <<>>, heading |-> <<>>, body |-> <<>>], blocks))

\* A section that is too long is split without its heading, which the first piece gets back.
SectionChunks(prefix, body, level, size, overlap) ==
  LET content == Trim(Glue("para", prefix, body)) IN
  IF content = <<>> THEN <<>>
  ELSE IF Len(content) <= size THEN <<Chunk(content, level)>>
  ELSE LET sub == Recursive(body, size, overlap) IN
       [i \in DOMAIN sub |-> Chunk(IF i = 1 THEN Glue("para", prefix, sub[i].text) ELSE sub[i].text, level)]
LevelOf(sec) == IF sec.heading = <<>> THEN 0 ELSE 1
Sectioned(secs, size, overlap) ==
  Placed(FlattenSeq([i \in DOMAIN secs |-> SectionChunks(secs[i].heading, secs[i].body, LevelOf(secs[i]), size, overlap)]))
Html(blocks, size, overlap)      == Sectioned(Sections(blocks, "para"), size, overlap)
PdfLayout(blocks, size, overlap) == Sectioned(Sections(blocks, "line"), size, overlap)

\* markdown: sections that are little more than a heading wait for the next one.
HeadingOnly(body, floor) == floor > 0 /\ Len(Trim(body)) < floor
Markdown(blocks, size, overlap, floor) ==
  LET secs == Sections(blocks, "para")
      Waiting(pending) == GlueAll("para", [i \in DOMAIN pending |-> Glue("para", pending[i].heading, Trim(pending[i].body))])
      Step(acc, sec) ==
        IF sec.heading # <<>> /\ HeadingOnly(sec.body, floor) THEN [acc EXCEPT !.pending = Append(@, sec)]
        ELSE [out |-> acc.out \o SectionChunks(Glue("para", Waiting(acc.pending), sec.heading), sec.body,
                                   LevelOf(IF acc.pending = <<>> THEN sec ELSE acc.pending[1]), size, overlap),
              pending |-> <<>>]
      last == FoldLeft(Step, [out |-> <<>>, pending |-> <<>>], secs) IN
  Placed(last.out \o IF last.pending = <<>> THEN <<>> ELSE <<Chunk(Waiting(last.pending), 1)>>)

\* table and code: a fence is a chunk whatever its size, the text around it is split; here a
\* title is a fence.
Fenced(blocks, size, overlap) ==
  Placed(FlattenSeq([i \in DOMAIN blocks |->
    LET text == Trim(blocks[i].text) IN
    IF blocks[i].title THEN <<Chunk(text, 0)>> ELSE Recursive(text, size, overlap)]))

\* qa: from two questions on, a chunk per question with what follows it; a title is a question.
Questions(blocks) == {i \in DOMAIN blocks : blocks[i].title}
WholeText(blocks) == GlueAll("line", [i \in DOMAIN blocks |-> blocks[i].text])
QaPairs(blocks, size, overlap) ==
  IF Cardinality(Questions(blocks)) < 2 THEN Recursive(WholeText(blocks), size, overlap)
  ELSE LET at == SetToSortSeq(Questions(blocks), <) IN
       Placed([i \in DOMAIN at |-> Chunk(Trim(WholeText(SubSeq(blocks, at[i],
                  IF i = Len(at) THEN Len(blocks) ELSE at[i + 1] - 1))), 0)])

(***************************************************************************)
(* composite: a chunk that is too long stays, as the parent of what the     *)
(* second strategy makes of it, including what that one calls a parent.     *)
(***************************************************************************)
ParentAndParts(chunks, subs, size) ==       \* subs: what the second strategy makes of each
  Placed(FlattenSeq([i \in DOMAIN chunks |->
    IF Len(chunks[i].text) <= size THEN <<chunks[i]>>
    ELSE <<[chunks[i] EXCEPT !.id = i]>> \o
         [j \in DOMAIN subs[i] |-> [subs[i][j] EXCEPT !.level = chunks[i].level + 1, !.parent = i, !.id = 0]]]))

Plain      == {"general", "book", "sentence"}
Structured == {"html", "pdf_layout", "technical", "paper", "table", "qa"}
StrategyOf(in) ==
  LET size == in.size  over == in.overlap
      Rec(s) == Recursive(s, size, over)
      Recs(chunks) == [i \in DOMAIN chunks |-> Rec(chunks[i].text)]
      Codes(chunks) == [i \in DOMAIN chunks |-> Rec(Trim(chunks[i].text))]      \* no fence is left in a chunk
      Sents(chunks) == [i \in DOMAIN chunks |-> Sentences(chunks[i].text, size)]
      RecSents(chunks) == [i \in DOMAIN chunks |-> LET sub == Rec(chunks[i].text) IN ParentAndParts(sub, Sents(sub), size)]
      Twice(chunks, subs) == ParentAndParts(chunks, subs, size)
      layout == PdfLayout(in.blocks, size, over)
      sections == Markdown(in.blocks, size, over, in.floor) IN
  CASE in.preset = "general"    -> Rec(in.text)
    [] in.preset = "sentence"   -> Sentences(in.text, size)
    [] in.preset = "book"       -> Twice(Rec(in.text), Recs(Rec(in.text)))
    [] in.preset = "html"       -> Html(in.blocks, size, over)
    [] in.preset = "pdf_layout" -> layout
    [] in.preset = "paper"      -> Twice(layout, RecSents(layout))
    [] in.preset = "technical"  -> Twice(sections, Codes(sections))
    [] in.preset = "table"      -> Fenced(in.blocks, size, over)
    [] in.preset = "qa"         -> QaPairs(in.blocks, size, over)

\* process_document adds roots before children, by position.
InsertOrder(chunks) ==
  SortSeq(chunks, LAMBDA a, b : \/ a.parent = 0 /\ b.parent # 0
                                \/ (a.parent = 0) = (b.parent = 0) /\ a.position < b.position)

-----------------------------------------------------------------------------
Tokens(kinds, first) == [i \in DOMAIN kinds |-> [is |-> kinds[i], at |-> first + i]]
PlainTexts == {Tokens(k, 0) : k \in UNION {[1..n -> {"x", "line", "space"}] : n \in 0..CkLength}}
BlockKinds == {[title |-> TRUE, text |-> <<"x">>], [title |-> TRUE, text |-> <<"x", "x", "x">>],
               [title |-> FALSE, text |-> <<"x">>], [title |-> FALSE, text |-> <<"x", "space", "x", "x">>],
               [title |-> FALSE, text |-> <<"space">>]}
BlockTexts == {[i \in DOMAIN b |-> [title |-> b[i].title, text |-> Tokens(b[i].text, 10 * i)]] :
                 b \in UNION {[1..n -> BlockKinds] : n \in 0..CkBlocks}}
NoInput == [preset |-> "none", text |-> <<>>, blocks |-> <<>>, size |-> 1, overlap |-> 0, floor |-> 0]

ChunkingInit == ckIn = NoInput /\ ckOut = <<>> /\ ckCalls = <<>>

ChunkText ==
  /\ ckIn = NoInput
  /\ \E size \in CkSizes, over \in CkOverlaps :
       \/ \E p \in Plain, s \in PlainTexts :
            ckIn' = [NoInput EXCEPT !.preset = p, !.text = s, !.size = size, !.overlap = over]
       \/ \E p \in Structured, b \in BlockTexts, floor \in CkFloors :
            /\ p # "technical" => floor = 0
            /\ ckIn' = [NoInput EXCEPT !.preset = p, !.blocks = b, !.size = size, !.overlap = over, !.floor = floor]
  /\ ckOut' = StrategyOf(ckIn') /\ ckCalls' = <<>>

(***************************************************************************)
(* Enrichment: one call per chunk; a failure, a timeout or an answer that   *)
(* cannot be read leaves the chunk without keywords and questions.          *)
(***************************************************************************)
Wants == {[keywords |-> TRUE, questions |-> FALSE], [keywords |-> TRUE, questions |-> TRUE]}
MaxKeywords == 5
MaxQuestions == 2
NoAnswer == [keywords |-> 0, questions |-> 0]
ParsedAnswer(said, wants) == [keywords  |-> IF wants.keywords THEN Min({said.keywords, MaxKeywords}) ELSE 0,
                              questions |-> IF wants.questions THEN Min({said.questions, MaxQuestions}) ELSE 0]
StartEnrichment ==   \* bound: texts of the general preset
  /\ ckIn.preset = "general" /\ ckIn.size = 1 /\ ckIn.overlap = 0 /\ ckOut # <<>> /\ ckCalls = <<>>
  /\ \E wants \in Wants :
       ckCalls' = [i \in DOMAIN ckOut |-> [pc |-> "waiting", of |-> ckOut[i].position, wants |-> wants, got |-> NoAnswer]]
  /\ UNCHANGED <<ckIn, ckOut>>
InFlight == {i \in DOMAIN ckCalls : ckCalls[i].pc = "sent"}
SendCall(i) ==
  /\ i \in DOMAIN ckCalls /\ ckCalls[i].pc = "waiting" /\ Cardinality(InFlight) < Concurrency
  /\ \A j \in 1..(i - 1) : ckCalls[j].pc # "waiting"     \* the semaphore is fair
  /\ ckCalls' = [ckCalls EXCEPT ![i].pc = "sent"]
  /\ UNCHANGED <<ckIn, ckOut>>
AnswerCall(i) ==
  /\ i \in InFlight
  /\ \E got \in {NoAnswer} \cup {ParsedAnswer([keywords |-> 7, questions |-> q], ckCalls[i].wants) : q \in {0, 3}} :
       ckCalls' = [ckCalls EXCEPT ![i].pc = "done", ![i].got = got]
  /\ UNCHANGED <<ckIn, ckOut>>

ChunkingNext == ChunkText \/ StartEnrichment \/ \E i \in DOMAIN ckCalls : SendCall(i) \/ AnswerCall(i)
ChunkingSpec == ChunkingInit /\ [][ChunkingNext]_chunkingVars

-----------------------------------------------------------------------------
\* Every variable holds values of its kind.
ChunkingTypeOK ==
  /\ ckIn.preset \in Plain \cup Structured \cup {"none"} /\ Len(ckCalls) \in {0, Len(ckOut)}
  /\ \A i \in DOMAIN ckOut : ckOut[i].position \in Nat /\ ckOut[i].level \in 0..4 /\ ckOut[i].parent \in Nat

InputLetters == Letters(ckIn.text) \cup UNION {Letters(ckIn.blocks[i].text) : i \in DOMAIN ckIn.blocks}
\* What the code drops: text before the first of two questions, and a heading longer than a
\* chunk with nothing under it.
DroppedIntro == IF ckIn.preset = "qa" /\ Cardinality(Questions(ckIn.blocks)) >= 2
                THEN UNION {Letters(ckIn.blocks[i].text) : i \in 1..(Min(Questions(ckIn.blocks)) - 1)} ELSE {}
BareHeadings ==
  LET secs == Sections(ckIn.blocks, "para") IN
  IF ckIn.preset \in {"html", "pdf_layout", "paper"} \/ (ckIn.preset = "technical" /\ ckIn.floor = 0)
  THEN UNION {Letters(secs[i].heading) : i \in {j \in DOMAIN secs : Trim(secs[j].body) = <<>> /\ Len(secs[j].heading) > ckIn.size}}
  ELSE {}

\* Every letter of the text is in a chunk, except for what the two cases above drop.
TextKept == UNION {Letters(ckOut[i].text) : i \in DOMAIN ckOut} = InputLetters \ (DroppedIntro \cup BareHeadings)

\* Chunks follow the text: their positions are distinct and in the order of what they begin with.
InReadingOrder == \A i, j \in DOMAIN ckOut : i < j =>
  /\ ckOut[i].position < ckOut[j].position
  /\ Letters(ckOut[i].text) # {} /\ Letters(ckOut[j].text) # {}
       => Min(Letters(ckOut[i].text)) <= Min(Letters(ckOut[j].text))

\* Every parent is inserted before its children and covers them.
ParentsFirst == LET rows == InsertOrder(ckOut) IN \A j \in DOMAIN rows : rows[j].parent # 0 =>
  \E i \in 1..(j - 1) : rows[i].id = rows[j].parent /\ Letters(rows[j].text) \subseteq Letters(rows[i].text)

\* At most Concurrency calls are under way, and what a call brings stays with its chunk.
CallsBounded == /\ Cardinality(InFlight) <= Concurrency
                /\ \A i \in DOMAIN ckCalls : ckCalls[i].of = ckOut[i].position

\* What a text becomes in the index (knowledge/chunking, knowledge/ingestion/tasks.py).
ChunkingSound == TextKept /\ InReadingOrder /\ ParentsFirst /\ CallsBounded
=============================================================================
