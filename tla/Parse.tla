--------------------------------- MODULE Parse ---------------------------------
(***************************************************************************)
(* lowdown_doc_parse() of src/parse/document.c: how the parser goes        *)
(* through a document and what it makes of it.                             *)
(*                                                                         *)
(* The functions of the parser call each other, and every one of them that *)
(* pushes a node parses what belongs inside it, pops the node and goes on. *)
(* work is this call stack: for each node held, in the order they are      *)
(* held, what is still to be done before it is popped, as a sequence of    *)
(* things to do.  Each of those is a record whose field "do" is named for  *)
(* the function that does it.                                              *)
(***************************************************************************)
EXTENDS ParseDefs, ParseTree

CONSTANT
  Sessions      \* what programs do with a parser: see below

(***************************************************************************)
(* A session is the documents given to the same struct lowdown_doc, each a *)
(* sequence of lines; the texts given as metadata to put before and after  *)
(* those of the document; and whether memory may run out.                  *)
(***************************************************************************)
VARIABLES
  session,
  turn,         \* which of the session's documents is parsed
  work,         \* what is left to do for each node held
  refq,         \* definitions of references
  footq,        \* definitions of footnotes
  used,         \* which of them are in the tree (foot_ref.ref)
  foots,        \* doc->foots
  metaq,        \* the metadata
  in_link_body,
  in_footnote,
  failure,      \* why the last parse failed
  beat          \* of the machine: a loop that goes round without effect is a behaviour, too

pvars == <<session, turn, work, refq, footq, used, foots, metaq,
           in_link_body, in_footnote, failure>>
queues == <<refq, footq, used, foots, metaq>>
inside == <<in_link_body, in_footnote>>
vars  == <<tvars, pvars, beat>>

Init ==
  /\ TInit
  /\ session \in Sessions /\ turn = 0
  /\ work = <<>> /\ refq = <<>> /\ footq = <<>> /\ used = {} /\ foots = 0 /\ metaq = <<>>
  /\ in_link_body = FALSE /\ in_footnote = FALSE
  /\ failure = "none" /\ beat = FALSE

(***************************************************************************)
(* The things to do.                                                       *)
(***************************************************************************)
Blocks(ls) == [do |-> "parse_block", ls |-> ls]

\* The text of s from i and before e.  end is how far it is known to be plain
\* text, offset how far i is from where the last construct ended, bang that
\* "!" is done.
Inline(s, i, e) ==
  [do |-> "parse_inline", s |-> s, i |-> i, end |-> i, e |-> e, offset |-> 0, bang |-> FALSE]

Do(name)    == [do |-> name]
On(name, n) == [do |-> name, n |-> n]

Now(name) == /\ phase = "parsing" /\ work # <<>> /\ Last(work) # <<>>
             /\ Head(Last(work)).do = name
Item == Head(Last(work))

\* The work once other things to do take the place of the first.
Instead(items) == [work EXCEPT ![Len(work)] = items \o Tail(@)]

Go(items) == work' = Instead(items)

\* Mutant: the tree is left as it is.
FailsWithTree(why) ==
  /\ phase = "parsing" /\ phase' = "failed" /\ failure' = why
  /\ work' = <<>> /\ held' = <<>>
  /\ UNCHANGED <<kids, par, lab, nodes, current, depth, maxdepth>>
  /\ UNCHANGED <<session, turn, queues, inside>>

(***************************************************************************)
(* A function fails.  Of the parser's state only in_footnote is as the     *)
(* functions left it when the next document is parsed.                     *)
(***************************************************************************)
Fails(why) ==
  /\ Failed /\ failure' = why
  /\ work' = <<>>
  /\ UNCHANGED <<session, turn, queues, inside>>

\* A node that is held while inner is done, after which follow is done.
Opens(labels, l, inner, follow) ==
  /\ Pushnode(labels, l)
  /\ work' = Append(Instead(follow), inner)
  /\ UNCHANGED <<session, turn, failure>>

Open_in(labels, l, inner, follow) ==
  IF TooDeep(depth) THEN Fails("depth")
  ELSE Opens(labels, l, inner, follow) /\ UNCHANGED <<queues, inside>>

Open(l, inner, follow) == Open_in(lab, l, inner, follow)

\* A node with nothing below it.
Leaf_in(labels, l, follow) ==
  IF TooDeep(depth) THEN Fails("depth")
  ELSE /\ Pushleaf(labels, l) /\ Go(follow)
       /\ UNCHANGED <<session, turn, queues, inside, failure>>

Put(l, follow) == Leaf_in(lab, l, follow)

\* pushtext(), hbuf_push(), popnode().
Say(fl, text, follow) ==
  IF Merge_into(fl) = None THEN Put(Text(fl, text), follow)
  ELSE /\ Addtext(fl, text) /\ Go(follow)
       /\ UNCHANGED <<session, turn, queues, inside, failure>>

Skip(follow) ==
  /\ Go(follow) /\ UNCHANGED <<tvars, session, turn, queues, inside, failure>>

\* What is done if an assertion holds.
Asserting(holds, A) == IF holds THEN A ELSE Aborted /\ UNCHANGED pvars

(***************************************************************************)
(* The beginning: the metadata of the document, then its definitions.      *)
(***************************************************************************)
Document == session.docs[turn]

Lowdown_doc_parse ==
  /\ phase \in {"idle", "done", "failed"} /\ turn < Len(session.docs)
  /\ Pushroot
  /\ turn' = turn + 1
  /\ work' = <<<<Do("header")>>>>
  /\ refq' = <<>> /\ footq' = <<>> /\ used' = {} /\ foots' = 0 /\ metaq' = <<>>
  /\ in_link_body' = FALSE /\ failure' = "none"
  /\ UNCHANGED <<session, in_footnote>>

Entries(entries) ==
  IF entries = <<>> THEN <<>> ELSE <<[do |-> "add_metadata", entries |-> entries]>>

Doc_header ==
  LET given(texts) == FlattenSeq([k \in DOMAIN texts |-> Parse_metadata_mmd(Stripped(texts[k]))])
  IN  /\ Now("header")
      /\ \E own \in {Metadata(Document)} :
           Open(Node("DOC_HEADER"),
                Entries(given(session.meta) \o own.entries \o given(session.metaovr)),
                <<[do |-> "gather", ls |-> own.rest, text |-> <<>>]>>)

\* The first with the key, in a sequence of things with keys, or 0.
Keyed(key, keys) == Least({k \in DOMAIN keys : keys[k] = key}, 0)

\* Mutant: an entry is put after the one with the same key.
Meta_with(m) == metaq

\* The entries but for the m-th (0 if there is none with the key).
Meta_without(m) == IF m = 0 THEN metaq ELSE RemoveAt(metaq, m)

Add_metadata ==
  LET entry == Head(Item.entries)
      key  == entry.key
      text == Stripped(entry.val)
      k == Keyed(key, [j \in DOMAIN kids[current] |-> lab[kids[current][j]].text])
      m == Keyed(key, [j \in DOMAIN metaq |-> metaq[j].key])
      puts ==
        IF TooDeep(depth) \/ (text # <<>> /\ TooDeep(depth + 1)) THEN Fails("depth")
        ELSE /\ Putmeta(k, Label("META", key, {}, 0, <<>>), text)
             /\ metaq' = Append(Meta_without(m), entry)
             /\ Go(Entries(Tail(Item.entries)))
             /\ UNCHANGED <<session, turn, refq, footq, used, foots, inside, failure>>
  IN  /\ Now("add_metadata")
      /\ Asserting(/\ lab[current].type = "DOC_HEADER"
                   /\ \A j \in DOMAIN kids[current] : lab[kids[current][j]].type = "META",
                   puts)

(***************************************************************************)
(* The first pass: a definition is taken out of the text, anything else is *)
(* copied line by line.                                                    *)
(***************************************************************************)
Gather(ls, text) == [do |-> "gather", ls |-> ls, text |-> text]

More == Now("gather") /\ Item.ls # <<>>

IsFootnote == "FOOTNOTES" \in Flags /\ Is_footnote(Item.ls).is
IsRef      == ~IsFootnote /\ Is_ref(Item.ls).is

Gather_footnote ==
  LET def == Is_footnote(Item.ls) IN
  /\ More /\ IsFootnote
  /\ footq' = Append(footq, [name |-> def.name, contents |-> def.contents])
  /\ Go(<<Gather(def.rest, Item.text)>>)
  /\ UNCHANGED <<tvars, session, turn, refq, used, foots, metaq, inside, failure>>

Gather_ref ==
  LET def == Is_ref(Item.ls) IN
  /\ More /\ IsRef
  /\ refq' = Append(refq, def)
  /\ Go(<<Gather(def.rest, Item.text)>>)
  /\ UNCHANGED <<tvars, session, turn, footq, used, foots, metaq, inside, failure>>

Gather_line ==
  /\ More /\ ~IsFootnote /\ ~IsRef
  /\ Skip(<<Gather(Tail(Item.ls), Append(Item.text, Expand_tabs(Head(Item.ls))))>>)

\* The second pass.
Gather_done == Now("gather") /\ Item.ls = <<>> /\ Skip(<<Blocks(Item.text)>>)

\* A node has nothing left to be done for it.
Pop ==
  /\ phase = "parsing" /\ work # <<>> /\ Last(work) = <<>>
  /\ Popnode(Last(held))
  /\ work' = Front(work)
  /\ UNCHANGED <<session, turn, queues, inside, failure>>

(***************************************************************************)
(* parse_block(): what begins at the first line, tried in this order.      *)
(***************************************************************************)
IsHtmlblock(ls) == Begins(ls[1], "<") /\ Htmlblock_end(Flat(ls)) # 0

IsDefinition(ls) ==
  LET n == Last_child(current) IN
  /\ Prefix_dli(ls) # 0 /\ n # None
  /\ lab[n].type = "PARAGRAPH" /\ lab[n].num = 1

Block(ls) ==
  IF Is_atxheader(ls[1]) THEN "atxheader"
  ELSE IF IsHtmlblock(ls) THEN "htmlblock"
  ELSE IF Is_empty(ls[1]) THEN "empty"
  ELSE IF Is_hrule(ls[1]) THEN "hrule"
  ELSE IF Parse_fencedcode_line(ls[1]) # NoFence THEN "fencedcode"
  ELSE IF IsTable(ls) THEN "table"
  ELSE IF Prefix_quote(ls[1]) # 0 THEN "blockquote"
  ELSE IF "NOCODEIND" \notin Flags /\ Prefix_code(ls[1]) # 0 THEN "blockcode"
  ELSE IF Prefix_uli(ls) # 0 THEN "uli"
  ELSE IF IsDefinition(ls) THEN "definition"
  ELSE IF Prefix_oli(ls) # 0 THEN "oli"
  ELSE "paragraph"

At(block) ==
  /\ Now("parse_block") /\ Item.ls # <<>> /\ Block(Item.ls) = block

Return == Now("parse_block") /\ Item.ls = <<>> /\ Skip(<<>>)

Empty_line == At("empty") /\ Skip(<<Blocks(Tail(Item.ls))>>)

Hrule == At("hrule") /\ Put(Node("HRULE"), <<Blocks(Tail(Item.ls))>>)

Header_attrs(n) == IF "ATTRS" \in Flags THEN <<On("parse_header_ext_attrs", n)>> ELSE <<>>

Header(level) == Label("HEADER", <<>>, {}, level - 1, <<>>)

Parse_atxheader ==
  LET l     == Head(Item.ls)
      level == Min({6, FirstNot(l, 1, End(l), {"#"}) - 1})
      i     == Countspaces(l, level + 1, End(l), 0)
      hash  == Least({k \in 0 .. Len(l) : \A j \in k + 1 .. Len(l) : l[j] = "#"}, 0)
      end   == Least({k \in 0 .. hash : \A j \in k + 1 .. hash : l[j] = " "}, 0) + 1
      rest  == <<Blocks(Tail(Item.ls))>>
  IN  /\ At("atxheader")
      /\ IF end > i
         THEN Open(Header(level), <<Inline(Append(l, "\n"), i, end)>>, Header_attrs(nodes) \o rest)
         ELSE Skip(rest)

(***************************************************************************)
(* The attributes at the end of a header that was parsed: they go from its *)
(* last text, and that goes if nothing is left of it.                      *)
(***************************************************************************)
Parse_header_ext_attrs ==
  LET n    == Item.n
      nn   == Last_child(n)
      t    == lab[nn].text
      i    == Least({k \in DOMAIN t : t[k] = "{" /\ \A j \in k + 1 .. Len(t) : t[j] # "{"}, 0)
      kept == SubSeq(t, 1, Least({k \in 0 .. i - 1 : \A j \in k + 1 .. i - 1 : t[j] = " "}, 0))
      attrs == SubSeq(t, i + 1, Len(t) - 1)
      set  == [lab EXCEPT ![n].more = Attrs_parse(attrs), ![nn].text = kept]
  IN  /\ Now("parse_header_ext_attrs")
      /\ IF \/ nn = None \/ lab[nn].type # "NORMAL_TEXT" \/ t = <<>>
            \/ t[Len(t)] # "}" \/ i = 0
         THEN Skip(<<>>)
         ELSE IF Attrs_length(attrs) = 0 THEN Fails("attrs")
         ELSE /\ IF kept = <<>> THEN Removelast(set, n)
                 ELSE /\ lab' = set
                      /\ UNCHANGED <<kids, par, nodes, current, depth, held, maxdepth, phase>>
              /\ Go(<<>>)
              /\ UNCHANGED <<session, turn, queues, inside, failure>>

Parse_htmlblock ==
  LET t   == Flat(Item.ls)
      end == Htmlblock_end(t)
  IN  /\ At("htmlblock")
      /\ Put(Label("BLOCKHTML", SubSeq(t, 1, end - 1), {}, 0, <<>>),
             <<Blocks(LinesOf(SubSeq(t, end, Len(t))))>>)

Parse_fencedcode ==
  LET ls  == Item.ls
      n   == Fencedcode_end(ls)
  IN  /\ At("fencedcode")
      /\ Put(Label("BLOCKCODE", Flat(SubSeq(ls, 2, n - 1)), {}, 0, Parse_fencedcode_line(ls[1]).lang),
             <<Blocks(From(ls, n + 1))>>)

Parse_blockcode ==
  LET code == Blockcode(Item.ls) IN
  /\ At("blockcode")
  /\ Put(Label("BLOCKCODE", code.text, {}, 0, <<>>), <<Blocks(code.rest)>>)

Parse_blockquote ==
  LET quote == Blockquote(Item.ls) IN
  /\ At("blockquote")
  /\ Open(Node("BLOCKQUOTE"), <<Blocks(quote.body)>>,
          (IF "CALLOUTS" \in Flags THEN <<On("admonition", nodes)>> ELSE <<>>)
            \o <<Blocks(quote.rest)>>)

\* A quotation that begins with the words of an admonition alone in bold.
Firstchild(n, type) ==
  IF n = None \/ kids[n] = <<>> THEN None
  ELSE IF lab[kids[n][1]].type = type THEN kids[n][1] ELSE None

Admonition ==
  LET n    == Item.n
      para == Firstchild(n, "PARAGRAPH")
      bold == Firstchild(para, "DOUBLE_EMPHASIS")
      word == Firstchild(bold, "NORMAL_TEXT")
      next == kids[para][2]
      own  == /\ Len(kids[para]) > 1
              /\ lab[next].type = "NORMAL_TEXT" /\ Begins(lab[next].text, "\n")
      fl   == {"NOTE", IF own THEN "ADMONITION" ELSE "ADMONITION_BLOCK"}
  IN  /\ Now("admonition")
      /\ IF word # None /\ Len(kids[bold]) = 1 /\ lab[word].text \in {<<"Note">>, <<"Note", ":">>}
         THEN /\ Relabel(n, [lab[n] EXCEPT !.fl = fl])
              /\ Go(<<>>)
              /\ UNCHANGED <<session, turn, queues, inside, failure>>
         ELSE Skip(<<>>)

(***************************************************************************)
(* A paragraph, or what comes before a header's underline: its last line   *)
(* is the header.                                                          *)
(***************************************************************************)
Plain(ls) == LET t == Flat(ls) IN Inline(t, 1, Len(t))

Para(lines, beoln) ==
  Label("PARAGRAPH", <<>>, IF beoln THEN {"beoln"} ELSE {}, lines, <<>>)

Under_header(l, level, ls) ==
  [do |-> "header_line", l |-> l, level |-> level, ls |-> ls]

Parse_paragraph ==
  LET ls   == Item.ls
      head(p) == Under_header(IF p.lines = 0 THEN <<>> ELSE ls[p.lines], p.level, p.rest)
  IN  /\ At("paragraph")
      /\ \E p \in {Paragraph(ls)} :
           IF p.level = 0
           THEN Open(Para(p.lines, p.beoln),
                     IF p.lines = 0 THEN <<>> ELSE <<Plain(SubSeq(ls, 1, p.lines))>>,
                     <<Blocks(p.rest)>>)
           ELSE IF p.lines <= 1 THEN Skip(<<head(p)>>)
           ELSE Open(Para(p.lines - 1, p.beoln), <<Plain(SubSeq(ls, 1, p.lines - 1))>>, <<head(p)>>)

Header_line ==
  /\ Now("header_line")
  /\ Open(Header(Item.level), <<Plain(<<Item.l>>)>>, Header_attrs(nodes) \o <<Blocks(Item.ls)>>)

(***************************************************************************)
(* Lists: the items from the first line on, of which the lines are those   *)
(* of parse_listitem().  Once an item has blocks, so have those after it.  *)
(***************************************************************************)
Items(ls, kind) ==
  LET f[k \in 1 .. Len(ls) + 1] ==
        LET item == Listitem(From(ls, k), kind) IN
        IF k > Len(ls) \/ ~item.is THEN <<>>
        ELSE <<item>> \o (IF item.li_end THEN <<>> ELSE f[Len(ls) - Len(item.rest) + 1])
  IN  f[1]

After(items) == items[Len(items)].rest

Checked(c) == CASE c = 1 -> {"CHECKED"} [] c = 0 -> {"UNCHECKED"} [] OTHER -> {}

\* The k-th item of a list that begins with number start, as it is parsed.
Item_of(items, k, start, fl) ==
  LET block == "BLOCK" \in fl \/ \E j \in 1 .. k : items[j].block
  IN  [body |-> items[k].body, sublist |-> items[k].sublist,
       num |-> start + k - 1, block |-> block,
       fl |-> fl \cup (IF block THEN {"BLOCK"} ELSE {}) \cup Checked(items[k].checked)]

\* What is done for the items from k to last.
Each(name, items, k, last, start, fl) ==
  IF k > last THEN <<>>
  ELSE <<[do |-> name, items |-> items, k |-> k, last |-> last, start |-> start, fl |-> fl]>>

\* The same for the items after this one.
Next_item == Each(Item.do, Item.items, Item.k + 1, Item.last, Item.start, Item.fl)

Parse_list ==
  /\ At("uli") \/ At("oli")
  /\ LET kind  == IF Prefix_uli(Item.ls) # 0 THEN "UNORDERED" ELSE "ORDERED"
         start == IF kind = "ORDERED" THEN List_start(Item.ls[1]) ELSE 1
     IN  \E items \in {Items(Item.ls, kind)} :
           Open(Label("LIST", <<>>, {kind}, start, 0),
                Each("parse_listitem", items, 1, Len(items), start, {kind})
                  \o <<[do |-> "list_end", block |-> \E k \in DOMAIN items : items[k].block]>>,
                <<Blocks(After(items))>>)

\* Mutant: items are not counted.
NotCounted == lab

\* The number of items of a list is counted where an item is made.
Counted ==
  IF lab[current].type = "LIST" THEN [lab EXCEPT ![current].more = @ + 1] ELSE lab

Parse_listitem ==
  LET it    == Item_of(Item.items, Item.k, Item.start, Item.fl)
      ls    == it.body
      split == IF it.sublist \in 1 .. Len(ls) - 1 THEN it.sublist ELSE Len(ls)
      first == SubSeq(ls, 1, split)
      t     == Flat(first)
      body  == IF it.block THEN Blocks(first) ELSE Inline(t, 1, Len(t) + 1)
  IN  /\ Now("parse_listitem")
      /\ Open_in(Counted, Label("LISTITEM", <<>>, it.fl, it.num, <<>>),
                 <<body>> \o (IF split < Len(ls) THEN <<Blocks(From(ls, split + 1))>> ELSE <<>>),
                 Next_item)

List_end ==
  /\ Now("list_end")
  /\ IF Item.block
     THEN /\ Relabel(current, [lab[current] EXCEPT !.fl = @ \cup {"BLOCK"}])
          /\ Go(<<>>)
          /\ UNCHANGED <<session, turn, queues, inside, failure>>
     ELSE Skip(<<>>)

(***************************************************************************)
(* A definition list goes on with the one before the paragraph that is its *)
(* title, if there is one.  Where another item was expected and none came, *)
(* an empty one is left.                                                   *)
(***************************************************************************)
Definitions(items, fl) ==
  LET empty == IF After(items) # <<>> /\ ~items[Len(items)].li_end THEN 1 ELSE 0
  IN  Each("data", items, 1, Len(items) + empty, 1, fl)

Parse_definition ==
  LET cur   == Last_child(current)
      k     == Len(kids[current])
      prev  == IF k > 1 THEN kids[current][k - 1] ELSE None
      merge == prev # None /\ lab[prev].type = "DEFINITION"
      fl    == {"DEF"} \cup (IF "beoln" \in lab[cur].fl THEN {"BLOCK"} ELSE {})
                 \cup (IF merge THEN lab[prev].fl ELSE {})
      last(items) == [do |-> "list_end",
                      block |-> "BLOCK" \in fl \/ \E j \in DOMAIN items : items[j].block]
  IN  /\ At("definition")
      /\ \E items \in {Items(Item.ls, "DEF")} :
           IF ~merge /\ TooDeep(depth) THEN Fails("depth")
           ELSE /\ IF merge THEN Retitle(prev) ELSE Entitle(Label("DEFINITION", <<>>, fl, 0, <<>>))
                /\ work' = Append(Instead(<<Blocks(After(items))>>),
                                  Definitions(items, fl) \o <<last(items)>>)
                /\ UNCHANGED <<session, turn, queues, inside, failure>>

Definition_data ==
  /\ Now("data")
  /\ Open(Node("DEFINITION_DATA"),
          IF Item.k > Len(Item.items) THEN <<>>
          ELSE Each("parse_listitem", Item.items, Item.k, Item.k, Item.start, Item.fl),
          Next_item)

(***************************************************************************)
(* Tables: a header and the rows, each with as many cells as the header.   *)
(***************************************************************************)
Row(l, e, flags, header) == [l |-> l, e |-> e, flags |-> flags, header |-> header]

Rows(rows) == IF rows = <<>> THEN <<>> ELSE <<[do |-> "parse_table_row", rows |-> rows]>>

Cells(row, cells, col) ==
  IF col > Len(row.flags) THEN <<>>
  ELSE <<[do |-> "table_cell", row |-> row, cells |-> cells, col |-> col]>>

Parse_table ==
  LET ls    == Item.ls
      flags == Table_rule(ls[2], Table_columns(ls[1]))
      rows  == Table_rows(ls)
      e     == Least({k \in 1 .. End(ls[1]) : Is_empty(From(ls[1], k))}, 0)
      body  == [k \in DOMAIN rows |-> Row(rows[k], End(rows[k]), flags, {})]
      part(header, inner) == [do |-> "table_part", header |-> header, rows |-> inner]
  IN  /\ At("table")
      /\ Open(Label("TABLE_BLOCK", <<>>, {}, Len(flags), <<>>),
              <<part(TRUE, <<Row(ls[1], e, flags, {"HEADER"})>>), part(FALSE, body)>>,
              <<Blocks(From(ls, Len(rows) + 3))>>)

Table_part ==
  Now("table_part") /\ Open(Node(IF Item.header THEN "TABLE_HEADER" ELSE "TABLE_BODY"),
                            Rows(Item.rows), <<>>)

\* The text of a row, as its cells have it.
Row_text(row) == Append(row.l, "\n")

Parse_table_row ==
  LET row == Head(Item.rows) IN
  /\ Now("parse_table_row")
  /\ \E cells \in {Table_cells(Row_text(row), row.e, Len(row.flags))} :
       Open(Node("TABLE_ROW"), Cells(row, cells, 1), Rows(Tail(Item.rows)))

Table_cell ==
  LET row == Item.row
      col == Item.col
  IN  /\ Now("table_cell")
      /\ Open(Label("TABLE_CELL", <<>>, row.flags[col] \cup row.header, col - 1, <<>>),
              IF col > Len(Item.cells) THEN <<>>
              ELSE <<Inline(Row_text(row), Item.cells[col].from, Item.cells[col].to)>>,
              Cells(row, Item.cells, col + 1))

(***************************************************************************)
(* parse_inline(): text up to an active character, then what begins there. *)
(***************************************************************************)
\* The same text from end on, after something that ended there.
From_end(end) == [Item EXCEPT !.i = end, !.end = end, !.offset = 0, !.bang = FALSE]

\* Mutant: the search for the next active character begins with this one again.
PassedNot == [Item EXCEPT !.bang = FALSE]

\* Nothing begins at the active character, which is text.
Passed == [Item EXCEPT !.end = Item.i + 1, !.bang = FALSE]

Active_at == First(Item.s, Item.end, Item.e, Active)

Inline_text ==
  LET k == Active_at IN
  /\ Now("parse_inline") /\ k > Item.i
  /\ Say({}, SubSeq(Item.s, Item.i, k - 1), <<[Item EXCEPT !.i = k, !.end = k, !.offset = @ + k - Item.i]>>)

Inline_end ==
  Now("parse_inline") /\ Item.i >= Item.e /\ Skip(<<>>)

Active_is(C) ==
  /\ Now("parse_inline") /\ Item.i < Item.e /\ Active_at = Item.i
  /\ Item.s[Item.i] \in C

Brackets == {"[", "!"}

\* What begins at another active character.
Spans ==
  IF Active_is(Active \ Brackets)
  THEN {Span(Item.s, Item.offset, Item.i, Item.e, in_link_body)} ELSE {}

Span_nothing(span) == span.does = "nothing" /\ Skip(<<Passed>>)

Span_skip(span) == span.does = "skip" /\ Skip(<<From_end(span.end)>>)

Span_wrap(span) ==
  /\ span.does = "wrap"
  /\ Open(Node(span.type), <<Inline(Item.s, span.from, span.to)>>, <<From_end(span.end)>>)

Span_leaf(span) ==
  LET next == <<From_end(span.end)>> IN
  /\ span.does = "leaf"
  /\ IF span.type = "NORMAL_TEXT" THEN Say({}, span.text, next)
     ELSE IF span.type = "ESCAPED_TEXT" THEN Say({"ESCAPED"}, span.text, next)
     ELSE Put(Label(span.type, span.text, {}, 0, <<>>), next)

\* Mutant: one symbol too few is taken back.
ShortenedLess(cut) ==
  LET n == Last_child(current) IN
  IF n = None \/ lab[n].type # "NORMAL_TEXT" THEN lab
  ELSE [lab EXCEPT ![n].text = SubSeq(@, 1, Max({0, Len(@) - cut + 1}))]

\* The last text of the current node with cut symbols less, if it is a text.
Shortened(cut) ==
  LET n == Last_child(current) IN
  IF n = None \/ lab[n].type # "NORMAL_TEXT" THEN lab
  ELSE [lab EXCEPT ![n].text = SubSeq(@, 1, Max({0, Len(@) - cut}))]

Char_linebreak_does(span) ==
  LET n == Last_child(current)
      t == lab[n].text
      kept == Least({k \in 0 .. Len(t) : \A j \in k + 1 .. Len(t) : t[j] = " "}, 0)
  IN  /\ span.does = "break"
      /\ Asserting(n # None /\ lab[n].type = "NORMAL_TEXT",
                   Leaf_in(Shortened(Len(t) - kept), Node("LINEBREAK"), <<From_end(span.end)>>))

\* A link without brackets takes back the text that turns out to be part of it.
Char_autolink(span) ==
  /\ span.does = "auto"
  /\ Leaf_in(IF span.rewind = -1 THEN lab ELSE Shortened(span.rewind),
             Label("LINK_AUTO", span.text, {span.type}, 0, <<>>), <<From_end(span.end)>>)

(***************************************************************************)
(* char_link(): what a bracket at i begins.  A "!" before it that is not   *)
(* escaped makes it an image.                                              *)
(***************************************************************************)
No_link == [does |-> "nothing", bang |-> FALSE]

\* A reference by name, its attributes parsed.  ok is whether that failed.
Of_ref(type, name, end, body) ==
  LET k == Keyed(name, [j \in DOMAIN refq |-> refq[j].name])
      r == refq[k]
  IN  IF k = 0 THEN No_link
      ELSE [does |-> type, bang |-> FALSE, link |-> Unscape_text(r.link), title |-> r.title,
            dims |-> <<>>, attrs |-> Attrs_parse(r.attrs), body |-> body, end |-> end]

\* A target in parentheses, and the attributes in braces after it.
Target_with(type, t, attrs, end, body) ==
  [does |-> type, bang |-> FALSE, link |-> Unscape_text(t.link), title |-> t.title,
   dims |-> t.dims, attrs |-> attrs, body |-> body, end |-> end]

\* Attributes in braces after a target; nothing in them is a failure.
Target_attrs(type, s, e, t, words, body) ==
  LET next == t.end + 1 + Attrs_length(words) IN
  IF Attrs_length(words) = 0 THEN [No_link EXCEPT !.does = "fail"]
  ELSE Target_with(type, t, Attrs_parse(words),
                   IF Is(s, next, e, "}") THEN next + 1 ELSE next, body)

Target_to(type, s, e, t, body) ==
  IF ~t.ok THEN No_link
  ELSE IF "ATTRS" \in Flags /\ t.end + 2 < e /\ s[t.end] = "{"
       THEN Target_attrs(type, s, e, t,
                         SubSeq(s, t.end + 1, First(s, t.end + 1, e, {"}"}) - 1), body)
  ELSE Target_with(type, t, <<>>, t.end, body)

Of_target(type, s, i, e, body) == Target_to(type, s, e, Link_target(s, i, e), body)

\* What [^name] or [%key] does: with is the definition of a footnote or a text.
Mark(does, with) == [does |-> does, with |-> with]

\* Mutant: a footnote is parsed inside of another, too.
Of_footnote_inside(s, i, p, note) ==
  IF note # 0 /\ note \notin used THEN Mark("footnote", note)
  ELSE Mark("text", SubSeq(s, i, p))

\* Mutant: every use of a footnote's name makes it one.
Of_footnote_again(s, i, p, note) ==
  IF note # 0 /\ ~in_footnote THEN Mark("footnote", note)
  ELSE Mark("text", SubSeq(s, i, p))

\* A footnote's name: its first use outside of others makes it one.
Of_footnote(s, i, p, note) ==
  IF note # 0 /\ note \notin used /\ ~in_footnote THEN Mark("footnote", note)
  ELSE Mark("text", SubSeq(s, i, p))

Of_metadata(entry) ==
  IF entry # 0 THEN Mark("text", metaq[entry].val) ELSE Mark("skip", <<>>)

\* [^name] or [%key], of which the bracket closes at p.
Of_mark(s, i, p, img) ==
  LET id   == SubSeq(s, i + 2, p - 1)
      mark == IF s[i + 1] = "^"
              THEN Of_footnote(s, i, p, Keyed(id, [j \in DOMAIN footq |-> footq[j].name]))
              ELSE Of_metadata(Keyed(id, [j \in DOMAIN metaq |-> metaq[j].key]))
  IN  IF p - i < 3 THEN [No_link EXCEPT !.bang = img]
      ELSE [does |-> mark.does, with |-> mark.with, bang |-> img, end |-> p + 1]

\* [name] or [body][name], of which the second bracket closes at close.
Of_name(type, s, i, p, k, close, e) ==
  LET name  == Replace_spacing(SubSeq(s, i + 1, p - 1))
      given == SubSeq(s, k + 1, close - 1)
      body  == [from |-> i + 1, to |-> p]
  IN  IF ~Is(s, k, e, "[") THEN Of_ref(type, name, p + 1, body)
      ELSE IF close = e THEN No_link
      ELSE Of_ref(type, IF given = <<>> THEN name ELSE given, close + 1, body)

\* What is after the text in brackets decides, from k on.
Link_after(type, s, i, p, k, e) ==
  IF Is(s, k, e, "(") THEN Of_target(type, s, k, e, [from |-> i + 1, to |-> p])
  ELSE Of_name(type, s, i, p, k, First(s, k + 1, e, {"]"}), e)

Link_to(s, i, p, e, img) ==
  IF (~img /\ in_link_body) \/ ~Is(s, p, e, "]") THEN No_link
  ELSE IF \/ "FOOTNOTES" \in Flags /\ s[i + 1] = "^"
          \/ "METADATA" \in Flags /\ s[i + 1] = "%" THEN Of_mark(s, i, p, img)
  ELSE Link_after(IF img THEN "IMAGE" ELSE "LINK", s, i, p, FirstNot(s, p + 1, e, Spaces), e)

Char_link(s, o, i, e) ==
  Link_to(s, i, Find_emph_char(s, i + 1, e, "]"), e,
          o > 0 /\ s[i - 1] = "!" /\ ~Is_escaped(s, i - o, i - 1))

\* An image's bracket is the next symbol.
Link_here ==
  IF Item.s[Item.i] = "[" THEN Char_link(Item.s, Item.offset, Item.i, Item.e)
  ELSE IF Is(Item.s, Item.i + 1, Item.e, "[")
       THEN Char_link(Item.s, Item.offset + 1, Item.i + 1, Item.e)
  ELSE No_link

Links == IF Active_is(Brackets) THEN {Link_here} ELSE {}

\* An exclamation mark before what turns out to be no image is kept as text.
IsBang(link) == link.bang /\ ~Item.bang

Char_image_mark(link) == IsBang(link) /\ Say({}, <<"!">>, <<[Item EXCEPT !.bang = TRUE]>>)

Link_does(link, what) == link.does = what /\ ~IsBang(link)

Link_nothing(link) == Link_does(link, "nothing") /\ Skip(<<Passed>>)
Link_skip(link) == Link_does(link, "skip") /\ Skip(<<From_end(link.end)>>)
Link_text(link) == Link_does(link, "text") /\ Say({}, link.with, <<From_end(link.end)>>)
Link_fail(link) == Link_does(link, "fail") /\ Fails("attrs")

Link_footnote(link) ==
  /\ Link_does(link, "footnote")
  /\ IF TooDeep(depth) THEN Fails("depth")
     ELSE Asserting(~in_footnote,
            /\ Opens(lab, Label("FOOTNOTE", <<>>, {}, foots + 1, <<>>),
                     <<Blocks(footq[link.with].contents), Do("foot_end")>>, <<From_end(link.end)>>)
            /\ foots' = foots + 1 /\ used' = used \cup {link.with}
            /\ in_footnote' = TRUE
            /\ UNCHANGED <<refq, footq, metaq, in_link_body>>)

Foot_end ==
  /\ Now("foot_end")
  /\ Asserting(in_footnote,
       /\ in_footnote' = FALSE /\ Go(<<>>)
       /\ UNCHANGED <<tvars, session, turn, queues, in_link_body, failure>>)

Link_label(link, text) ==
  Label(link.does, text, {}, 0, 
        [link |-> link.link, title |-> link.title, dims |-> link.dims, attrs |-> link.attrs])

Link_image(link) ==
  /\ Link_does(link, "IMAGE")
  /\ Put(Link_label(link, SubSeq(Item.s, link.body.from, link.body.to - 1)), <<From_end(link.end)>>)

\* The body of a link is parsed with links turned off, if there is any.
Link_link(link) ==
  LET empty == link.body.from = link.body.to IN
  /\ Link_does(link, "LINK")
  /\ IF TooDeep(depth) THEN Fails("depth")
     ELSE /\ Opens(lab, Link_label(link, <<>>),
                   IF empty THEN <<>>
                   ELSE <<Inline(Item.s, link.body.from, link.body.to), Do("link_end")>>,
                   <<From_end(link.end)>>)
          /\ in_link_body' = (in_link_body \/ ~empty)
          /\ UNCHANGED <<queues, in_footnote>>

\* Mutant: links are not turned on again.
Link_body_stays ==
  /\ Now("link_end") /\ Go(<<>>)
  /\ UNCHANGED <<tvars, session, turn, queues, inside, failure>>

Link_body_end ==
  /\ Now("link_end")
  /\ in_link_body' = FALSE /\ Go(<<>>)
  /\ UNCHANGED <<tvars, session, turn, queues, in_footnote, failure>>

Out_of_memory == phase = "parsing" /\ session.frail /\ Fails("memory")

Begin == Lowdown_doc_parse \/ Doc_header \/ Add_metadata
Gather_next == Gather_footnote \/ Gather_ref \/ Gather_line \/ Gather_done
Block_next ==
  \/ Return \/ Empty_line \/ Hrule \/ Parse_atxheader \/ Parse_header_ext_attrs
  \/ Parse_htmlblock \/ Parse_fencedcode \/ Parse_blockcode \/ Parse_blockquote \/ Admonition
  \/ Parse_paragraph \/ Header_line
List_next == Parse_list \/ Parse_listitem \/ List_end \/ Parse_definition \/ Definition_data
Table_next == Parse_table \/ Table_part \/ Parse_table_row \/ Table_cell
Inline_next == Inline_text \/ Inline_end \/ Foot_end \/ Link_body_end
Span_next ==
  \E span \in Spans :
    \/ Span_nothing(span) \/ Span_skip(span) \/ Span_wrap(span) \/ Span_leaf(span)
    \/ Char_linebreak_does(span) \/ Char_autolink(span)
Link_next ==
  \E link \in Links :
    \/ Char_image_mark(link) \/ Link_nothing(link) \/ Link_skip(link) \/ Link_text(link)
    \/ Link_fail(link) \/ Link_footnote(link) \/ Link_image(link) \/ Link_link(link)

Step ==
  \/ Begin \/ Gather_next \/ Block_next \/ List_next \/ Table_next
  \/ Inline_next \/ Span_next \/ Link_next \/ Pop

Rest == phase # "parsing" /\ UNCHANGED vars

Next ==
  \/ Step /\ beat' = ~beat
  \/ Out_of_memory /\ beat' = ~beat
  \/ Rest

(***************************************************************************)
(* The machine goes on as long as a parse does.  There being a step to     *)
(* take is for the check for deadlock to tell, and the beat makes every    *)
(* step a change: this is WF_vars(Step) without the ENABLED.               *)
(***************************************************************************)
Fairness == []<>(phase # "parsing") \/ []<><<TRUE>>_vars

Spec == Init /\ [][Next]_vars /\ Fairness

(***************************************************************************)
(* Properties.                                                             *)
(***************************************************************************)
\* No assertion of the parser fails, whatever it is given (document.c:283,
\* :1089, :1644, :4534, :5163).
NoAbort == phase # "aborted"

KidTypes(n) == [k \in DOMAIN kids[n] |-> lab[kids[n][k]].type]
All_are(n, C) == \A k \in DOMAIN kids[n] : lab[kids[n][k]].type \in C
IsHeld(n) == n \in {held[k] : k \in DOMAIN held}

Wholes == {"BLOCKCODE", "BLOCKQUOTE", "BLOCKHTML", "HEADER", "HRULE", "PARAGRAPH", "LIST",
           "DEFINITION", "TABLE_BLOCK"}

(***************************************************************************)
(* What the renderers take for granted of a tree: the items of a list are  *)
(* as many as it says and are numbered one after the other, and after one  *)
(* with blocks all have blocks; a definition list begins with a title and  *)
(* every title has data; a table has a header and a body, and each row as  *)
(* many cells as the table has columns; a block is never below an inline   *)
(* element, but for those of a footnote (document.c:2874-3300, 3652-3915). *)
(***************************************************************************)
ListWhole(n) ==
  /\ All_are(n, {"LISTITEM"}) /\ lab[n].more = Len(kids[n])
  /\ \A k \in DOMAIN kids[n] : lab[kids[n][k]].num = lab[n].num + k - 1
  /\ \A j, k \in DOMAIN kids[n] :
       j < k /\ "BLOCK" \in lab[kids[n][j]].fl => "BLOCK" \in lab[kids[n][k]].fl
  /\ ~IsHeld(n) =>
       ("BLOCK" \in lab[n].fl <=> \E k \in DOMAIN kids[n] : "BLOCK" \in lab[kids[n][k]].fl)

DefinitionWhole(n) ==
  LET t == KidTypes(n) IN
  /\ All_are(n, {"DEFINITION_TITLE", "DEFINITION_DATA"})
  /\ t # <<>> /\ t[1] = "DEFINITION_TITLE"
  /\ ~IsHeld(n) => /\ t[Len(t)] = "DEFINITION_DATA"
                   /\ \A k \in 2 .. Len(t) : t[k - 1] = t[k] => t[k] = "DEFINITION_DATA"

TableWhole(n) ==
  LET parts == kids[n]
      rows  == UNION {{kids[parts[k]][j] : j \in DOMAIN kids[parts[k]]} : k \in DOMAIN parts}
  IN  /\ ~IsHeld(n) => KidTypes(n) = <<"TABLE_HEADER", "TABLE_BODY">>
      /\ \A r \in rows :
           /\ lab[r].type = "TABLE_ROW" /\ All_are(r, {"TABLE_CELL"})
           /\ ~IsHeld(r) => Len(kids[r]) = lab[n].num
           /\ \A k \in DOMAIN kids[r] : lab[kids[r][k]].num = k - 1

Grammar ==
  Whole =>
    \A n \in DOMAIN lab :
      /\ lab[n].type = "LIST" => ListWhole(n)
      /\ lab[n].type = "DEFINITION" => DefinitionWhole(n)
      /\ lab[n].type = "TABLE_BLOCK" => TableWhole(n)
      /\ lab[n].type \in Wholes =>
           lab[par[n]].type \in {"ROOT", "BLOCKQUOTE", "LISTITEM", "FOOTNOTE"}

(***************************************************************************)
(* Text comes in as few nodes as it can: of two texts one after the other  *)
(* one is escaped and the other is not (document.c:170), so that the       *)
(* typography of a word is decided in one node.                            *)
(***************************************************************************)
TextsMerged ==
  Whole =>
    \A n \in DOMAIN kids : \A k \in 2 .. Len(kids[n]) :
      LET s == lab[kids[n][k - 1]]
          t == lab[kids[n][k]]
      IN  s.type = "NORMAL_TEXT" /\ t.type = "NORMAL_TEXT" => s.fl # t.fl

\* Is a node of the type held, with something left to do inside?
Within(type) ==
  \E k \in DOMAIN held : lab[held[k]].type = type /\ work[k] # <<>>

Ancestors(n) ==
  LET up[m \in DOMAIN par] == IF par[m] = None THEN {} ELSE {par[m]} \cup up[par[m]]
  IN  up[n]

(***************************************************************************)
(* in_link_body is set while and only while the body of a link is parsed,  *)
(* through all that may be inside it, footnotes too; and there is no link  *)
(* in a link (document.c:1545, 1585, 1931-1936).                           *)
(***************************************************************************)
LinkFlag == phase = "parsing" => (in_link_body <=> Within("LINK"))

LinkBodies ==
  /\ LinkFlag
  /\ Whole => \A n \in DOMAIN lab : lab[n].type = "LINK" =>
                \A m \in Ancestors(n) : lab[m].type # "LINK"

(***************************************************************************)
(* A definition of a footnote is used at most once, footnotes are numbered *)
(* in the order in which they come up, none is inside another, and         *)
(* in_footnote is set while one is parsed (document.c:1607-1660).          *)
(***************************************************************************)
FootnoteFlag == phase = "parsing" /\ Within("FOOTNOTE") => in_footnote

FootnotesOnce ==
  /\ FootnoteFlag
  /\ Whole =>
       LET notes == {n \in DOMAIN lab : lab[n].type = "FOOTNOTE"} IN
       /\ {lab[n].num : n \in notes} = 1 .. foots
       /\ Cardinality(notes) = foots /\ Cardinality(used) = foots
       /\ \A m, n \in notes : m < n => lab[m].num < lab[n].num
       /\ \A n \in notes : \A m \in Ancestors(n) : lab[m].type # "FOOTNOTE"

(***************************************************************************)
(* The metadata given back to the caller and that in the tree are the      *)
(* same, in the same order, each key once (document.c:4508-4577).          *)
(***************************************************************************)
MetaAgree ==
  Whole =>
    \A n \in DOMAIN lab : lab[n].type = "DOC_HEADER" =>
      /\ Len(kids[n]) = Len(metaq)
      /\ \A k \in DOMAIN metaq :
           LET m == kids[n][k] IN
           /\ lab[m].text = metaq[k].key
           /\ IF kids[m] = <<>> THEN Stripped(metaq[k].val) = <<>>
              ELSE lab[kids[m][1]].text = Stripped(metaq[k].val)
      /\ \A j, k \in DOMAIN metaq : metaq[j].key = metaq[k].key => j = k

(***************************************************************************)
(* Words that a document has where the parser drops nothing are at every   *)
(* moment in the tree or still to be parsed, as often as they are in the   *)
(* document: nothing is parsed twice, nothing is left out, whatever is     *)
(* taken back, split or moved (document.c:560-613, 1319-1465, 2874-3300).  *)
(***************************************************************************)
Words == {"a", "b", "c"}

Count(w, t) == Cardinality({k \in DOMAIN t : t[k] = w})

Row_words(rows) == FlattenSeq([k \in DOMAIN rows |-> SubSeq(rows[k].l, 1, rows[k].e - 1)])

\* The words of xs[from] to xs[to], as text gives them.
Words_of(text(_), from, to) == FlattenSeq([j \in 1 .. to - from + 1 |-> text(from + j - 1)])

Pending(item) ==
  CASE item.do = "parse_inline" -> SubSeq(item.s, item.i, item.e - 1)
    [] item.do = "parse_block" -> Flat(item.ls)
    [] item.do = "header_line" -> item.l \o Flat(item.ls)
    [] item.do \in {"parse_listitem", "data"} ->
         Words_of(LAMBDA k : Flat(item.items[k].body), item.k, Min({item.last, Len(item.items)}))
    [] item.do \in {"table_part", "parse_table_row"} -> Row_words(item.rows)
    [] item.do = "table_cell" ->
         Words_of(LAMBDA k : SubSeq(item.row.l, item.cells[k].from, item.cells[k].to - 1),
                  item.col, Min({Len(item.cells), Len(item.row.flags)}))
    [] item.do = "gather" -> Flat(item.ls) \o Flat(item.text)
    [] item.do = "header" -> Flat(Document)
    [] OTHER -> <<>>

Kept_text(n) ==
  IF lab[n].type \in {"LINK", "IMAGE"} THEN lab[n].text \o lab[n].more.link \o lab[n].more.title
  ELSE lab[n].text

Unused == {k \in DOMAIN footq : k \notin used}

NothingLost ==
  phase \in {"parsing", "done"} =>
    \A w \in Words :
      Count(w, Flat(Document)) =
        MapThenSumSet(LAMBDA n : Count(w, Kept_text(n)), DOMAIN lab)
          + MapThenSumSet(LAMBDA k : Count(w, FlattenSeq([j \in DOMAIN work[k] |-> Pending(work[k][j])])),
                          DOMAIN work)
          + MapThenSumSet(LAMBDA k : Count(w, Flat(footq[k].contents)), Unused)

(***************************************************************************)
(* The bound on depth bounds the tree, too, but not as it is: a paragraph  *)
(* is one deeper once it is moved to be the title of a definition list,    *)
(* and one in a footnote of a paragraph that is moved is two deeper, which *)
(* is the most, as footnotes are not nested (document.c:193, 3235).        *)
(***************************************************************************)
DepthBounded ==
  Whole /\ maxdepth # 0 =>
    /\ Len(held) <= maxdepth + 1
    /\ \A n \in DOMAIN par : Cardinality(Ancestors(n)) <= maxdepth + 2

\* Every parse comes to an end: no function waits for anything but its own progress.
Ends == phase = "parsing" ~> phase \in {"done", "failed"}

(***************************************************************************)
(* A parser may be used for many documents, so that a footnote defined and *)
(* not used yet becomes one where it is referred to outside of others      *)
(* (man/lowdown_doc_parse.3:61).                                           *)
(***************************************************************************)
NotesKept == phase = "parsing" /\ in_footnote => Within("FOOTNOTE")

\* What is_fencedcode_block() finds to be one is parsed as one (document.c:2230).
FencedCodeExists ==
  Now("parse_block") /\ Item.ls # <<>> /\ Is_fencedcode_block(Item.ls) =>
    Block(Item.ls) \in {"fencedcode", "htmlblock"}
===============================================================================
