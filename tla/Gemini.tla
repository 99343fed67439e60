-------------------------------- MODULE Gemini --------------------------------
(***************************************************************************)
(* The Gemini renderer, src/format/gemini/gemini.c.  Its output is made of *)
(* lines, of which those of links stand alone: a link is printed where it  *)
(* stands only by its label, and its target is queued until there is room  *)
(* between two blocks.  Footnotes go to the end, and the cells of a table  *)
(* are rendered twice: to be measured, and to be printed.                  *)
(*                                                                         *)
(* One renderer is given a sequence of documents.                          *)
(***************************************************************************)
EXTENDS Escape, Metadata

LOCAL INSTANCE FiniteSetsExt
LOCAL INSTANCE SequencesExt
LOCAL INSTANCE TLC

(***************************************************************************)
(* A session: the trees of the documents, each kids, par and lab; the      *)
(* flags of lowdown_gemini_new(); whether there is a template; and whether *)
(* memory may run out once.                                                *)
(***************************************************************************)
CONSTANT Sessions

ASSUME SessionsAssumption ==
  \A s \in Sessions :
    Len(s.docs) \in Nat /\ \A k \in 1 .. Len(s.docs) : s.docs[k].lab[0].type = "ROOT"

VARIABLES
  session,
  turn,         \* the number of the document in hand
  st,           \* struct gemini
  metaq,
  calls,        \* the calls of rndr() in progress, the innermost first
  ob,           \* the buffer that is rendered to
  gphase,       \* "idle", "rendering", "template", "done", "failed" or "aborted"
  fault         \* "none", "may" or "had"

vars == <<session, turn, st, metaq, calls, ob, gphase, fault>>

None == -1

Kids(n) == session.docs[turn].kids[n]
Par(n)  == session.docs[turn].par[n]
Lab(n)  == session.docs[turn].lab[n]
Type(n) == IF n = None THEN "none" ELSE Lab(n).type

Place(n) == CHOOSE k \in DOMAIN Kids(Par(n)) : Kids(Par(n))[k] = n
Prev(n)  == IF Place(n) = 1 THEN None ELSE Kids(Par(n))[Place(n) - 1]
Next_of(n) == IF Place(n) = Len(Kids(Par(n))) THEN None ELSE Kids(Par(n))[Place(n) + 1]

\* n and the nodes it is in.
Above(node) ==
  LET f[n \in DOMAIN session.docs[turn].par] == {n} \cup IF Par(n) = None THEN {} ELSE f[Par(n)]
  IN  f[node]
Inside(n, types) == \E m \in Above(n) : Type(m) \in types

(***************************************************************************)
(* Tokens, each with the node it is of: a symbol of text; what begins a    *)
(* line, with its space; the label of a link and its entry, with the       *)
(* number of the link; the rule below the header of a table; and the mark  *)
(* of a footnote, in the text and where it is listed.                      *)
(***************************************************************************)
Token(k, e, n, id) == [k |-> k, e |-> e, n |-> n, id |-> id]
Say(n, text) == [k \in DOMAIN text |-> Token("text", text[k], n, 0)]
Mark(n, e)   == <<Token("mark", e, n, 0)>>
Nl           == Token("text", "\n", None, 0)
Blank(n)     == [k \in 1 .. n |-> Token("text", " ", None, 0)]

Is_nl(token)    == token.k = "text" /\ token.e = "\n"
Is_white(token) == token.k = "text" /\ token.e \in White

\* lowdown_gemini_esc() of tokens, on one line: a full stop may be in the
\* buffer already.
Esc(out, in) ==
  LET add(o, token) ==
        IF Is_nl(token) THEN o \o Blank(IF o # <<>> /\ o[Len(o)].e = "." THEN 2 ELSE 1)
        ELSE IF Is_white(token) /\ token.e \in Controls THEN o ELSE Append(o, token)
  IN  FoldLeft(add, out, in)

(***************************************************************************)
(* Where a call writes, and the renderer with it.                          *)
(***************************************************************************)
Vspace(w, sz) ==
  IF w.st.last_blank < 0 \/ w.st.last_blank >= sz THEN w
  ELSE [out |-> w.out \o [k \in 1 .. sz - w.st.last_blank |-> Nl],
        st  |-> [w.st EXCEPT !.last_blank = sz]]

Literal == {"BLOCKCODE", "BLOCKHTML"}

\* White-space is dropped at the start of a line.
Unled(in) ==
  SubSeq(in, Min({k \in DOMAIN in : ~Is_white(in[k])} \cup {Len(in) + 1}), Len(in))

\* Mutant: nothing is known of the line that has just begun.
Rndr_buf_begun(w, n, in) ==
  IF Inside(n, Literal) THEN [out |-> w.out \o in, st |-> [w.st EXCEPT !.last_blank = 1]]
  ELSE [out |-> Esc(w.out, IF w.st.last_blank # 0 THEN Unled(in) ELSE in),
        st  |-> [w.st EXCEPT !.last_blank = IF in # <<>> /\ @ > 0 THEN 0 ELSE @]]

Rndr_buf(w, n, in) ==
  IF Inside(n, Literal) THEN [out |-> w.out \o in, st |-> [w.st EXCEPT !.last_blank = 1]]
  ELSE [out |-> Esc(w.out, IF w.st.last_blank # 0 THEN Unled(in) ELSE in),
        st  |-> [w.st EXCEPT !.last_blank = IF in # <<>> THEN 0 ELSE @]]

Set_blank(w, blank) == [w EXCEPT !.st.last_blank = blank]

(***************************************************************************)
(* rndr_link_ref(): letters as the columns of a spreadsheet, or a Roman    *)
(* number.                                                                 *)
(***************************************************************************)
Letter(ref) == LET k == ((ref - 1) % 26) + 1 IN SubSeq("abcdefghijklmnopqrstuvwxyz", k, k)
Letters[ref \in Nat] == IF ref = 0 THEN "" ELSE Letters[(ref - 1) \div 26] \o Letter(ref)

Numerals == <<<<1000, "m">>, <<900, "cm">>, <<500, "d">>, <<400, "cd">>, <<100, "c">>, <<90, "xc">>,
              <<50, "l">>, <<40, "xl">>, <<10, "x">>, <<9, "ix">>, <<5, "v">>, <<4, "iv">>, <<1, "i">>>>
Roman[ref \in Nat] ==
  IF ref = 0 THEN ""
  ELSE LET k == Min({j \in DOMAIN Numerals : Numerals[j][1] <= ref})
       IN  Numerals[k][2] \o Roman[ref - Numerals[k][1]]

Link_ref(s, ref) ==
  IF "LINK_NOREF" \in s.flags THEN ""
  ELSE "[" \o (IF "LINK_ROMAN" \in s.flags THEN Roman[ref] ELSE Letters[ref]) \o "]"

\* rndr_flush_linkq(): the entry of each link of the queue, in order.
Flush_linkq(w) ==
  LET entry(l) == <<Token("entry", Link_ref(w.st, l.id), l.n, l.id), Nl>>
  IN  [out |-> w.out \o FlattenSeq([k \in DOMAIN w.st.linkq |-> entry(w.st.linkq[k])]),
       st  |-> [w.st EXCEPT !.linkq = <<>>, !.linkqsz = 0, !.last_blank = 1]]

(***************************************************************************)
(* Vertical space before and after a node.                                 *)
(***************************************************************************)
Links == {"IMAGE", "LINK", "LINK_AUTO"}
Spaced_twice == {"BLOCKQUOTE", "DEFINITION", "HEADER", "LIST", "PARAGRAPH"}
Spaced_once  == {"DEFINITION_TITLE", "HRULE", "LISTITEM", "META", "TABLE_ROW"}
Fenced       == {"TABLE_BLOCK"} \cup Literal

\* IS_STANDALONE_LINK, and whether the link is a line of its own.
Standalone_link(n) ==
  Type(Par(n)) = "PARAGRAPH" /\ Type(Par(Par(n))) = "ROOT" /\ Kids(Par(n)) = <<n>>
Alone(s, n) == Standalone_link(n) \/ "LINK_IN" \in s.flags

Lines_before(s, n) ==
  CASE Type(n) \in Spaced_twice \cup Fenced ->
         IF /\ Type(Par(n)) = "LISTITEM" /\ Type(Par(Par(n))) = "DEFINITION_DATA" /\ Prev(n) = None
         THEN 1 ELSE 2
    [] Type(n) = "DEFINITION_DATA" ->
         IF /\ Type(Par(n)) = "DEFINITION" /\ "BLOCK" \in Lab(Par(n)).fl
            /\ Type(Prev(n)) = "DEFINITION_DATA"
         THEN 2 ELSE 1
    [] Type(n) \in Spaced_once \cup {"LINEBREAK"} -> 1
    [] Type(n) = "MATH_BLOCK" /\ "BLOCKMODE" \in Lab(n).fl -> 1
    [] Type(n) \in Links /\ "LINK_IN" \in s.flags -> 1
    [] OTHER -> 0

Lines_after(s, n) ==
  CASE Type(n) \in Spaced_twice -> 2
    [] Type(n) \in Spaced_once \cup {"DEFINITION_DATA"} -> 1
    [] Type(n) = "MATH_BLOCK" /\ "BLOCKMODE" \in Lab(n).fl -> 1
    [] Type(n) = "DOC_HEADER" /\ "STANDALONE" \in s.flags -> 2
    [] Type(n) \in Links /\ Alone(s, n) -> 1
    [] OTHER -> 0

\* A line that is broken in a quote is a line of the quote.
Space_before(w, n) ==
  LET spaced == Vspace(w, Lines_before(w.st, n))
  IN  IF Type(n) = "LINEBREAK" /\ Inside(n, {"BLOCKQUOTE"})
      THEN Set_blank([spaced EXCEPT !.out = @ \o Mark(n, ">")], 0)
      ELSE IF Type(n) = "ROOT" THEN Set_blank(w, -1) ELSE spaced

(***************************************************************************)
(* What comes before the children of a node.  After what begins a line     *)
(* there is no vertical space until there is text.                         *)
(***************************************************************************)
Item_mark(n) ==
  LET fl == Lab(n).fl
  IN  CASE "DEF" \in fl -> ":" [] "CHECKED" \in fl -> "checked" [] "UNCHECKED" \in fl -> "unchecked"
        [] "UNORDERED" \in fl -> "*" [] OTHER -> ToString(Lab(n).num) \o "."

Header_mark(s, n) ==
  LET level == Lab(n).num + s.headers_offs IN "#" \o ToString(IF level < 1 THEN 1 ELSE level)

Leading(w, n) ==
  LET begins(e) == Set_blank(Rndr_buf(w, n, Mark(n, e)), -1)
  IN  CASE Type(n) \in Fenced      -> Vspace(Rndr_buf(w, n, Mark(n, "fence") \o <<Nl>>), 1)
        [] Type(n) = "BLOCKQUOTE"  -> begins(">")
        [] Type(n) = "HEADER"      -> begins(Header_mark(w.st, n))
        [] Type(n) \in Links /\ Alone(w.st, n) -> begins("=>")
        [] Type(n) = "LISTITEM"    -> begins(Item_mark(n))
        [] Type(n) = "SUBSCRIPT"   -> Rndr_buf(w, n, Say(n, <<"~">>))
        [] Type(n) = "SUPERSCRIPT" -> Rndr_buf(w, n, Say(n, <<"^">>))
        [] OTHER -> w

Before(w, n) == Leading(Space_before(w, n), n)

(***************************************************************************)
(* What comes after the children.                                          *)
(***************************************************************************)
\* rndr_entity(), for a few of the entities there are.
Entities == ("&copy;" :> "U+A9") @@ ("&amp;" :> "&") @@ ("&#55296;" :> "")
Entity(text) ==
  IF text = <<>> \/ text[1] \notin DOMAIN Entities THEN text
  ELSE IF Entities[text[1]] = "" THEN <<>> ELSE <<Entities[text[1]]>>

Texts == {"RAW_HTML", "MATH_BLOCK", "BLOCKCODE", "BLOCKHTML", "CODESPAN", "NORMAL_TEXT", "IMAGE"}

\* The metadata, a line for each.
Doc_header(w, n) ==
  LET line(out, m) == Append(Esc(Esc(out, Say(n, m.key)) \o Say(n, <<": ">>), Say(n, m.value)), Nl)
  IN  IF "METADATA" \notin w.st.flags \/ metaq = <<>> THEN w
      ELSE [out |-> FoldLeft(line, w.out, metaq), st |-> [w.st EXCEPT !.last_blank = 1]]

Trailing(w, n) ==
  CASE Type(n) = "HRULE"      -> Rndr_buf(w, n, Mark(n, "~~~~~~~~"))
    [] Type(n) \in Texts      -> Rndr_buf(w, n, Say(n, Lab(n).text))
    [] Type(n) = "ENTITY"     -> Rndr_buf(w, n, Say(n, Entity(Lab(n).text)))
    [] Type(n) = "DOC_HEADER" -> Doc_header(w, n)
    [] OTHER -> w

Space_after(w, n) ==
  IF Type(n) \in Fenced THEN Vspace(Set_blank(Rndr_buf(w, n, Mark(n, "fence")), 0), 2)
  ELSE Vspace(w, Lines_after(w.st, n))

(***************************************************************************)
(* Calls.  A footnote has a buffer of its own, and a table one for the     *)
(* cell in hand; any other node writes where the call before does.         *)
(***************************************************************************)
Call(n) ==
  [node |-> n, buf |-> <<>>,
   next |-> IF Type(n) \in {"META", "TABLE_BLOCK"} \/ Kids(n) = <<>> THEN None ELSE Kids(n)[1],
   cell |-> 0, busy |-> FALSE, widths |-> <<>>, row |-> <<>>, blank |-> 0, flags |-> {}]

\* The cells of a table, row by row.
Cells(n) ==
  LET rows == FlattenSeq([k \in DOMAIN Kids(n) |-> Kids(Kids(n)[k])])
  IN  FlattenSeq([k \in DOMAIN rows |-> Kids(rows[k])])
Cell_count(n) == Len(Cells(n))

Own_buffer == {"FOOTNOTE", "TABLE_BLOCK"}
Owner(stack) ==
  Min({k \in DOMAIN stack : Type(stack[k].node) \in Own_buffer} \cup {Len(stack) + 1})

\* What is written to by the calls of the stack, and with what is written.
View(stack) == [out |-> IF Owner(stack) \in DOMAIN stack THEN stack[Owner(stack)].buf ELSE ob, st |-> st]
Stack_with(stack, out) ==
  IF Owner(stack) \in DOMAIN stack THEN [stack EXCEPT ![Owner(stack)].buf = out] ELSE stack
Ob_with(stack, out) == IF Owner(stack) \in DOMAIN stack THEN ob ELSE out

This == calls[1].node

(***************************************************************************)
(* The end of a call: after a blank line the queue is written, unless that *)
(* is for the end of the document, or not the time.                        *)
(***************************************************************************)
Flush_due(s) ==
  /\ ~s.nolinkflush /\ s.nolinkqsz = 0 /\ s.last_blank > 1
  /\ s.linkq # <<>> /\ "LINK_END" \notin s.flags
Flushed(w) ==
  IF ~Flush_due(w.st) THEN w
  ELSE LET all == Flush_linkq(w) IN Set_blank([all EXCEPT !.out = Append(@, Nl)], 2)

Gemini_returns(w) ==
  LET end == Flushed(w) IN
  /\ st' = end.st
  /\ calls' = Stack_with(Tail(calls), end.out)
  /\ ob' = Ob_with(Tail(calls), end.out)
  /\ gphase' = IF Len(calls) > 1 THEN gphase ELSE IF session.templ THEN "template" ELSE "done"

Quiet == UNCHANGED <<session, turn, fault>>

(***************************************************************************)
(* lowdown_gemini_new(): the one flag of two.                              *)
(***************************************************************************)
New_flags(oflags) == IF "LINK_END" \in oflags THEN oflags \ {"LINK_IN"} ELSE oflags

Init ==
  /\ session \in Sessions
  /\ turn = 0 /\ metaq = <<>> /\ calls = <<>> /\ ob = <<>> /\ gphase = "idle"
  /\ st = [flags |-> New_flags(session.oflags), last_blank |-> 0, linkq |-> <<>>, linkqsz |-> 0,
           nolinkqsz |-> 0, nolinkflush |-> FALSE, headers_offs |-> 0, foots |-> <<>>]
  /\ fault = IF session.frail THEN "may" ELSE "none"

Lowdown_gemini_rndr ==
  /\ gphase = "idle" /\ turn < Len(session.docs)
  /\ UNCHANGED <<session, metaq, fault>>
  /\ turn' = turn + 1
  /\ st' = [st EXCEPT !.last_blank = -1, !.headers_offs = 1]
  /\ calls' = <<Call(0)'>>
  /\ ob' = <<>> /\ gphase' = "rendering"

Rendering_calls == gphase = "rendering" /\ calls # <<>>

\* The call for n begins, with the settings s.
Gemini_calls(stack, s, n) ==
  LET w     == Before([View(stack) EXCEPT !.st = s], n)
      there == Stack_with(stack, w.out)
  IN  /\ ob' = Ob_with(stack, w.out)
      /\ CASE Type(n) = "FOOTNOTE" ->
                LET mark == <<Token("note", "", n, Len(s.foots) + 1)>> IN
                /\ calls' = <<[Call(n) EXCEPT !.buf = mark]>> \o there
                /\ st' = [w.st EXCEPT !.last_blank = -1, !.nolinkflush = TRUE]
           [] Type(n) = "TABLE_BLOCK" ->
                LET widths == [k \in 1 .. Lab(n).num |-> 0] IN
                /\ calls' = <<[Call(n) EXCEPT !.widths = widths, !.flags = s.flags]>> \o there
                /\ st' = [w.st EXCEPT !.flags = s.flags \ {"LINK_IN"},
                                     !.nolinkqsz = IF 0 < Cell_count(n) THEN s.linkqsz + 1 ELSE 0]
           [] OTHER -> calls' = <<Call(n)>> \o there /\ st' = w.st

\* The call for the next child of the innermost one begins.
Gemini_child ==
  /\ Rendering_calls /\ calls[1].next # None
  /\ LET n     == calls[1].next
         begun == [calls[1] EXCEPT !.next = Next_of(n)]
     IN  Gemini_calls([calls EXCEPT ![1] = begun], st, n)
  /\ UNCHANGED <<gphase, metaq>> /\ Quiet

\* The children of the node, which is of one of the types, are done.
Gemini_at(types) == Rendering_calls /\ calls[1].next = None /\ Type(This) \in types

Special == {"ROOT", "FOOTNOTE", "META", "TABLE_BLOCK"} \cup Links

Gemini_plain ==
  /\ Rendering_calls /\ calls[1].next = None /\ Type(This) \notin Special
  /\ Gemini_returns(Space_after(Trailing(View(Tail(calls)), This), This))
  /\ UNCHANGED metaq /\ Quiet

(***************************************************************************)
(* A link that is no line of its own is put into the queue and has a       *)
(* label; while a table is measured it is only counted.                    *)
(***************************************************************************)
Label(w, n) ==
  LET id == IF w.st.nolinkqsz = 0 THEN w.st.linkqsz + 1 ELSE w.st.nolinkqsz
      ref == Link_ref(w.st, id)
      said == Rndr_buf(w, n, IF ref = "" THEN <<>> ELSE <<Token("label", ref, n, id)>>)
  IN  IF w.st.nolinkqsz = 0
      THEN [out |-> said.out,
            st  |-> [said.st EXCEPT !.linkqsz = id, !.linkq = Append(@, [n |-> n, id |-> id])]]
      ELSE [said EXCEPT !.st.nolinkqsz = id + 1]

Gemini_link ==
  /\ Gemini_at(Links)
  /\ LET w == Trailing(View(Tail(calls)), This)
         labelled == IF Alone(st, This) THEN w ELSE Label(w, This)
     IN  Gemini_returns(Space_after(labelled, This))
  /\ UNCHANGED metaq /\ Quiet

\* Mutant: the mark has the number of the footnotes before.
Gemini_footnote_before ==
  /\ Gemini_at({"FOOTNOTE"})
  /\ LET w == View(Tail(calls))
         mark == <<Token("noted", "", This, Len(st.foots))>>
         kept == [out |-> w.out,
                  st  |-> [w.st EXCEPT !.nolinkflush = FALSE, !.foots = Append(@, calls[1].buf)]]
     IN  Gemini_returns(Rndr_buf(kept, This, mark))
  /\ UNCHANGED metaq /\ Quiet

Gemini_footnote ==
  /\ Gemini_at({"FOOTNOTE"})
  /\ LET w == View(Tail(calls))
         mark == <<Token("noted", "", This, Len(st.foots) + 1)>>
         kept == [out |-> w.out,
                  st  |-> [w.st EXCEPT !.nolinkflush = FALSE, !.foots = Append(@, calls[1].buf)]]
     IN  Gemini_returns(Rndr_buf(kept, This, mark))
  /\ UNCHANGED metaq /\ Quiet

Gemini_meta ==
  /\ Gemini_at({"META"})
  /\ LET w == View(Tail(calls))
         m == Meta_of(Lab(This).text, [k \in DOMAIN Kids(This) |-> Lab(Kids(This)[k]).text])
         kept == IF Lab(This).chng = "DELETE" THEN w
                 ELSE [w EXCEPT !.st.headers_offs = Header_offset(m, @)]
     IN  /\ metaq' = IF Lab(This).chng = "DELETE" THEN metaq ELSE Append(metaq, m)
         /\ Gemini_returns(Space_after(kept, This))
  /\ Quiet

(***************************************************************************)
(* The end of the document: the links that were kept for it, the           *)
(* footnotes, and one newline.                                             *)
(***************************************************************************)
Notes(foots) ==
  IF foots = <<>> THEN <<>>
  ELSE Mark(None, "~~~~~~~~") \o <<Nl, Nl>>
         \o FlattenSeq([k \in DOMAIN foots |-> Append(foots[k], Nl)])
Snipped(out) == Append(SubSeq(out, 1, Max({k \in DOMAIN out : ~Is_nl(out[k])} \cup {0})), Nl)

Gemini_root ==
  /\ Gemini_at({"ROOT"})
  /\ LET w == View(Tail(calls))
         listed == st.linkq # <<>> /\ "LINK_END" \in st.flags
         linked == IF listed THEN Flush_linkq(Vspace(w, 2)) ELSE w
         noted == Vspace([linked EXCEPT !.out = @ \o Notes(st.foots)], 1)
     IN  IF listed /\ st.nolinkqsz # 0 THEN gphase' = "aborted" /\ UNCHANGED <<st, calls, ob>>
         ELSE Gemini_returns([noted EXCEPT !.out = Snipped(@)])
  /\ UNCHANGED metaq /\ Quiet

(***************************************************************************)
(* rndr_table().  cell of the call counts the cells that are measured, and *)
(* then those that are printed; every row has a cell.                      *)
(***************************************************************************)
\* The columns of a token on the screen.
Columns(token) ==
  IF token.k = "noted" THEN 2 + Len(ToString(token.id)) ELSE Len(token.e)
Mbswidth(out) == FoldLeft(LAMBDA sum, token : sum + Columns(token), 0, out)

Table == calls[1]
At_table(busy) == Gemini_at({"TABLE_BLOCK"}) /\ Table.busy = busy
Measures(call) == call.cell < Cell_count(call.node)
In_hand == Cells(This)[(Table.cell % Cell_count(This)) + 1]

Gemini_cell ==
  /\ At_table(FALSE) /\ Table.cell < 2 * Cell_count(This)
  /\ LET begun == [Table EXCEPT !.busy = TRUE, !.buf = <<>>, !.blank = st.last_blank]
         s     == [st EXCEPT !.last_blank = 0]
     IN  Gemini_calls([calls EXCEPT ![1] = begun], s, In_hand)
  /\ UNCHANGED <<gphase, metaq>> /\ Quiet

\* Mutant: links are not recorded again after the table is measured.
Measured_off(s) == s

Measured(s) == [s EXCEPT !.nolinkqsz = 0]

Gemini_measure ==
  /\ At_table(TRUE) /\ Measures(Table)
  /\ LET i  == Place(In_hand)
         sz == Mbswidth(Table.buf)
         s  == [st EXCEPT !.last_blank = Table.blank]
         widths == [Table.widths EXCEPT ![i] = IF @ < sz THEN sz ELSE @]
         measured == [Table EXCEPT !.busy = FALSE, !.cell = @ + 1, !.widths = widths]
     IN  /\ calls' = [calls EXCEPT ![1] = measured]
         /\ st' = IF Table.cell + 1 < Cell_count(This) THEN s ELSE Measured(s)
  /\ UNCHANGED <<ob, gphase, metaq>> /\ Quiet

Padded(fl, text, sz) ==
  LET left == CASE "RIGHT" \in fl -> sz [] "CENTER" \in fl -> sz \div 2 [] OTHER -> 0
  IN  Blank(left) \o text \o Blank(sz - left)

\* The last of its row has the row printed, and the last of the header a rule.
Row_printed(w, row, cell) ==
  LET line(v, out) == Vspace(Set_blank([v EXCEPT !.out = @ \o out], 0), 1)
      top == Par(Par(cell))
      ruled == /\ Type(top) = "TABLE_HEADER" /\ Next_of(Par(cell)) = None
  IN  IF ruled THEN line(line(w, row), <<Token("rule", "-", Par(top), 0)>>) ELSE line(w, row)

Gemini_print ==
  /\ At_table(TRUE) /\ ~Measures(Table)
  /\ LET cell == In_hand
         sz  == Table.widths[Place(cell)] - Mbswidth(Table.buf)
         row == Table.row \o Padded(Lab(cell).fl, Table.buf, sz)
                  \o IF Next_of(cell) = None THEN <<>> ELSE Say(cell, <<" | ">>)
         w   == Set_blank(View(Tail(calls)), Table.blank)
         end == IF Next_of(cell) = None THEN Row_printed(w, row, cell) ELSE w
         printed == [Table EXCEPT !.busy = FALSE, !.cell = @ + 1,
                                  !.row = IF Next_of(cell) = None THEN <<>> ELSE row]
     IN  IF sz < 0 THEN gphase' = "aborted" /\ UNCHANGED <<calls, ob, st>>
         ELSE /\ calls' = <<printed>> \o Stack_with(Tail(calls), end.out)
              /\ ob' = Ob_with(Tail(calls), end.out)
              /\ st' = end.st /\ UNCHANGED gphase
  /\ UNCHANGED metaq /\ Quiet

\* Mutant: the flags are not put back.
Gemini_table_keeps ==
  /\ At_table(FALSE) /\ ~Measures(Table) /\ Table.cell = 2 * Cell_count(This)
  /\ Gemini_returns(Space_after(View(Tail(calls)), This))
  /\ UNCHANGED metaq /\ Quiet

Gemini_table ==
  /\ At_table(FALSE) /\ ~Measures(Table) /\ Table.cell = 2 * Cell_count(This)
  /\ LET w == [View(Tail(calls)) EXCEPT !.st.flags = Table.flags]
     IN  Gemini_returns(Space_after(w, This))
  /\ UNCHANGED metaq /\ Quiet

(***************************************************************************)
(* Memory runs out: every call in progress returns at once, and a table    *)
(* puts the flags back.  nolinkflush stays as it is.  A step that takes no *)
(* memory is before one that does, to the same effect.                     *)
(***************************************************************************)
Tables == {k \in DOMAIN calls : Type(calls[k].node) = "TABLE_BLOCK"}
Oldest_table == CHOOSE k \in Tables : \A j \in Tables : j <= k

Gemini_fails ==
  /\ gphase \in {"rendering", "template"} /\ fault = "may"
  /\ fault' = "had" /\ gphase' = "failed"
  /\ st' = IF Tables = {} THEN st ELSE [st EXCEPT !.flags = calls[Oldest_table].flags]
  /\ calls' = <<>>
  /\ UNCHANGED <<session, turn, metaq, ob>>

\* lowdown_template() has given what it made of the buffer.
Gemini_template ==
  /\ gphase = "template" /\ gphase' = "done"
  /\ UNCHANGED <<st, metaq, calls, ob>> /\ Quiet

\* What lowdown_gemini_rndr() puts right before it returns.
Lowdown_gemini_ends ==
  /\ gphase \in {"done", "failed"} /\ gphase' = "idle"
  /\ st' = [st EXCEPT !.linkq = <<>>, !.linkqsz = 0, !.nolinkqsz = 0, !.foots = <<>>]
  /\ metaq' = <<>>
  /\ UNCHANGED <<calls, ob>> /\ Quiet

Rest ==
  /\ gphase = "aborted" \/ (gphase = "idle" /\ turn = Len(session.docs))
  /\ UNCHANGED vars

Next ==
  \/ Lowdown_gemini_rndr \/ Gemini_child \/ Gemini_plain \/ Gemini_link \/ Gemini_footnote
  \/ Gemini_meta \/ Gemini_root \/ Gemini_cell \/ Gemini_measure \/ Gemini_print \/ Gemini_table
  \/ Gemini_fails \/ Gemini_template \/ Lowdown_gemini_ends \/ Rest

Spec == Init /\ [][Next]_vars
===============================================================================
