----------------------------- MODULE GeminiOutput -----------------------------
(***************************************************************************)
(* What the Gemini renderer promises of what it writes, and of itself.     *)
(***************************************************************************)
EXTENDS Gemini

LOCAL INSTANCE FiniteSets
LOCAL INSTANCE SequencesExt

All_nodes == DOMAIN session.docs[turn].par
In_table(n) == Inside(n, {"TABLE_BLOCK"})
Of_kind(k)  == SelectSeq(ob, LAMBDA token : token.k = k)

(***************************************************************************)
(* A line holds the text of one block only, and what begins a line is at   *)
(* its beginning, after the marks of the quotes and items it is in: the    *)
(* space between blocks is kept in last_blank, which is -1 while nothing   *)
(* may come between (gemini.c:180), across calls, tables and footnotes.    *)
(* A link that is a line of its own without having a text is left out:     *)
(* what comes after it is put behind it.                                   *)
(***************************************************************************)
Line_blocks == {"PARAGRAPH", "HEADER", "LISTITEM", "BLOCKCODE", "BLOCKHTML", "TABLE_ROW", "TABLE_BLOCK",
                "HRULE", "DOC_HEADER", "DEFINITION_TITLE", "FOOTNOTE"}
Block_of(node) ==
  LET f[n \in All_nodes] == IF Type(n) \in Line_blocks \/ Par(n) = None THEN n ELSE f[Par(n)]
  IN  f[node]

Output_lines ==
  LET add(lines, token) ==
        IF Is_nl(token) THEN Append(lines, <<>>)
        ELSE [lines EXCEPT ![Len(lines)] = Append(@, token)]
  IN  FoldLeft(add, <<<<>>>>, ob)

Of_container(token) ==
  \/ token.k = "note"
  \/ token.k = "mark" /\ Type(token.n) \in {"BLOCKQUOTE", "LISTITEM", "LINEBREAK"}

Line_apart(line) ==
  LET said == SelectSeq(line, LAMBDA token : token.n # None /\ ~Is_white(token))
      body == SelectSeq(said, LAMBDA token : ~Of_container(token))
      block(token) == Block_of(IF token.k = "noted" THEN Par(token.n) ELSE token.n)
  IN  /\ \A k \in 2 .. Len(said) : Of_container(said[k]) => Of_container(said[k - 1])
      /\ \A k \in 2 .. Len(body) :
           /\ block(body[k]) = block(body[1])
           /\ body[k].k \notin {"mark", "entry", "rule"} /\ body[1].k \notin {"entry", "rule"}
           /\ (body[1].k = "mark" /\ body[1].e = "=>") => body[1].n \in Above(body[k].n)

Has_text(n) == \E m \in All_nodes : n \in Above(m) /\ Type(m) \in Texts /\ Lab(m).text # <<>>
Named_links == \A n \in All_nodes : Type(n) \in Links /\ Alone(st, n) => Has_text(n)

LinesApart ==
  gphase = "done" /\ Named_links => \A k \in DOMAIN Output_lines : Line_apart(Output_lines[k])

(***************************************************************************)
(* Each link that is not a line of its own is listed once, and where its   *)
(* label is read the next entry with that label is its own, though the     *)
(* labels begin again after each flush and the cells of a table are        *)
(* rendered twice (gemini.c:400, 740).  A label in a footnote is at the    *)
(* end of the document, after the entry.  A footnote in a table is listed  *)
(* twice, with its labels.                                                 *)
(***************************************************************************)
Labelled(n) ==
  /\ Type(n) \in Links /\ ~Standalone_link(n)
  /\ "LINK_IN" \notin st.flags \/ In_table(n)

Plain_tables == \A n \in All_nodes : Type(n) = "FOOTNOTE" => ~In_table(n)

LinksListed ==
  gphase = "done" /\ Plain_tables /\ ~st.nolinkflush =>
    LET listed == Of_kind("entry")
        named(j, token) == ob[j].k = "entry" /\ ob[j].e = token.e
    IN  /\ {listed[k].n : k \in DOMAIN listed} = {n \in All_nodes : Labelled(n)}
        /\ \A j, k \in DOMAIN listed : listed[j].n = listed[k].n => j = k
        /\ \A k \in DOMAIN ob : ob[k].k = "label" =>
             IF Inside(ob[k].n, {"FOOTNOTE"})
             THEN \E j \in DOMAIN ob : named(j, ob[k]) /\ ob[j].n = ob[k].n
             ELSE \E j \in k + 1 .. Len(ob) :
                    /\ named(j, ob[k]) /\ ob[j].n = ob[k].n
                    /\ \A i \in k + 1 .. j - 1 : ~named(i, ob[k])

(***************************************************************************)
(* Each footnote is marked once, with the number under which it is listed, *)
(* and the numbers of the list are in order (gemini.c:693, 787): also of   *)
(* one in a table, which is listed twice.                                  *)
(***************************************************************************)
NotesListed ==
  gphase = "done" =>
    LET listed == Of_kind("note")
        marked == Of_kind("noted")
        notes  == {n \in All_nodes : Type(n) = "FOOTNOTE"}
    IN  /\ \A k \in DOMAIN listed : listed[k].id = k
        /\ \A k \in DOMAIN marked :
             marked[k].id \in DOMAIN listed /\ listed[marked[k].id].n = marked[k].n
        /\ \A n \in notes :
             /\ Cardinality({k \in DOMAIN marked : marked[k].n = n}) = 1
             /\ Cardinality({k \in DOMAIN listed : listed[k].n = n}) = IF In_table(n) THEN 2 ELSE 1

(***************************************************************************)
(* When no call but that of the root is in progress, what tables and       *)
(* footnotes set for their contents is as it was: the flags, nolinkqsz,    *)
(* which rndr_flush_linkq() asserts to be zero, and nolinkflush, unless    *)
(* memory ran out in a footnote.  After a document the renderer keeps      *)
(* nothing of it (gemini.c:1000).                                          *)
(***************************************************************************)
Restored ==
  /\ Len(calls) <= 1 =>
       /\ st.flags = New_flags(session.oflags)
       /\ st.nolinkflush => fault = "had"
       /\ gphase = "rendering" => st.nolinkqsz = 0
  /\ gphase = "idle" =>
       st.linkq = <<>> /\ st.linkqsz = 0 /\ st.nolinkqsz = 0 /\ st.foots = <<>> /\ metaq = <<>>

(***************************************************************************)
(* "assert(widths[i] >= (size_t)ssz)" (gemini.c:463): what is printed of a *)
(* cell is no wider than what was measured of it.                          *)
(***************************************************************************)
CellsFit ==
  At_table(TRUE) /\ ~Measures(Table) =>
    Mbswidth(Table.buf) <= Table.widths[Place(In_hand)]
===============================================================================
