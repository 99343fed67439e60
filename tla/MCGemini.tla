------------------------------- MODULE MCGemini -------------------------------
(***************************************************************************)
(* Sessions for Gemini.                                                    *)
(***************************************************************************)
EXTENDS GeminiOutput, Trees

LOCAL INSTANCE SequencesExt

Cell(fl) == F(N(4, "TABLE_CELL"), fl)
Para     == N(1, "PARAGRAPH")
Note     == <<N(2, "FOOTNOTE"), N(3, "PARAGRAPH"), T(4, "n"), N(4, "LINK"), T(5, "l")>>

Tabular(first, last) ==
  <<K(N(1, "TABLE_BLOCK"), 2),
    N(2, "TABLE_HEADER"), N(3, "TABLE_ROW"), Cell({"RIGHT"}), T(5, "a"), Cell({"CENTER"})>> \o first
    \o <<N(2, "TABLE_BODY"), N(3, "TABLE_ROW"), Cell({"RIGHT"}), N(5, "LINK"), T(6, "d"), Cell({"CENTER"})>> \o last

Kinds == <<
  <<Para, T(2, "a."), N(2, "LINK"), T(3, "b"), T(2, "\nc")>>,
  <<Para, X(2, "LINK_AUTO", "x")>>,
  <<Para, N(2, "LINK"), T(3, "b")>>,
  <<Para, X(2, "IMAGE", ""), T(2, " i\t"), N(2, "LINEBREAK"), N(2, "SUPERSCRIPT"), T(3, "e")>>,
  <<Para, N(2, "EMPHASIS"), T(3, "a")>> \o Note \o <<T(2, ".\n")>>,
  <<F(N(1, "LIST"), {}), F(N(2, "LISTITEM"), {"UNORDERED"}), T(3, "a\n"), N(3, "LIST"),
    K(N(4, "LISTITEM"), 1), N(5, "LINK"), T(6, "b"), T(5, "\n"), F(N(2, "LISTITEM"), {"CHECKED"}), T(3, "c")>>,
  <<N(1, "BLOCKQUOTE"), N(2, "PARAGRAPH"), T(3, "a"), N(3, "LINEBREAK"), T(3, "b"), N(3, "LINK"), T(4, "c"),
    N(2, "HEADER"), T(3, "d")>>,
  Tabular(<<N(5, "LINK"), T(6, "b")>>, <<T(5, "c"), X(5, "LINK_AUTO", "y")>>),
  Tabular(<<T(5, "b"), N(5, "FOOTNOTE"), N(6, "PARAGRAPH"), T(7, "n"), N(7, "LINK"), T(8, "l")>>, <<>>),
  <<X(1, "BLOCKCODE", "a\nb\n"), N(1, "HRULE"), X(1, "BLOCKHTML", "h\n")>>,
  <<F(N(1, "DEFINITION"), {"BLOCK"}), N(2, "DEFINITION_TITLE"), T(3, "a"), N(2, "DEFINITION_DATA"),
    F(N(3, "LISTITEM"), {"DEF"}), N(4, "PARAGRAPH"), T(5, "b"), N(2, "DEFINITION_DATA"),
    F(N(3, "LISTITEM"), {"DEF"}), N(4, "PARAGRAPH"), N(5, "LINK"), T(6, "c")>>,
  <<Para, T(2, "a"), F(X(2, "MATH_BLOCK", "m"), {"BLOCKMODE"}), X(2, "CODESPAN", "c"),
    W(2, "ENTITY", "&copy;"), W(2, "ENTITY", "&#55296;"), N(2, "SUBSCRIPT"), X(3, "RAW_HTML", "r"),
    F(N(1, "LIST"), {}), F(N(2, "LISTITEM"), {"UNCHECKED"}), T(3, "d\n")>>>>

About == <<N(1, "DOC_HEADER")>> \o Meta("title", "a.\nb") \o Meta("baseheaderlevel", "2")
           \o Meta("shiftheadinglevelby", "-1") \o <<[W(2, "META", "x") EXCEPT !.l.chng = "DELETE"]>>

Render(docs, oflags) == [docs |-> docs, oflags |-> oflags, templ |-> FALSE, frail |-> FALSE]

Flag_sets == {{}, {"LINK_IN", "METADATA", "STANDALONE"}, {"LINK_IN", "LINK_END"}, {"LINK_NOREF"},
              {"LINK_END", "LINK_ROMAN", "METADATA"}}

Pairs ==
  {Render(<<Tree((IF j = k THEN About ELSE <<>>) \o Kinds[j] \o Kinds[k])>>, fl) :
     j, k \in DOMAIN Kinds, fl \in Flag_sets}

\* More links than there are letters.
Many(n) == <<Para, T(2, "a")>> \o FlattenSeq([k \in 1 .. n |-> <<X(2, "LINK_AUTO", "x")>>])
Long == {Render(<<Tree(Many(29) \o Many(2))>>, fl) : fl \in {{}, {"LINK_ROMAN"}, {"LINK_END"}}}

\* One renderer, several documents, and memory that may run out.
Used_again ==
  {[Render(<<Tree(Kinds[j]), Tree(Kinds[k])>>, fl) EXCEPT !.frail = TRUE, !.templ = (j > k)] :
     j, k \in {5, 8, 9}, fl \in {{}, {"LINK_IN"}, {"LINK_END"}}}

MCSessions == Pairs \cup Long \cup Used_again

\* Footnotes up to nine, with one of them in a table.
Noted(n) == <<Para>> \o FlattenSeq([k \in 1 .. n |-> <<N(2, "FOOTNOTE"), N(3, "PARAGRAPH"), T(4, "n")>>])
MCNoted ==
  {Render(<<Tree(Noted(n) \o Tabular(<<T(5, "b"), N(5, "FOOTNOTE"), N(6, "PARAGRAPH"), T(7, "n")>>, <<>>))>>, {}) :
     n \in {0, 8}}
===============================================================================
