------------------------------- MODULE MCRender -------------------------------
(***************************************************************************)
(* Sessions for Library.                                                   *)
(***************************************************************************)
EXTENDS Rendering, Trees

LOCAL INSTANCE SequencesExt
LOCAL INSTANCE FiniteSetsExt

Buf(list) ==
  [call |-> "buf", tree |-> Tree(list), html |-> TRUE, smarty |-> FALSE, oflags |-> {},
   templ |-> <<>>, files |-> <<>>, unit |-> 2, frail |-> FALSE]

(***************************************************************************)
(* Typography: two texts next to each other, at the ends of blocks, around *)
(* spans and what is opaque.                                               *)
(***************************************************************************)
Pieces_of_text == {"\"", "'", "a\" b", "(\"a", "--", " 1/4", "th", "a'", "\"a", " "}

Around_texts(s, t) == {
  <<N(1, "PARAGRAPH"), T(2, s), T(2, t)>>,
  <<N(1, "PARAGRAPH"), T(2, s), N(2, "EMPHASIS"), T(3, t)>>,
  <<N(1, "PARAGRAPH"), N(2, "LINK"), N(3, "EMPHASIS"), T(4, s), T(2, t)>>,
  <<N(1, "LIST"), N(2, "LISTITEM"), T(3, s), N(2, "LISTITEM"), T(3, t)>>,
  <<N(1, "PARAGRAPH"), T(2, s), N(2, "LINEBREAK"), T(2, t)>>,
  <<N(1, "PARAGRAPH"), T(2, s), X(2, "CODESPAN", "c"), T(2, t)>>,
  <<N(1, "PARAGRAPH"), T(2, s), N(2, "FOOTNOTE"), T(3, t), T(2, s)>>,
  <<N(1, "PARAGRAPH"), F(T(2, s), {"ESCAPED"}), T(2, t)>>}

Long_texts == {
  "\"a\" 'b' a's", "(c)(tm) (R) (sm", "a--b---c ... . . .", "1/4th 3/4ths, 1/2 1/23/4", "\"'a'\"",
  "'\"", " \"", "a-\"b\"-\"c\""}

Typographic ==
  {[Buf(list) EXCEPT !.html = FALSE, !.smarty = TRUE] :
     list \in UNION {Around_texts(s, t) : s, t \in Pieces_of_text}
                \cup {<<N(1, "PARAGRAPH"), T(2, s)>> : s \in Long_texts}}

(***************************************************************************)
(* Templates.  A capital letter is a word.                                 *)
(***************************************************************************)
Words == [I |-> "ifdef", E |-> "else", F |-> "endif", R |-> "for", Q |-> "endfor", T |-> "this",
          B |-> "body", N |-> "not", O |-> "or", A |-> "and", M |-> "meta", U |-> "uppercase",
          L |-> "lowercase", S |-> "split", J |-> "join", W |-> "trim", G |-> "escapegemini",
          K |-> "escapegeminiline", H |-> "escapehtml", C |-> "escapehtmlattr",
          D |-> "escapehtmlurl", X |-> "escapelatex", Y |-> "escaperoff", Z |-> "escaperoffline"]
Symbols(s) == [k \in 1 .. Len(s) |-> LET c == SubSeq(s, k, k) IN IF c \in DOMAIN Words THEN Words[c] ELSE c]

\* k is "a", n is empty and l has two values.
Metadata == <<N(1, "DOC_HEADER"), X(2, "META", "k"), T(3, "a"), X(2, "META", "l"), T(3, "b  a"),
              N(1, "PARAGRAPH"), T(2, "x")>>
Templated(s) ==
  [Buf(Metadata) EXCEPT !.oflags = {"STANDALONE"}, !.templ = Symbols(s)]

Statements_in_braces == {"$I(k)$", "$I(n)$", "$E$", "$F$", "$R(l.S)$", "$Q$", "${T}"}
Blocks_of_statements ==
  {a \o "1" \o b \o "2" \o c \o "3" \o d \o "4" : a, b, c, d \in Statements_in_braces}

Expressions == {
  "a$k$b", "$B$", "$ \"a\\\"$\" $x$ $", "$l.S.J$ ${N(k)}$N(n)$", "$O(n,k)$$A(k,n)$$A(k,\"x\")$",
  "$l.S.U$$l.U.L.x$", "$I(k)--$\n-\n$F --$", "$M(k)$ $M$ $T$ $\"\"$", "$\" a \".W$ $ --$",
  "$\"\t\".G.U$", "$\"<&'/a\".H$$\"&\\\"\".C$", "$\"a <&\n\".D$$\"_{a~^\\\".X$",
  "$\".a\n .b'\".Y$", "$\".a\n .b'\".Z$$\"a.\t\nb\n\".K$", "$k.$", "$k", "$N(l.S)$$k.B$",
  "$R(\"a  b \".S)$$T.U$,$Q$", "$A(N(n),O(k,\"a,b\"))$"}

Templates == {Templated(s) : s \in Blocks_of_statements \cup Expressions}

(***************************************************************************)
(* HTML: all that a document has, with and without options; and changes of *)
(* each node of a document.                                                *)
(***************************************************************************)
Link_to(s, attrs) == [link |-> Chars(s), title |-> Chars("t'"), attrs |-> attrs, dims |-> Chars("1x2")]
Attr_of(key, s)   == [key |-> key, value |-> Chars(s)]

All == <<
  K(N(1, "HEADER"), 0), T(2, "a-1"), K(N(1, "HEADER"), 1), T(2, "A!"), K(N(1, "HEADER"), 9), T(2, "a"),
  N(1, "HEADER"), T(2, " a b"), N(2, "FOOTNOTE"), N(3, "PARAGRAPH"), T(4, "v"),
  F(N(1, "LIST"), {"BLOCK"}), N(2, "LISTITEM"), N(3, "PARAGRAPH"), T(4, "\nb"),
  F(N(2, "LISTITEM"), {"CHECKED"}), T(3, "c\n"),
  K(F(N(1, "LIST"), {"ORDERED"}), 3), F(N(2, "LISTITEM"), {"UNCHECKED"}), T(3, "<&"),
  N(1, "PARAGRAPH"), T(2, "a\nb"), N(2, "LINEBREAK"), N(2, "EMPHASIS"), T(3, "w"),
  N(2, "FOOTNOTE"), T(3, "w"), N(3, "LIST"), N(4, "LISTITEM"), T(5, "y"),
  N(2, "DOUBLE_EMPHASIS"), T(3, "b"), N(2, "TRIPLE_EMPHASIS"), N(2, "HIGHLIGHT"), N(2, "STRIKETHROUGH"),
  N(2, "SUBSCRIPT"), N(2, "SUPERSCRIPT"),
  X(2, "CODESPAN", "<"), X(2, "LINK_AUTO", "x"), F(X(2, "LINK_AUTO", "x"), {"EMAIL"}),
  M(N(2, "LINK"), Link_to("a b", <<Attr_of("class", "c"), Attr_of("d", "")>>)), T(3, "a"),
  M(X(2, "IMAGE", "a"), Link_to("&", <<Attr_of("width", "1")>>)),
  M(X(2, "IMAGE", "a"), Link_to("b", <<Attr_of("x", "1")>>)),
  W(2, "ENTITY", "&copy;"), X(2, "MATH_BLOCK", "<"),
  F(X(1, "MATH_BLOCK", "a"), {"BLOCKMODE"}),
  M(X(1, "BLOCKCODE", "<"), Chars("a b")), N(1, "BLOCKQUOTE"), N(2, "PARAGRAPH"), T(3, "a"),
  F(N(1, "BLOCKQUOTE"), {"ADMONITION", "NOTE"}), T(2, "a"),
  N(1, "DEFINITION"), N(2, "DEFINITION_TITLE"), T(3, "a\n"), N(2, "DEFINITION_DATA"),
  F(N(3, "LISTITEM"), {"DEF"}), T(4, "b"), N(1, "HRULE"),
  N(1, "TABLE_BLOCK"), N(2, "TABLE_HEADER"), N(3, "TABLE_ROW"), F(N(4, "TABLE_CELL"), {"HEADER", "LEFT"}),
  T(5, "a"), N(2, "TABLE_BODY"), N(3, "TABLE_ROW"), F(N(4, "TABLE_CELL"), {"CENTER"}), T(5, "b")>>

Raw_html == <<N(1, "PARAGRAPH"), X(2, "RAW_HTML", "b"), X(1, "BLOCKHTML", "\nb\n")>>
Callout == <<F(N(1, "BLOCKQUOTE"), {"ADMONITION", "CALLOUT"}), N(2, "PARAGRAPH"),
             N(3, "DOUBLE_EMPHASIS"), T(4, "Callout:"), T(3, " a")>>

\* Metadata that the renderer looks for.
About == <<N(1, "DOC_HEADER")>>
  \o Meta("title", "<a") \o Meta("author", "a  b") \o Meta("date", "1-2-3") \o Meta("css", "c")
  \o Meta("affiliation", "a") \o Meta("copyright", "a") \o Meta("javascript", "j") \o Meta("lang", "l")
  \o Meta("htmlheader", "a\n") \o Meta("shiftheadinglevelby", "-1") \o Meta("title", "b")
  \o <<N(1, "HEADER"), T(2, "a")>>
Dated == <<N(1, "DOC_HEADER"), W(2, "META", "rcsdate"),
           [T(3, "") EXCEPT !.l.text = <<"$Date: ", "1", "/", "2", "/", "3", "$">>],
           W(2, "META", "rcsauthor"),
           [T(3, "") EXCEPT !.l.text = <<"$Author: ", "a", " ", "$">>]>>
  \o Meta("baseheaderlevel", "2") \o Meta("htmlheader", "") \o <<N(1, "HEADER"), T(2, "a")>>

Every_flag == {"HEAD_IDS", "OWASP", "NUM_ENT", "HARD_WRAP", "CUSTOM_ATTRS", "CALLOUT_MDN",
               "CALLOUT_GFM", "HTML_ESCAPE", "TITLEBLOCK", "STANDALONE"}

Plain ==
  {[Buf(list) EXCEPT !.oflags = fl] :
     list \in {All, Raw_html, Callout, About, Dated},
     fl \in {{}, {"HEAD_IDS"}, {"SKIP_HTML", "CALLOUT_GFM"}, Every_flag}}

Small == <<
  N(1, "DOC_HEADER"), W(2, "META", "title"), T(3, "t"),
  N(1, "HEADER"), T(2, "a"), N(1, "LIST"), N(2, "LISTITEM"), T(3, "b"), N(3, "FOOTNOTE"),
  N(4, "PARAGRAPH"), T(5, "\"c\"")>>

Changed(list, places, chng) ==
  [k \in DOMAIN list |-> IF k \in places THEN [list[k] EXCEPT !.l.chng = chng] ELSE list[k]]

Compared ==
  {[Buf(Changed(Changed(Small, a, "INSERT"), b, "DELETE")) EXCEPT
      !.call = "diff", !.smarty = TRUE, !.oflags = {"HEAD_IDS", "TITLEBLOCK"}] :
     a, b \in {{k} : k \in DOMAIN Small} \cup {{}, 8 .. 11}}

(***************************************************************************)
(* Files, memory that runs out, and buffers by themselves.                 *)
(***************************************************************************)
File(bytes, error) == [bytes |-> bytes, error |-> error]
Little == <<N(1, "HEADER"), T(2, "a")>>
From_files ==
  {[Buf(Little) EXCEPT !.call = "file", !.files = <<File(k, e)>>, !.unit = 1 + (k % 3)] :
     k \in 0 .. 8, e \in BOOLEAN}
    \cup {[Buf(Little) EXCEPT !.call = "file_diff", !.files = <<File(j, e), File(k, FALSE)>>] :
            j, k \in 0 .. 4, e \in BOOLEAN}

Noted == <<N(1, "DOC_HEADER")>> \o Meta("title", "a")
           \o <<N(1, "HEADER"), T(2, "\"b\""), N(2, "FOOTNOTE"), T(3, "c")>>
Unreliable ==
  {[Buf(Noted) EXCEPT !.call = "file", !.files = <<File(1, FALSE)>>, !.smarty = TRUE, !.oflags = fl] :
     fl \in {{}, {"TITLEBLOCK", "HEAD_IDS"}, {"STANDALONE"}}}
    \cup {[Buf(Noted) EXCEPT !.call = "file_diff", !.files = <<File(1, FALSE), File(2, FALSE)>>, !.smarty = TRUE],
          [Buf(Little) EXCEPT !.oflags = {"STANDALONE"}, !.templ = Symbols("a$I(k.N)$b$E$$R(\"x\".U)$c$Q$$B.U$$F$")]}

Frail == {[s EXCEPT !.frail = TRUE] : s \in Unreliable}

Writers == {[Buf(<<>>) EXCEPT !.call = "writer", !.unit = u] : u \in 1 .. 3}

MCSessions == Typographic \cup Templates \cup Plain \cup Compared \cup From_files \cup Frail \cup Writers

\* A text of a diff that has quotes.
MCCompared == {[Buf(Changed(Small, {k}, "INSERT")) EXCEPT !.call = "diff", !.smarty = TRUE] : k \in DOMAIN Small}
===============================================================================
