--------------------------------- MODULE Html ---------------------------------
(***************************************************************************)
(* The HTML renderer, src/format/html/html.c: the tree is walked, each     *)
(* node writes its element around what its children have written into a    *)
(* buffer of their own, and footnotes go to the end.  What is written is a *)
(* sequence of tokens: tags, and the symbols of texts.                     *)
(***************************************************************************)
EXTENDS Smarty, TemplateExpr, Metadata

LOCAL INSTANCE FiniteSetsExt
LOCAL INSTANCE SequencesExt
LOCAL INSTANCE TLC

VARIABLES
  flags,        \* the flags that are set
  hasTempl,     \* is there a template?
  rndrs,        \* the calls of rndr() in progress, the innermost first: the
                \* node, the child that is next, and tmp
  hob,          \* what is written to the buffer of lowdown_html_rndr()
  headers_used, \* the identifiers of headers, in order
  headers_offs,
  foots,        \* what the footnotes hold, in order
  metaq,        \* the metadata so far, each with its key and its value
  hphase        \* "idle", "rendering", "template", "done" or "crashed"

hvars == <<flags, hasTempl, rndrs, hob, headers_used, headers_offs, foots, metaq, hphase>>

(***************************************************************************)
(* Tokens: an opened or closed element, an element without content, a      *)
(* symbol of text and one of raw HTML; at are the attributes of a tag,     *)
(* each <<key, value>>, or <<key>> alone.                                  *)
(***************************************************************************)
Token(k, e, at) == [k |-> k, e |-> e, at |-> at]
Open(e)     == <<Token("open", e, <<>>)>>
With(e, at) == <<Token("open", e, at)>>
Close(e)    == <<Token("close", e, <<>>)>>
Void(e, at) == <<Token("void", e, at)>>
Say(text)   == [k \in DOMAIN text |-> Token("text", text[k], <<>>)]
Raw(text)   == [k \in DOMAIN text |-> Token("raw", text[k], <<>>)]
Nl          == Say(<<"\n">>)
In(e, content) == Open(e) \o content \o Close(e)

Is_nl(token)    == token.k \in {"text", "raw"} /\ token.e = "\n"
Is_white(token) == token.k \in {"text", "raw"} /\ token.e \in White

\* newline(): unless ob is empty or a line has just ended.
Newline(ob) == IF ob = <<>> \/ Is_nl(ob[Len(ob)]) THEN <<>> ELSE Nl

\* The content without newlines at its end, or white-space at its start.
Chopped(content) ==
  SubSeq(content, 1, Max({k \in DOMAIN content : ~Is_nl(content[k])} \cup {0}))
Unled(content) ==
  SubSeq(content, Min({k \in DOMAIN content : ~Is_white(content[k])} \cup {Len(content) + 1}),
         Len(content))

Has(flag) == flag \in flags
\* escape_html(); escape_literal() comes to the same.
Escape_html(text) == Html_esc(text, Has("OWASP"), Has("NUM_ENT"))

(***************************************************************************)
(* Attributes.  attrs is a sequence of [key, value] as ext_attrs.c has     *)
(* them: one that has no value is written by its name alone.               *)
(***************************************************************************)
Link_attrs  == <<"class", "id", "rel", "download", "referrerpolicy", "ping">>
Image_attrs == <<"class", "id", "loading", "ismap", "usemap", "crossorigin", "referrerpolicy",
                 "sizes", "srcset">>
Known == ToSet(Link_attrs) \cup ToSet(Image_attrs) \cup {"width", "height", "target"}

Attr(a) == IF a.value = <<>> THEN <<a.key>> ELSE <<a.key, Html_esc_attr(a.value)>>
Given(attrs, key) ==
  SelectSeq(attrs, LAMBDA a : a.key = key)
Standard(attrs, names) ==
  FlattenSeq([k \in DOMAIN names |->
                [j \in DOMAIN Given(attrs, names[k]) |-> Attr(Given(attrs, names[k])[j])]])
Custom(attrs) ==
  LET own == SelectSeq(attrs, LAMBDA a : a.key \notin Known)
  IN  IF Has("CUSTOM_ATTRS") THEN [k \in DOMAIN own |-> Attr(own[k])] ELSE <<>>
Title(title, escaped) == IF title = <<>> THEN <<>> ELSE << <<"title", escaped>> >>

Rndr_autolink(n) ==
  LET link == lab[n].text
      mail == "EMAIL" \in lab[n].fl
      said == IF Has_at(link, 1, <<"mailto:">>) THEN Tail(link) ELSE link
  IN  IF link = <<>> THEN <<>>
      ELSE With("a", << <<"href", (IF mail THEN <<"mailto:">> ELSE <<>>) \o Html_esc_href(link)>> >>)
             \o Say(Escape_html(said)) \o Close("a")

Rndr_blockcode(n, ob) ==
  Newline(ob) \o Open("pre")
    \o With("code", IF lab[n].more = <<>> THEN <<>>
                    ELSE << <<"class", <<"language-">> \o Html_esc_href(lab[n].more)>> >>)
    \o Say(Escape_html(lab[n].text)) \o Close("code") \o Close("pre") \o Nl

Rndr_definition_data(content)  == Open("dd") \o Nl \o content \o Nl \o Close("dd") \o Nl
Rndr_definition_title(content) == In("dt", Chopped(content)) \o Nl
\* rndr_definition(), rndr_table(), rndr_table_header(), rndr_table_row().
Rndr_block(e, content) == Open(e) \o Nl \o content \o Close(e) \o Nl

(***************************************************************************)
(* The content of a callout goes without its first 28 bytes, which are     *)
(* "<p><strong>Callout:</strong>" unless a change is marked there, and the *)
(* spaces after them.  A token that is cut in two is no token any more.    *)
(***************************************************************************)
Width(token) ==
  Len(token.e) + CASE token.k = "open" -> 2 [] token.k = "close" -> 3 [] OTHER -> 0
Upto(content, k) == FoldLeft(LAMBDA sum, token : sum + Width(token), 0, SubSeq(content, 1, k))
Uncalled(content) ==
  LET cut   == {k \in DOMAIN content : Upto(content, k) > 28}
      first == IF cut = {} THEN Len(content) + 1 ELSE Min(cut)
      torn  == IF cut # {} /\ Upto(content, first - 1) < 28 THEN 1 ELSE 0
      solid == {k \in first .. Len(content) : content[k] # Token("text", " ", <<>>)}
  IN  (IF torn = 1 THEN <<Token("torn", "", <<>>)>> ELSE <<>>)
        \o SubSeq(content, IF torn = 1 THEN first + 1
                           ELSE IF solid = {} THEN Len(content) + 1 ELSE Min(solid), Len(content))

Rndr_blockquote(n, ob, content) ==
  LET fl    == lab[n].fl
      kind(note, warning, other) ==
        IF "NOTE" \in fl THEN note ELSE IF "WARNING" \in fl THEN warning ELSE other
      class == (IF Has("CALLOUT_MDN")
                THEN <<kind("notecard note", "notecard warning", "callout")>> ELSE <<>>)
               \o (IF Has("CALLOUT_GFM")
                   THEN <<kind("markdown-alert markdown-alert-note",
                               "markdown-alert markdown-alert-warning",
                               "markdown-alert markdown-alert-callout")>> ELSE <<>>)
  IN  IF fl \cap {"ADMONITION", "ADMONITION_BLOCK"} = {} \/ class = <<>>
      THEN Newline(ob) \o Rndr_block("blockquote", content)
      ELSE Newline(ob) \o With("div", << <<"class", class>> >>) \o Nl
             \o (IF "CALLOUT" \in fl /\ Upto(content, Len(content)) > 28
                 THEN Open("p") \o Uncalled(content) ELSE content)
             \o Close("div") \o Nl

(***************************************************************************)
(* Identifiers of headers, hbuf_id() of src/buffer.c: the text of the      *)
(* header, of which only some characters are kept, and a number if that is *)
(* taken.                                                                  *)
(***************************************************************************)
Hbuf_extract_text(node) ==
  LET f[n \in DOMAIN par] ==
        IF lab[n].type = "FOOTNOTE" THEN <<>>
        ELSE (IF lab[n].type \in {"NORMAL_TEXT", "IMAGE", "LINK_AUTO", "CODESPAN"}
              THEN lab[n].text ELSE <<>>)
               \o FlattenSeq([k \in DOMAIN kids[n] |-> f[kids[n][k]]])
  IN  f[node]

Tolower == ("A" :> "a") @@ ("B" :> "b") @@ ("C" :> "c")
Named   == {"a", "b", "c", "1", "2", "-", ".", "_"}

Hbuf_dupname(text) ==
  LET add(name, c) ==
        IF c \in Named \cup DOMAIN Tolower THEN Append(name, IF c \in Named THEN c ELSE Tolower[c])
        ELSE IF c \in White /\ name # <<>> /\ name[Len(name)] # " " THEN Append(name, " ")
        ELSE name
      name == FoldLeft(add, <<>>, text)
  IN  IF name = <<>> THEN <<"section">> ELSE Replaced(" " :> "-", name)

\* Mutant: a number is given to a name, and not looked up.
Hbuf_id_unchecked(n) ==
  LET name == Hbuf_dupname(FlattenSeq([k \in DOMAIN kids[n] |-> Hbuf_extract_text(kids[n][k])]))
      same == SelectSeq(headers_used, LAMBDA used : used = name)
  IN  IF same = <<>> THEN name ELSE name \o <<"-", ToString(Len(same))>>

Hbuf_id(n) ==
  LET name == Hbuf_dupname(FlattenSeq([k \in DOMAIN kids[n] |-> Hbuf_extract_text(kids[n][k])]))
      numbered(k) == name \o <<"-", ToString(k)>>
      \* As many numbers are tried as there are identifiers, and one.
      free == {k \in 1 .. Len(headers_used) + 1 : numbered(k) \notin ToSet(headers_used)}
  IN  IF name \notin ToSet(headers_used) THEN name ELSE numbered(Min(free))

\* An identifier is made if the header has none, and identifiers are asked for.
Id_given(n) == Given(lab[n].more, "id") # <<>>
Id_made(n)  == ~Id_given(n) /\ Has("HEAD_IDS")

Rndr_header(n, ob, content, id) ==
  LET level == lab[n].num + headers_offs
      e     == "h" \o ToString(IF level < 1 THEN 1 ELSE IF level > 6 THEN 6 ELSE level)
      held(key) == [k \in DOMAIN Given(lab[n].more, key) |->
                      <<key, Html_esc_attr(Given(lab[n].more, key)[k].value)>>]
      at    == held("id") \o (IF Id_made(n) THEN << <<"id", id>> >> ELSE <<>>)
                 \o held("class") \o Custom(lab[n].more)
  IN  Newline(ob) \o With(e, at) \o content \o Close(e) \o Nl

Rndr_link(n, content) ==
  LET link == lab[n].more
  IN  With("a", << <<"href", Html_esc_href(link.link)>> >>
                \o Title(link.title, Html_esc_attr(link.title))
                \o Standard(link.attrs, Link_attrs) \o Custom(link.attrs))
        \o content \o Close("a")

Rndr_list(n, ob, content) ==
  LET e  == IF "ORDERED" \in lab[n].fl THEN "ol" ELSE "ul"
      at == IF e = "ol" /\ lab[n].num > 1 THEN << <<"start", <<ToString(lab[n].num)>>>> >> ELSE <<>>
  IN  Newline(ob) \o With(e, at) \o Nl \o content \o Close(e) \o Nl

(***************************************************************************)
(* An item of a list in block mode has a paragraph around it unless it     *)
(* begins with an element that is a block.                                 *)
(***************************************************************************)
Item_wrapped(n, content) ==
  LET up    == par[n]
      block == IF "DEF" \in lab[n].fl
               THEN /\ par[up] # None /\ lab[par[up]].type = "DEFINITION"
                    /\ "BLOCK" \in lab[par[up]].fl
               ELSE lab[up].type = "LIST" /\ "BLOCK" \in lab[up].fl
      begins == /\ content # <<>> /\ content[1].k \in {"open", "void"}
                /\ \/ content[1].e \in {"ul", "ol", "dl", "div", "table", "blockquote", "hr",
                                        "h1", "h2", "h3", "h4", "h5", "h6"}
                   \/ content[1].e \in {"p", "pre"} /\ content[1].at = <<>>
  IN  block /\ ~begins

Rndr_listitem(n, content) ==
  LET fl   == lab[n].fl
      box  == IF fl \cap {"CHECKED", "UNCHECKED"} = {} THEN <<>>
              ELSE Void("input", << <<"type", <<"checkbox">>>> >>
                     \o IF "CHECKED" \in fl THEN << <<"checked", <<"checked">>>> >> ELSE <<>>)
      held == box \o Chopped(content)
      item == IF Item_wrapped(n, content) THEN In("p", held) ELSE held
  IN  IF "DEF" \in fl THEN item ELSE In("li", item) \o Nl

Br == Void("br", <<>>)

\* With hard wrapping, a newline but the last has a line break before it.
Rndr_paragraph(ob, content) ==
  LET body == Unled(content)
      wrapped(k) == IF ~Is_nl(body[k]) THEN <<body[k]>>
                    ELSE IF k = Len(body) THEN <<>> ELSE Br \o Nl
  IN  IF body = <<>> THEN <<>>
      ELSE Newline(ob)
             \o In("p", IF Has("HARD_WRAP") THEN FlattenSeq([k \in DOMAIN body |-> wrapped(k)])
                        ELSE body) \o Nl

Rndr_raw_block(n, ob) ==
  LET text == Raw(lab[n].text)
      kept == {k \in DOMAIN text : ~Is_nl(text[k])}
  IN  CASE Has("SKIP_HTML")   -> <<>>
        [] Has("HTML_ESCAPE") -> Say(Escape_html(lab[n].text))
        [] OTHER -> IF kept = {} THEN <<>>
                    ELSE Newline(ob) \o SubSeq(text, Min(kept), Max(kept)) \o Nl

Rndr_raw_html(n) ==
  IF Has("SKIP_HTML") THEN <<>>
  ELSE IF Has("HTML_ESCAPE") THEN Say(Escape_html(lab[n].text)) ELSE Raw(lab[n].text)

\* What sscanf() finds in the dimensions: the width, and the height after an x.
Digits == {"1", "2", "3"}
Scanned(dims) ==
  LET dim(k, name) == IF k \in DOMAIN dims /\ dims[k] \in Digits THEN << <<name, <<dims[k]>>>> >> ELSE <<>>
  IN  IF dim(1, "width") = <<>> \/ Len(dims) < 2 THEN dim(1, "width")
      ELSE dim(1, "width") \o IF dims[2] = "x" THEN dim(3, "height") ELSE <<>>

Rndr_image(n) ==
  LET image == lab[n].more
      side(key) == FlattenSeq([k \in DOMAIN Given(image.attrs, key) |->
                     <<key \o ":">> \o Html_esc_attr(Given(image.attrs, key)[k].value) \o <<";">>])
      style == side("width") \o side("height")
  IN  Void("img", << <<"src", Html_esc_href(image.link)>>, <<"alt", Html_esc_attr(lab[n].text)>> >>
                  \o Standard(image.attrs, Image_attrs)
                  \o (IF style # <<>> THEN << <<"style", style>> >> ELSE Scanned(image.dims))
                  \o Custom(image.attrs) \o Title(image.title, Escape_html(image.title)))

Rndr_tablecell(n, content) ==
  LET e     == IF "HEADER" \in lab[n].fl THEN "th" ELSE "td"
      align == CASE {"CENTER"} \subseteq lab[n].fl -> << <<"style", <<"text-align: center">>>> >>
                 [] {"LEFT"} \subseteq lab[n].fl   -> << <<"style", <<"text-align: left">>>> >>
                 [] {"RIGHT"} \subseteq lab[n].fl  -> << <<"style", <<"text-align: right">>>> >>
                 [] OTHER -> <<>>
  IN  With(e, align) \o content \o Close(e) \o Nl

Rndr_math(n) ==
  LET block == "BLOCKMODE" \in lab[n].fl
  IN  Say((IF block THEN <<"\\[">> ELSE <<"\\(">>) \o Escape_html(lab[n].text)
            \o IF block THEN <<"\\]">> ELSE <<"\\)">>)

\* entity_find_iso(), for a few of the entities it knows.
Entity_find_iso == ("&copy;" :> "&#169;") @@ ("&mdash;" :> "&#8212;") @@ ("&ndash;" :> "&#8211;")
  @@ ("&ldquo;" :> "&#8220;") @@ ("&rdquo;" :> "&#8221;") @@ ("&lsquo;" :> "&#8216;")
  @@ ("&rsquo;" :> "&#8217;") @@ ("&hellip;" :> "&#8230;") @@ ("&amp;" :> "&#38;")

Rndr_entity(n) == Say(IF Has("NUM_ENT") THEN Replaced(Entity_find_iso, lab[n].text) ELSE lab[n].text)

\* The elements that a node only puts around its content.
Around == [DOUBLE_EMPHASIS |-> "strong", EMPHASIS |-> "em", HIGHLIGHT |-> "mark",
           STRIKETHROUGH |-> "del", SUBSCRIPT |-> "sub", SUPERSCRIPT |-> "sup"]

(***************************************************************************)
(* Footnotes.  A definition has a link back at the end of its first        *)
(* paragraph, if it has one.                                               *)
(***************************************************************************)
Rndr_footnote_ref(num) ==
  With("sup", << <<"id", <<"fnref", ToString(num)>>>> >>)
    \o With("a", << <<"href", <<"#fn", ToString(num)>>>>, <<"rel", <<"footnote">>>> >>)
    \o Say(<<ToString(num)>>) \o Close("a") \o Close("sup")

Rndr_footnote_def(content, num) ==
  LET ends == {k \in DOMAIN content : content[k] = Token("close", "p", <<>>)}
      end  == Min(ends)
      back == Say(<<"&#160;">>)
                \o With("a", << <<"href", <<"#fnref", ToString(num)>>>>, <<"rev", <<"footnote">>>> >>)
                \o Say(<<"&#8617;">>) \o Close("a")
      held == IF ends = {} THEN content
              ELSE SubSeq(content, 1, end - 1) \o back \o SubSeq(content, end, Len(content))
  IN  Nl \o With("li", << <<"id", <<"fn", ToString(num)>>>> >>) \o Nl \o held \o Close("li") \o Nl

Rndr_doc_footer(ob) ==
  IF foots = <<>> THEN <<>>
  ELSE Newline(ob) \o With("div", << <<"class", <<"footnotes">>>> >>) \o Nl
         \o Void("hr", <<>>) \o Nl \o Open("ol") \o Nl
         \o FlattenSeq([k \in DOMAIN foots |-> Rndr_footnote_def(foots[k], k)])
         \o Nl \o Close("ol") \o Nl \o Close("div") \o Nl

(***************************************************************************)
(* Metadata, of format/util.c and html.c: the last value of a key counts,  *)
(* and a date or an author as revision control has them before any other.  *)
(***************************************************************************)
Absent == <<"absent">>
Meta_last(key) ==
  LET found == {k \in DOMAIN metaq : metaq[k].key = <<key>>}
  IN  IF found = {} THEN Absent ELSE metaq[Max(found)].value

Rcsdate2str(v) ==
  IF /\ Len(v) > 5 /\ v[1] \in {"$Date: ", "$DateTime: "}
     /\ v[3] = v[5] /\ v[3] \in {"/", "&#47;"}
  THEN <<v[2], "-", v[4], "-", v[6]>> ELSE Absent
Rcsauthor2str(v) ==
  IF Len(v) < 2 \/ v[1] # "$Author: " THEN Absent
  ELSE LET cut(w, c) == IF w # <<>> /\ w[Len(w)] = c THEN SubSeq(w, 1, Len(w) - 1) ELSE w
       IN  IF v[Len(v)] = "$" THEN cut(cut(cut(Tail(v), "$"), "\\"), " ") ELSE Tail(v)

Meta_over(v, other) == IF v # Absent THEN v ELSE Meta_last(other)
Meta_date   == Meta_over(Rcsdate2str(Meta_last("rcsdate")), "date")
Meta_author == Meta_over(Rcsauthor2str(Meta_last("rcsauthor")), "author")

\* The values that rndr_meta_multi() makes out of one.
Rndr_meta_multi(value) ==
  LET left(v) == SubSeq(v, Min({k \in DOMAIN v : v[k] \notin White} \cup {Len(v) + 1}), Len(v))
      f[v \in Seq(STRING)] ==
        IF v = <<>> THEN <<>>
        ELSE <<SubSeq(v, 1, Gap(v) - 1)>> \o f[left(SubSeq(v, Gap(v), Len(v)))]
  IN  IF value = Absent THEN <<>> ELSE f[left(value)]
\* A line for each of them.
Each_line(parts, Put(_)) == FlattenSeq([k \in DOMAIN parts |-> Put(parts[k]) \o Nl])

Rndr_doc_header ==
  LET has(v) == v # Absent
      title  == Meta_last("title")
      part(e, class, text) == With(e, << <<"class", <<class>>>> >>) \o Say(Escape_html(text)) \o Close(e)
  IN  IF ~Has("TITLEBLOCK") \/ ~(has(title) \/ has(Meta_author) \/ has(Meta_date)) THEN <<>>
      ELSE With("header", << <<"id", <<"title-block-header">>>> >>) \o Nl
             \o (IF has(title) THEN part("h1", "title", title) \o Nl ELSE <<>>)
             \o Each_line(Rndr_meta_multi(Meta_author), LAMBDA v : part("p", "author", v))
             \o (IF has(Meta_date) THEN part("p", "date", Meta_date) \o Nl ELSE <<>>)
             \o Close("header") \o Nl

(***************************************************************************)
(* rndr_root() of a document that stands alone, without a template.  odd   *)
(* is whether the byte before an empty "htmlheader", which is read, is not *)
(* a newline.                                                              *)
(***************************************************************************)
Is_date(v) == Len(v) = 5 /\ v[2] = "-" /\ v[4] = "-"
Rndr_standalone(content, odd) ==
  LET meta(name, scheme, v) ==
        Void("meta", << <<"name", <<name>>>> >> \o scheme \o << <<"content", Html_esc_attr(v)>> >>)
      lang == Meta_last("lang")
      raw  == Meta_last("htmlheader")
      ends == IF raw = <<>> THEN ~odd ELSE raw[Len(raw)] = "\n"
      title == Meta_last("title")
      scheme == IF Is_date(Meta_date) THEN << <<"scheme", <<"YYYY-MM-DD">>>> >> ELSE <<>>
  IN  Void("!DOCTYPE", <<>>) \o Nl
        \o With("html", IF lang = Absent THEN <<>> ELSE << <<"lang", Html_esc_attr(lang)>> >>) \o Nl
        \o Open("head") \o Nl
        \o Void("meta", << <<"charset", <<"utf-8">>>> >>) \o Nl
        \o Void("meta", << <<"name", <<"viewport">>>> >>) \o Nl
        \o Each_line(Rndr_meta_multi(Meta_last("affiliation")), LAMBDA v : meta("creator", <<>>, v))
        \o Each_line(Rndr_meta_multi(Meta_author), LAMBDA v : meta("author", <<>>, v))
        \o Each_line(Rndr_meta_multi(Meta_last("copyright")), LAMBDA v : meta("copyright", <<>>, v))
        \o (IF Meta_date = Absent THEN <<>> ELSE meta("date", scheme, Meta_date) \o Nl)
        \o Each_line(Rndr_meta_multi(Meta_last("css")), LAMBDA v : Void("link", << <<"href", Html_esc_href(v)>> >>))
        \o Each_line(Rndr_meta_multi(Meta_last("javascript")),
             LAMBDA v : With("script", << <<"src", Html_esc_href(v)>> >>) \o Close("script"))
        \o In("title", IF title = Absent THEN <<>> ELSE Say(Escape_html(title))) \o Nl
        \o (IF raw = Absent THEN <<>> ELSE Raw(raw) \o IF ends THEN <<>> ELSE Nl)
        \o Close("head") \o Nl \o Open("body") \o Nl
        \o content \o Close("body") \o Nl \o Close("html") \o Nl

(***************************************************************************)
(* What a node writes around or instead of its content, if that is all its *)
(* handler does.                                                           *)
(***************************************************************************)
Written(n, ob, content) ==
  LET type == lab[n].type
  IN  CASE type = "BLOCKCODE"        -> Rndr_blockcode(n, ob)
        [] type = "BLOCKQUOTE"       -> Rndr_blockquote(n, ob, content)
        [] type = "DEFINITION"       -> Newline(ob) \o Rndr_block("dl", content)
        [] type = "DEFINITION_TITLE" -> Rndr_definition_title(content)
        [] type = "DEFINITION_DATA"  -> Rndr_definition_data(content)
        [] type = "DOC_HEADER"       -> Rndr_doc_header
        [] type = "HRULE"            -> Newline(ob) \o Void("hr", <<>>) \o Nl
        [] type = "LIST"             -> Rndr_list(n, ob, content)
        [] type = "LISTITEM"         -> Rndr_listitem(n, content)
        [] type = "PARAGRAPH"        -> Rndr_paragraph(ob, content)
        [] type = "TABLE_BLOCK"      -> Newline(ob) \o Rndr_block("table", content)
        [] type = "TABLE_HEADER"     -> Newline(ob) \o Rndr_block("thead", content)
        [] type = "TABLE_BODY"       ->
             IF content = <<>> THEN <<>> ELSE Newline(ob) \o Rndr_block("tbody", content)
        [] type = "TABLE_ROW"        -> Rndr_block("tr", content)
        [] type = "TABLE_CELL"       -> Rndr_tablecell(n, content)
        [] type = "BLOCKHTML"        -> Rndr_raw_block(n, ob)
        [] type = "LINK_AUTO"        -> Rndr_autolink(n)
        [] type = "CODESPAN"         -> In("code", Say(Escape_html(lab[n].text)))
        [] type \in DOMAIN Around    -> In(Around[type], content)
        [] type = "IMAGE"            -> Rndr_image(n)
        [] type = "LINEBREAK"        -> Br \o Nl
        [] type = "LINK"             -> Rndr_link(n, content)
        [] type = "TRIPLE_EMPHASIS"  -> In("strong", In("em", content))
        [] type = "MATH_BLOCK"       -> Rndr_math(n)
        [] type = "RAW_HTML"         -> Rndr_raw_html(n)
        [] type = "NORMAL_TEXT"      -> Say(Escape_html(lab[n].text))
        [] type = "ENTITY"           -> Rndr_entity(n)
        [] OTHER                     -> content

(***************************************************************************)
(* The marks of a change before and after it.  Metadata has none, as they  *)
(* may not be where it goes.                                               *)
(***************************************************************************)
Is_changed(n, chng) == lab[n].chng = chng /\ lab[n].type # "META"
Mark(n) ==
  IF Is_changed(n, "INSERT") THEN Open("ins") ELSE IF Is_changed(n, "DELETE") THEN Open("del") ELSE <<>>

\* Mutant: a deleted block is not closed in the buffer it was opened in.
Unmark_inserts_only(n) ==
  IF Is_changed(n, "INSERT") /\ par[n] # None /\ lab[par[n]].type # "DOC_HEADER" THEN Close("ins")
  ELSE <<>>

Unmark(n) ==
  IF Is_changed(n, "INSERT") /\ par[n] # None /\ lab[par[n]].type # "DOC_HEADER" THEN Close("ins")
  ELSE IF Is_changed(n, "DELETE") THEN Close("del") ELSE <<>>

Html_idle ==
  /\ flags = {} /\ hasTempl = FALSE /\ rndrs = <<>> /\ hob = <<>>
  /\ headers_used = <<>> /\ headers_offs = 0 /\ foots = <<>> /\ metaq = <<>>
  /\ hphase = "idle"

Rndr_call(n) == [node |-> n, next |-> IF kids[n] = <<>> THEN None ELSE Head(kids[n]), tmp |-> <<>>]

\* lowdown_html_new() with the options, and lowdown_html_rndr().
Lowdown_html_rndr(oflags, templates) ==
  /\ hphase = "idle"
  /\ flags' = oflags /\ hasTempl' = templates
  /\ headers_offs' = 1
  /\ rndrs' = <<Rndr_call(0)>>
  /\ hphase' = "rendering"
  /\ UNCHANGED <<hob, headers_used, foots, metaq>>

Rendered == Head(rndrs)
This     == Rendered.node
\* The buffer that the node in hand writes to: tmp of the call before.
Outer    == IF Len(rndrs) > 1 THEN rndrs[2].tmp ELSE hob

Rndr_child ==
  /\ hphase = "rendering" /\ Rendered.next # None
  /\ rndrs' = <<Rndr_call(Rendered.next), [Rendered EXCEPT !.next = Next_of(@)]>> \o Tail(rndrs)
  /\ UNCHANGED <<flags, hasTempl, hob, headers_used, headers_offs, foots, metaq, hphase>>

\* The children of the node, which is of one of the types, are done.
Rndr_at(types) == hphase = "rendering" /\ Rendered.next = None /\ lab[This].type \in types

\* The call returns when it has written the tokens.
Rndr_returns(tokens) ==
  IF Len(rndrs) > 1
  THEN /\ rndrs' = <<[rndrs[2] EXCEPT !.tmp = @ \o tokens]>> \o SubSeq(rndrs, 3, Len(rndrs))
       /\ UNCHANGED <<hob, hphase>>
  ELSE rndrs' = <<>> /\ hob' = hob \o tokens /\ hphase' = "done"

Rndr_writes(tokens) == Rndr_returns(Mark(This) \o tokens \o Unmark(This))

Stateful == {"ROOT", "HEADER", "META", "FOOTNOTE"}

\* A metadata without its key makes the header look at a null pointer.
Dies == \E k \in DOMAIN metaq : metaq[k].key = Absent
Crash == hphase' = "crashed" /\ UNCHANGED <<rndrs, hob>>

Rndr_plain ==
  /\ hphase = "rendering" /\ Rendered.next = None /\ lab[This].type \notin Stateful
  /\ IF lab[This].type = "DOC_HEADER" /\ Has("TITLEBLOCK") /\ Dies THEN Crash
     ELSE Rndr_writes(Written(This, Outer \o Mark(This), Rendered.tmp))
  /\ UNCHANGED <<flags, hasTempl, headers_used, headers_offs, foots, metaq>>

Rndr_id ==
  /\ Rndr_at({"HEADER"})
  /\ LET id == IF Id_made(This) THEN Hbuf_id(This) ELSE <<>> IN
     /\ headers_used' = headers_used \o IF Id_made(This) THEN <<id>> ELSE <<>>
     /\ Rndr_writes(Rndr_header(This, Outer \o Mark(This), Rendered.tmp, id))
  /\ UNCHANGED <<flags, hasTempl, headers_offs, foots, metaq>>

\* lowdown_get_meta().
Lowdown_get_meta(n) == Meta_of(lab[n].text, [k \in DOMAIN kids[n] |-> lab[kids[n][k]].text])

Rndr_meta ==
  /\ Rndr_at({"META"})
  /\ LET m == Lowdown_get_meta(This)
     IN  IF lab[This].chng = "DELETE" THEN UNCHANGED <<metaq, headers_offs>>
         ELSE /\ metaq' = Append(metaq, m)
              /\ headers_offs' = Header_offset(m, headers_offs)
  /\ Rndr_returns(<<>>)
  /\ UNCHANGED <<flags, hasTempl, headers_used, foots>>

\* Mutant: the last footnote comes first.
Rndr_footnote_first ==
  /\ Rndr_at({"FOOTNOTE"})
  /\ foots' = <<Rendered.tmp>> \o foots
  /\ Rndr_writes(Rndr_footnote_ref(Len(foots) + 1))
  /\ UNCHANGED <<flags, hasTempl, headers_used, headers_offs, metaq>>

Rndr_footnote ==
  /\ Rndr_at({"FOOTNOTE"})
  /\ foots' = Append(foots, Rendered.tmp)
  /\ Rndr_writes(Rndr_footnote_ref(Len(foots) + 1))
  /\ UNCHANGED <<flags, hasTempl, headers_used, headers_offs, metaq>>

Body == Rendered.tmp \o Rndr_doc_footer(Rendered.tmp)

\* A footnote that has no buffer makes the footer look at a null pointer.
NoBuffer == <<Token("null", "", <<>>)>>
Foot_missing == \E k \in DOMAIN foots : foots[k] = NoBuffer

Rndr_root ==
  /\ Rndr_at({"ROOT"}) /\ ~(Has("STANDALONE") /\ hasTempl /\ ~Foot_missing)
  /\ IF Foot_missing \/ (Has("STANDALONE") /\ Dies) THEN Crash
     ELSE IF Has("STANDALONE") THEN \E odd \in BOOLEAN : Rndr_returns(Rndr_standalone(Body, odd))
     ELSE Rndr_returns(Body)
  /\ UNCHANGED <<flags, hasTempl, headers_used, headers_offs, foots, metaq>>

\* The body is given to the template, which writes the rest.
Rndr_root_template ==
  /\ Rndr_at({"ROOT"}) /\ Has("STANDALONE") /\ hasTempl /\ ~Foot_missing
  /\ hphase' = "template"
  /\ UNCHANGED <<flags, hasTempl, rndrs, hob, headers_used, headers_offs, foots, metaq>>

(***************************************************************************)
(* Memory runs out.  ret of rndr() is 1 from the start: a call that has    *)
(* not written all it should returns success all the same.  Only hbuf_new  *)
(* of the first call returns failure; in any other it makes the call       *)
(* before end at once, without anything written, and that is success.      *)
(***************************************************************************)
Wanted(n) ==
  CASE lab[n].type = "ROOT" ->
         IF ~Has("STANDALONE") THEN Body ELSE IF hasTempl THEN <<>> ELSE Rndr_standalone(Body, FALSE)
    [] lab[n].type = "HEADER" ->
         Rndr_header(n, Outer \o Mark(n), Rendered.tmp, IF Id_made(n) THEN Hbuf_id(n) ELSE <<>>)
    [] OTHER -> Written(n, Outer \o Mark(n), Rendered.tmp)
Beginnings(tokens) == {SubSeq(tokens, 1, k) : k \in 0 .. Len(tokens)}

Rndr_no_tmp ==
  /\ hphase = "rendering" /\ Rendered.next # None
  /\ Rndr_returns(<<>>)
  /\ UNCHANGED <<flags, hasTempl, headers_used, headers_offs, foots, metaq>>

Rndr_fails ==
  /\ hphase = "rendering" /\ Rendered.next = None
  /\ CASE lab[This].type = "META" ->
            /\ Rndr_returns(<<>>)
            /\ metaq' \in {metaq, Append(metaq, [Lowdown_get_meta(This) EXCEPT !.key = Absent]),
                           Append(metaq, [Lowdown_get_meta(This) EXCEPT !.value = Absent])}
            /\ UNCHANGED foots
       [] lab[This].type = "FOOTNOTE" ->
            \/ /\ foots' \in {foots, Append(foots, NoBuffer)}
               /\ Rndr_returns(Mark(This)) /\ UNCHANGED metaq
            \/ /\ foots' = Append(foots, Rendered.tmp)
               /\ \E part \in Beginnings(Mark(This) \o Rndr_footnote_ref(Len(foots) + 1)) : Rndr_returns(part)
               /\ UNCHANGED metaq
       [] OTHER ->
            /\ \E part \in Beginnings(Mark(This) \o Wanted(This)) : Rndr_returns(part)
            /\ UNCHANGED <<metaq, foots>>
  /\ UNCHANGED <<flags, hasTempl, headers_used, headers_offs>>

\* What lowdown_html_rndr() frees at its end.
Lowdown_html_ends ==
  /\ hphase = "done"
  /\ foots' = <<>> /\ metaq' = <<>> /\ headers_used' = <<>>
  /\ UNCHANGED <<flags, hasTempl, rndrs, hob, headers_offs, hphase>>

HNext == Rndr_child \/ Rndr_plain \/ Rndr_id \/ Rndr_meta \/ Rndr_footnote \/ Rndr_root \/ Rndr_root_template
===============================================================================
