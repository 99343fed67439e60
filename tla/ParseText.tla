------------------------------ MODULE ParseText ------------------------------
(***************************************************************************)
(* How src/parse/document.c, autolink.c and ext_attrs.c look at the text   *)
(* of a span: which construct begins at an active character, what it       *)
(* encloses and where it ends.  Nothing here changes the parser.           *)
(*                                                                         *)
(* A text s is a sequence of symbols.  A symbol is a character, or a run   *)
(* of characters that no function here tells apart ("http", "www"); the    *)
(* backtick is "tick".                                                     *)
(*                                                                         *)
(* A function of the code that is given data and size is given here the    *)
(* whole text s, the index i of data[0] and the index e one past the end,  *)
(* so that it can look before and behind as the code does; o is "offset",  *)
(* how far it may look before.  Every text ends in a newline.              *)
(***************************************************************************)
EXTENDS Integers, Sequences, FiniteSets, FiniteSetsExt, SequencesExt

CONSTANT
  Flags     \* the features of struct lowdown_opts that are on

KnownAttrs == {"id", "class", "width", "height", "rel", "target"}
Alpha  == {"a", "b", "c", "d", "k", "n", "x", "http", "www", "Note", "div", "del", "p",
           "br", "title", "author", "date"}
            \cup KnownAttrs
Digits == {"1", "2"}
Alnum  == Alpha \cup Digits
Spaces == {" ", "\n"}
Quotes == {"\"", "'"}
Puncts == {"!", "\"", "#", "$", "%", "&", "'", "(", ")", "*", "+", ",", "-",
           ".", "/", ":", ";", "<", "=", ">", "?", "@", "[", "\\", "]", "^",
           "_", "tick", "{", "|", "}", "~"}
Escapable == {"\\", "tick", "*", "_", "{", "}", "[", "]", "(", ")", "#", "+", "-",
              ".", "!", ":", "|", "&", "<", ">", "^", "~", "=", "\"", "$"}

Least(S, none) == IF S = {} THEN none ELSE Min(S)

\* The first index from i and before e where s has a symbol of C, or e.
First(s, i, e, C)    == Least({k \in i .. e - 1 : s[k] \in C}, e)
FirstNot(s, i, e, C) == Least({k \in i .. e - 1 : s[k] \notin C}, e)

\* Is the symbol at or after e, or not as given?
Is(s, k, e, c) == k < e /\ s[k] = c

Is_space(c) == c \in Spaces

\* Where the spaces from i end, of which at most max (if not 0) are counted.
Countspaces(s, i, e, max) ==
  FirstNot(s, i, IF max > 0 THEN Min({e, i + max}) ELSE e, {" "})

\* An odd number of backslashes, none of them before from, stands before k.
Is_escaped(s, from, k) ==
  LET b == Least({j \in from .. k : \A m \in j .. k - 1 : s[m] = "\\"}, k)
  IN  (k - b) % 2 = 1

\* Text with its newlines made spaces, but for one that follows a space.
Replace_spacing(t) ==
  LET kept == SelectSeq([k \in DOMAIN t |-> k],
                LAMBDA k : ~(t[k] = "\n" /\ k > 1 /\ t[k - 1] = " "))
  IN  [k \in DOMAIN kept |-> IF t[kept[k]] = "\n" THEN " " ELSE t[kept[k]]]

\* Text without the backslashes that escape what follows them.
Unscape_text(t) ==
  LET f[k \in 1 .. Len(t) + 2] ==
        IF k > Len(t) THEN <<>>
        ELSE IF t[k] # "\\" THEN <<t[k]>> \o f[k + 1]
        ELSE IF k = Len(t) THEN <<>>
        ELSE <<t[k + 1]>> \o f[k + 2]
  IN  f[1]

(***************************************************************************)
(* Extended attributes: the words of a {...}, as a sequence of keys with   *)
(* values.  An id replaces the one before it, as any known attribute does, *)
(* a class is added to those before it, and an unknown attribute may be    *)
(* there more than once.                                                   *)
(***************************************************************************)
AttrWords(t) ==
  LET cut(k)    == t[k] = " " /\ Cardinality({j \in 1 .. k : t[j] = "\""}) % 2 = 0
      starts    == {k \in DOMAIN t : ~cut(k) /\ (k = 1 \/ cut(k - 1))}
      end(k)    == Least({j \in k .. Len(t) : cut(j)}, Len(t) + 1) - 1
      sorted    == SetToSortSeq(starts, <)
  IN  [k \in DOMAIN sorted |-> SubSeq(t, sorted[k], end(sorted[k]))]

Unquote(v) ==
  IF Len(v) > 2 /\ v[1] = "\"" /\ v[Len(v)] = "\"" THEN SubSeq(v, 2, Len(v) - 1)
                                                   ELSE v

Attrs_add(attrs, key, v) ==
  LET val  == Unquote(v)
      same == SelectSeq(attrs, LAMBDA x : x.key = key)
      rest == SelectSeq(attrs, LAMBDA x : x.key # key)
      new(w) == <<[key |-> key, val |-> w]>>
  IN  IF \A name \in KnownAttrs : key # <<name>> THEN attrs \o new(val)
      ELSE IF key = <<"class">> /\ same # <<>> THEN rest \o new(same[1].val \o <<" ">> \o val)
      ELSE rest \o new(val)

Attrs_parse(t) ==
  LET named(attrs, w) ==
        CASE Len(w) > 1 /\ w[1] = "#" -> Attrs_add(attrs, <<"id">>, Tail(w))
          [] Len(w) > 1 /\ w[1] = "." -> Attrs_add(attrs, <<"class">>, Tail(w))
          [] OTHER -> attrs
      valued(attrs, w) ==
        FoldLeft(LAMBDA as, k : Attrs_add(as, SubSeq(w, 1, k - 1), SubSeq(w, k + 1, Len(w))),
                 attrs, SetToSortSeq({k \in DOMAIN w : w[k] = "="}, <))
  IN  FoldLeft(LAMBDA attrs, w : valued(named(attrs, w), w), <<>>, AttrWords(t))

(***************************************************************************)
(* lowdown_attrs_parse() returns where the next word would begin, and 0    *)
(* for a failure: nothing to parse looks like one.                         *)
(***************************************************************************)
Attrs_length(t) == IF t = <<>> THEN 0 ELSE Len(t) + 1

(***************************************************************************)
(* The position of the next c that is neither escaped nor inside a code    *)
(* span or link, or i if there is none, or if it is at i.                  *)
(***************************************************************************)
\* What is found, and from where to go on if not at none.
Found(at, next) == [at |-> at, next |-> next]

Inside(s, from, to, c, none) == Found(Least({k \in from .. to - 1 : s[k] = c}, none), 0)

\* A code span whose n backticks end at q: a c that has no end to it counts.
Over_code(s, q, n, e, c, none) ==
  LET m == Least({x \in q + n .. e : \A j \in x - n .. x - 1 : s[j] = "tick"}, e + 1)
  IN  IF q >= e THEN Found(none, 0)
      ELSE IF m > e THEN Inside(s, q, e, c, none) ELSE Found(none, m)

\* A target or name at q, after the text of a link in which the first c is at first.
Over_target(s, first, q, e, c, none) ==
  LET r == First(s, q + 1, e, {IF s[q] = "[" THEN "]" ELSE ")"})
  IN  IF r < e THEN Found(none, r + 1)
      ELSE IF first # none THEN Found(first, 0) ELSE Inside(s, q + 1, r, c, none)

\* A link whose text ends at close, and what comes after it at q.
After_text(s, first, q, e, c, none) ==
  IF q >= e THEN Found(first, 0)
  ELSE IF s[q] \in {"[", "("} THEN Over_target(s, first, q, e, c, none)
  ELSE IF first # none THEN Found(first, 0) ELSE Found(none, q)

Over_link(s, p, close, e, c, none) ==
  After_text(s, Inside(s, p + 1, close, c, none).at,
             IF close = e THEN e ELSE FirstNot(s, close + 1, e, Spaces), e, c, none)

Over(s, p, e, c, none) ==
  IF s[p] = "["
  THEN Over_link(s, p, First(s, p + 1, e, {"]"}), e, c, none)
  ELSE LET q == FirstNot(s, p, e, {"tick"}) IN Over_code(s, q, q - p, e, c, none)

Find_emph_char(s, i, e, c) ==
  LET f[k \in i .. e + 1] ==
        LET p == First(s, k, e, {c, "[", "tick"}) IN
        IF p >= e THEN i
        ELSE IF Is_escaped(s, i, p) THEN f[p + 1]
        ELSE IF s[p] = c THEN p
        ELSE LET over == Over(s, p, e, c, i) IN IF over.next = 0 THEN over.at ELSE f[over.next]
  IN  f[i]

(***************************************************************************)
(* A span: what is pushed, the text it encloses, and where it ends.        *)
(***************************************************************************)
NoSpan == [does |-> "nothing"]

Wrap(type, from, to, end) ==
  [does |-> "wrap", type |-> type, from |-> from, to |-> to, end |-> end]

Leaf(type, text, end) ==
  [does |-> "leaf", type |-> type, text |-> text, end |-> end]

\* Emphasis from i that ends at p, which was looked for from k on.
Emph1_to(s, i, k, p, e) ==
  IF \/ k >= e \/ p = k \/ Is_space(s[p - 1])
     \/ "NOINTEM" \in Flags /\ p + 1 < e /\ s[p + 1] \in Alnum
  THEN NoSpan
  ELSE Wrap("EMPHASIS", i, p, p + 1)

Parse_emph1(s, i, e, c) ==
  LET k == IF i + 1 < e /\ s[i] = c /\ s[i + 1] = c THEN i + 1 ELSE i
  IN  Emph1_to(s, i, k, Find_emph_char(s, k, e, c), e)

\* Where two c come together that are not after a space, or -1.
Emph2_end(s, i, e, c) ==
  LET f[k \in i .. e] ==
        LET p == Find_emph_char(s, k, e, c) IN
        IF k = e \/ p = k THEN -1
        ELSE IF Is(s, p + 1, e, c) /\ ~Is_space(s[p - 1]) THEN p
        ELSE f[p + 1]
  IN  f[i]

Parse_emph2(s, i, e, c) ==
  LET p    == Emph2_end(s, i, e, c)
      type == CASE c = "~" -> "STRIKETHROUGH" [] c = "=" -> "HIGHLIGHT"
                [] OTHER -> "DOUBLE_EMPHASIS"
  IN  IF p = -1 THEN NoSpan ELSE Wrap(type, i, p, p + 2)

Emph3_to(s, i, p, e, c) ==
  IF i >= e \/ p = i \/ Is_space(s[p - 1]) THEN NoSpan
  ELSE IF Is(s, p + 1, e, c) /\ Is(s, p + 2, e, c)
       THEN Wrap("TRIPLE_EMPHASIS", i, p, p + 3)
  ELSE IF Is(s, p + 1, e, c) THEN Parse_emph1(s, i - 2, e, c)
  ELSE Parse_emph2(s, i - 1, e, c)

Parse_emph3(s, i, e, c) == Emph3_to(s, i, Find_emph_char(s, i, e, c), e, c)

Char_emphasis(s, o, i, e) ==
  LET c == s[i]
      n == FirstNot(s, i, e, {c}) - i
  IN  IF \/ e - i <= n + 1 \/ n > 3 \/ Is_space(s[i + n])
         \/ c \in {"~", "="} /\ n # 2
         \/ "NOINTEM" \in Flags /\ o > 0 /\ s[i - 1] \notin Spaces \cup {">", "("}
      THEN NoSpan
      ELSE CASE n = 1 -> Parse_emph1(s, i + 1, e, c)
             [] n = 2 -> Parse_emph2(s, i + 2, e, c)
             [] OTHER -> Parse_emph3(s, i + 3, e, c)

\* A line break: two spaces before the newline, which go as those after it do.
Char_linebreak(s, o, i, e) ==
  IF o < 2 \/ s[i - 1] # " " \/ s[i - 2] # " " THEN NoSpan
  ELSE [does |-> "break", end |-> FirstNot(s, i + 1, e, {" "})]

Char_codespan(s, i, e) ==
  LET q  == FirstNot(s, i, e, {"tick"})
      nb == q - i
      m  == Least({k \in q + nb .. e : \A j \in k - nb .. k - 1 : s[j] = "tick"}, e + 1)
      b  == Countspaces(s, q, m, 0)
      f  == Least({k \in q .. m - nb : \A j \in k .. m - nb - 1 : s[j] = " "}, q)
  IN  IF m > e THEN NoSpan
      ELSE Leaf("CODESPAN", IF b < f THEN SubSeq(s, b, f - 1) ELSE <<>>, m)

Parse_math(s, i, e, delim, block) ==
  LET n  == Len(delim)
      at == Least({k \in i + n .. e - n : /\ \A j \in 1 .. n : s[k + j - 1] = delim[j]
                                          /\ ~Is_escaped(s, i, k)}, e)
  IN  IF at = e THEN NoSpan
      ELSE IF "MATH" \in Flags
           THEN Leaf(IF block THEN "MATH_BLOCK" ELSE "MATH_SPAN",
                     SubSeq(s, i + n, at - 1), at + n)
           ELSE Leaf("NORMAL_TEXT", SubSeq(s, i, at + n - 1), at + n)

Char_math(s, i, e) ==
  IF Is(s, i + 1, e, "$") THEN Parse_math(s, i, e, <<"$", "$">>, TRUE)
                          ELSE Parse_math(s, i, e, <<"$">>, FALSE)

\* An escaped character, which no typography applies to; a last backslash.
Char_escape(s, i, e) ==
  LET math == Parse_math(s, i, e, <<"\\", "\\", IF s[i + 2] = "[" THEN "]" ELSE ")">>,
                         s[i + 2] = "[")
  IN  IF i + 1 = e THEN Leaf("ESCAPED_TEXT", <<"\\">>, i + 2)
      ELSE IF /\ "MATH" \in Flags /\ s[i + 1] = "\\" /\ i + 2 < e
              /\ s[i + 2] \in {"(", "["} /\ math.does # "nothing" THEN math
      ELSE IF "COMMONMARK" \in Flags /\ s[i + 1] = "\n"
           THEN Leaf("LINEBREAK", <<>>, FirstNot(s, i + 2, e, {" "}))
      ELSE IF s[i + 1] \in Escapable THEN Leaf("ESCAPED_TEXT", <<s[i + 1]>>, i + 2)
      ELSE NoSpan

Char_entity(s, i, e) ==
  LET k == FirstNot(s, IF Is(s, i + 1, e, "#") THEN i + 2 ELSE i + 1, e, Alnum)
  IN  IF Is(s, k, e, ";") THEN Leaf("ENTITY", SubSeq(s, i, k), k + 1) ELSE NoSpan

Long == Alpha \ {"a", "b", "c", "d", "k", "n", "x", "p"}   \* symbols of several letters

(***************************************************************************)
(* tag_length(): an element in angle brackets that may be a link, a mail   *)
(* address, a comment or a tag.                                            *)
(***************************************************************************)
Mail_end(s, k, e) ==
  LET m == FirstNot(s, k, e, Alnum \cup {"@", "-", ".", "_"})
  IN  IF Is(s, m, e, ">") /\ Cardinality({j \in k .. m - 1 : s[j] = "@"}) = 1
      THEN m + 1 ELSE 0

\* The end of an address from k on, before a quote, a space or the end.
Uri_end(s, k, e) ==
  LET f[m \in k .. e + 1] ==
        IF m >= e THEN m
        ELSE IF s[m] = "\\" THEN f[m + 2]
        ELSE IF s[m] \in Quotes \cup Spaces \cup {">"} THEN m
        ELSE f[m + 1]
  IN  f[k]

TagOf(type, end) == [type |-> type, end |-> end]

Tag_to(s, last, e) == IF last >= e THEN TagOf("NONE", 0) ELSE TagOf("NONE", last + 1)

\* An address whose scheme ends at k and that may end at stop.
Tag_uri(s, k, stop, e) ==
  IF Is(s, stop, e, ">") /\ stop > k + 1 THEN TagOf("NORMAL", stop + 1)
  ELSE Tag_to(s, First(s, stop, e, {">"}), e)

\* An element with a name up to k.
Tag_name(s, i, k, e) ==
  IF Is(s, k, e, "@") /\ Mail_end(s, k, e) # 0 THEN TagOf("EMAIL", Mail_end(s, k, e))
  ELSE IF Is(s, k, e, ":") /\ (k > i + 2 \/ s[i + 1] \in Long) /\ k + 1 < e
       THEN Tag_uri(s, k, Uri_end(s, k + 1, e), e)
  ELSE Tag_to(s, First(s, k, e, {">"}), e)

Tag(s, i, e) ==
  LET comment == Least({k \in i + 5 .. e - 1 :
                          s[k - 2] = "-" /\ s[k - 1] = "-" /\ s[k] = ">"}, e)
      j == IF s[i + 1] = "/" THEN i + 2 ELSE i + 1
  IN  IF e - i < 3 THEN TagOf("NONE", 0)
      ELSE IF /\ e - i > 5 /\ comment < e
              /\ s[i + 1] = "!" /\ s[i + 2] = "-" /\ s[i + 3] = "-"
           THEN TagOf("NONE", comment + 1)
      ELSE IF s[j] \notin Alnum THEN TagOf("NONE", 0)
      ELSE Tag_name(s, i, FirstNot(s, j, e, Alnum \cup {".", "+", "-"}), e)

Autolink(type, rewind, text, end) ==
  [does |-> "auto", type |-> type, rewind |-> rewind, text |-> text, end |-> end]

Tagged(s, i, tag) ==
  IF tag.end = 0 THEN NoSpan
  ELSE IF tag.type = "NONE" THEN Leaf("RAW_HTML", SubSeq(s, i, tag.end - 1), tag.end)
  ELSE Autolink(tag.type, -1, Unscape_text(SubSeq(s, i + 1, tag.end - 2)), tag.end)

Char_langle_tag(s, i, e) == Tagged(s, i, Tag(s, i, e))

(***************************************************************************)
(* Where a link that runs from i to before k ends, without the punctuation *)
(* after it: a closing bracket or quote that has not its pair in the link, *)
(* an entity, or a mark.                                                   *)
(***************************************************************************)
Autolink_delim(s, i, k) ==
  LET opening == [c \in {"\"", "'", ")", "]", "}"} |->
                    CASE c = ")" -> "(" [] c = "]" -> "[" [] c = "}" -> "{"
                      [] OTHER -> c]
      count(c, m) == Cardinality({j \in i .. m - 1 : s[j] = c})
      f[m \in i .. k] ==
        IF m = i THEN i
        ELSE IF s[m - 1] \in {"?", "!", ".", ",", ":"} THEN f[m - 1]
        ELSE IF s[m - 1] # ";" THEN m
        ELSE LET n == Least({j \in i .. m - 2 : \A x \in j + 1 .. m - 2 : s[x] \in Alpha}, m - 2)
             IN  IF n < m - 2 /\ s[n] = "&" THEN f[n] ELSE f[m - 1]
      end == f[First(s, i, k, {"<"})]
      c   == s[end - 1]
  IN  IF end = i \/ c \notin DOMAIN opening THEN end
      ELSE IF opening[c] = c \/ count(c, end) # count(opening[c], end) THEN end - 1
      ELSE end

\* The end of a domain that has a dot or colon, or i.
Check_domain(s, i, e) ==
  LET k == FirstNot(s, i + 1, e - 1, Alnum \cup {".", ":", "-"})
  IN  IF s[i] \in Alnum /\ \E j \in i + 1 .. k - 1 : s[j] \in {".", ":"} THEN k ELSE i

Rewind(s, o, i, C) ==
  i - Least({k \in i - o .. i : \A j \in k .. i - 1 : s[j] \in C}, i)

Char_autolink_www(s, o, i, e) ==
  LET k   == Check_domain(s, i, e)
      end == Autolink_delim(s, i, First(s, k, e, Spaces))
  IN  IF \/ o > 0 /\ s[i - 1] \notin Puncts \cup Spaces
         \/ ~Is(s, i + 1, e, ".") \/ k = i \/ end = i
      THEN NoSpan
      ELSE Autolink("NORMAL", 0, <<"http", ":", "/", "/">> \o SubSeq(s, i, end - 1), end)

Char_autolink_email(s, o, i, e) ==
  LET rewind == Rewind(s, o, i, Alnum \cup {".", "+", "-", "_"})
      k   == Least({j \in i .. e - 1 : /\ s[j] \notin Alnum \cup {"@", "-", "_"}
                                       /\ ~(s[j] = "." /\ j < e - 1)}, e)
      has(c) == Cardinality({j \in i .. k - 1 : s[j] = c})
      end == Autolink_delim(s, i, k)
  IN  IF rewind = 0 \/ k < i + 2 \/ has("@") # 1 \/ has(".") = 0 \/ s[k - 1] \notin Alpha \/ end = i
      THEN NoSpan
      ELSE Autolink("EMAIL", rewind, SubSeq(s, i - rewind, end - 1), end)

\* Is this one of the schemes of valid_uris, all of which are "http" here?
Halink_is_safe(s, i, k, e) == s[i] = "http" /\ k = i + 1 /\ s[k + 3] \in Alnum

Char_autolink_url(s, o, i, e) ==
  LET rewind == Rewind(s, o, i, Alpha)
      k   == Check_domain(s, i + 3, e)
      end == Autolink_delim(s, i, First(s, k, e, Spaces))
  IN  IF \/ e - i < 4 \/ s[i + 1] # "/" \/ s[i + 2] # "/"
         \/ ~Halink_is_safe(s, i - rewind, i, e) \/ k = i + 3 \/ end = i
      THEN NoSpan
      ELSE Autolink("NORMAL", rewind, SubSeq(s, i - rewind, end - 1), end)

(***************************************************************************)
(* The target of a link from its "(" on: address, title, dimensions.  The  *)
(* titles and dimensions may be given in any order and number; the last    *)
(* ones count.                                                             *)
(***************************************************************************)
NoTarget == [ok |-> FALSE]

Link_end(s, b, e) ==
  LET f[k \in b .. e + 1, np \in 0 .. e - b] ==
        IF k >= e THEN e
        ELSE IF s[k] = "\\" THEN f[k + 2, np]
        ELSE IF s[k] = "(" THEN f[k + 1, np + 1]
        ELSE IF s[k] = ")" THEN IF np = 0 THEN k ELSE f[k + 1, np - 1]
        ELSE IF Is_space(s[k - 1]) /\ s[k] \in Quotes \cup {"="} THEN k
        ELSE f[k + 1, np]
  IN  f[b, 0]

\* The first of C from b on that is not escaped, after the first of A if any.
Unescaped(s, b, e, A, C) ==
  LET f[k \in b .. e + 1, in \in BOOLEAN] ==
        IF k >= e THEN e
        ELSE IF s[k] = "\\" THEN f[k + 2, in]
        ELSE IF in /\ s[k] \in A THEN f[k + 1, FALSE]
        ELSE IF ~in /\ s[k] \in C THEN k
        ELSE f[k + 1, in]
  IN  f[b, A # {}]

\* The text before to without the spaces at its end, down to from.
Trimmed(s, from, to) == Least({j \in from .. to : \A m \in j .. to - 1 : Is_space(s[m])}, to)

Target(ok, link, end) == [ok |-> ok, link |-> link, title |-> <<>>, dims |-> <<>>, end |-> end]

\* What a title from m on to before n adds to what comes after it.
With_title(s, m, n, stop, r) ==
  LET t == Trimmed(s, m + 1, n) IN
  IF ~r.ok \/ r.title # <<>> THEN r
  ELSE IF t > m + 1 /\ s[t - 1] \in Quotes THEN [r EXCEPT !.title = SubSeq(s, m + 1, t - 2)]
  ELSE IF r.link = stop THEN [r EXCEPT !.link = n] ELSE r

With_dims(s, m, n, r) ==
  IF ~r.ok \/ r.dims # <<>> THEN r ELSE [r EXCEPT !.dims = SubSeq(s, m + 1, n - 1)]

\* The address from b on that ends at stop, with what comes after it.
Target_of(s, b, r) ==
  LET le     == Trimmed(s, b, r.link)
      angled == le > b /\ s[b] = "<" /\ s[le - 1] = ">"
  IN  IF ~r.ok THEN NoTarget
      ELSE [r EXCEPT !.end = @ + 1,
                     !.link = IF angled THEN SubSeq(s, b + 1, le - 2) ELSE SubSeq(s, b, le - 1)]

Target_from(s, b, stop, e) ==
  LET more[m \in stop .. e] ==
        LET quote == Unescaped(s, m + 1, e, {s[m]}, {"=", ")"})
            dims  == Unescaped(s, m + 1, e, {}, Quotes \cup {")"})
            after(n, C) == IF n < e /\ s[n] \in C THEN more[n] ELSE Target(n < e, stop, n)
        IN  IF m = e THEN Target(FALSE, stop, e)
            ELSE IF s[m] \in Quotes THEN With_title(s, m, quote, stop, after(quote, {"="}))
            ELSE IF s[m] = "=" THEN With_dims(s, m, dims, after(dims, Quotes))
            ELSE Target(TRUE, stop, m)
  IN  Target_of(s, b, more[stop])

Link_at(s, b, e) == Target_from(s, b, Link_end(s, b, e), e)

Link_target(s, k, e) == Link_at(s, FirstNot(s, k + 1, e, Spaces), e)

(***************************************************************************)
(* Super- and subscripts: between two tokens without a space, or, in short *)
(* form, in parentheses or up to a space.                                  *)
(***************************************************************************)
Char_supsubscript(s, i, e) ==
  LET type  == IF s[i] = "^" THEN "SUPERSCRIPT" ELSE "SUBSCRIPT"
      pair  == First(s, i + 1, e, {s[i]} \cup Spaces)
      paren == Find_emph_char(s, i + 2, e, ")")
      space == First(s, i + 1, e, Spaces)
  IN  IF e - i < 2 THEN NoSpan
      ELSE IF "SUPER_SHORT" \notin Flags
           THEN IF ~Is(s, pair, e, s[i]) THEN NoSpan
                ELSE IF pair = i + 1 THEN [does |-> "skip", end |-> i + 2]
                ELSE Wrap(type, i + 1, pair, pair + 1)
      ELSE IF s[i + 1] = "("
           THEN IF paren = e THEN NoSpan
                ELSE IF paren = i + 2 THEN [does |-> "skip", end |-> i + 3]
                ELSE Wrap(type, i + 2, paren, paren + 1)
      ELSE IF space = i + 1 THEN NoSpan ELSE Wrap(type, i + 1, space, space)

Char_subscript(s, o, i, e) ==
  IF "STRIKE" \in Flags /\ s[i + 1] = "~" THEN Char_emphasis(s, o, i, e)
                                         ELSE Char_supsubscript(s, i, e)

\* The characters that may begin a construct.
Active ==
  {"*", "_", "tick", "\n", "[", "!", "<", "\\", "&"}
    \cup (IF "HILITE" \in Flags THEN {"="} ELSE {})
    \cup (IF "AUTOLINK" \in Flags THEN {":", "@", "www"} ELSE {})
    \cup (IF "SUPER" \in Flags THEN {"^", "~"}
          ELSE IF "STRIKE" \in Flags THEN {"~"} ELSE {})
    \cup (IF "MATH" \in Flags THEN {"$"} ELSE {})

\* What begins at an active character that is not a bracket.
Span(s, o, i, e, in_link_body) ==
  CASE s[i] \in {"*", "_", "="} -> Char_emphasis(s, o, i, e)
    [] s[i] = "tick" -> Char_codespan(s, i, e)
    [] s[i] = "\n" -> Char_linebreak(s, o, i, e)
    [] s[i] = "<" -> Char_langle_tag(s, i, e)
    [] s[i] = "\\" -> Char_escape(s, i, e)
    [] s[i] = "&" -> Char_entity(s, i, e)
    [] s[i] = "$" -> Char_math(s, i, e)
    [] s[i] = "^" -> Char_supsubscript(s, i, e)
    [] s[i] = "~" -> IF "SUPER" \in Flags THEN Char_subscript(s, o, i, e)
                                          ELSE Char_emphasis(s, o, i, e)
    [] s[i] \in {":", "@", "www"} ->
         IF in_link_body THEN NoSpan
         ELSE IF s[i] = ":" THEN Char_autolink_url(s, o, i, e)
         ELSE IF s[i] = "@" THEN Char_autolink_email(s, o, i, e)
         ELSE Char_autolink_www(s, o, i, e)
=============================================================================
