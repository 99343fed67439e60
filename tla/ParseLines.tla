------------------------------ MODULE ParseLines ------------------------------
(***************************************************************************)
(* How src/parse/document.c looks at lines: what block begins at a line,   *)
(* which lines belong to it and what is left of them for what is inside.   *)
(* Nothing here changes the parser.                                        *)
(*                                                                         *)
(* A text of blocks is a sequence ls of lines, each without its newline.   *)
(* A function of the code that is given the rest of the text is given here *)
(* the lines of it; one that is given a single line gets <<line>> or line. *)
(***************************************************************************)
EXTENDS ParseText

End(l) == Len(l) + 1

\* The text of the lines, and back.
Flat(ls) == FlattenSeq([k \in DOMAIN ls |-> Append(ls[k], "\n")])

LinesOf(t) ==
  LET ends == SetToSortSeq({k \in DOMAIN t : t[k] = "\n"}, <)
  IN  [k \in DOMAIN ends |->
         SubSeq(t, IF k = 1 THEN 1 ELSE ends[k - 1] + 1, ends[k] - 1)]

Drop(l, n)  == SubSeq(l, n + 1, Len(l))
From(ls, k) == SubSeq(ls, k, Len(ls))

Indent(l, max) == Countspaces(l, 1, End(l), max) - 1

Is_empty(l) == \A k \in DOMAIN l : l[k] = " "

Is_hrule(l) ==
  LET i == Indent(l, 3) + 1 IN
  /\ Is(l, i, End(l), "*") \/ Is(l, i, End(l), "-") \/ Is(l, i, End(l), "_")
  /\ \A k \in i .. Len(l) : l[k] \in {l[i], " "}
  /\ Cardinality({k \in i .. Len(l) : l[k] = l[i]}) >= 3

\* A code fence: its character, its width, and how much of the line it takes.
NoFence == [end |-> 0]

Is_fencedcode(l) ==
  LET i == Indent(l, 3) + 1
      k == FirstNot(l, i, End(l), {l[i]})
  IN  IF /\ "FENCED" \in Flags
         /\ i <= Len(l) /\ l[i] \in {"~", "tick"} /\ k - i >= 3
      THEN [end |-> k - 1, width |-> k - i, chr |-> l[i]]
      ELSE NoFence

IsFence(l) == Is_fencedcode(l).end # 0

(***************************************************************************)
(* A fence begins at the first line and another line is a fence, though    *)
(* not always one that closes it, or may open it.                          *)
(***************************************************************************)
Is_fencedcode_block(ls) ==
  IsFence(ls[1]) /\ \E k \in 2 .. Len(ls) : IsFence(ls[k])

\* A fence that opens a block: not if its line closes again, as a code span.
Parse_fencedcode_line(l) ==
  LET fence == Is_fencedcode(l)
      from  == FirstNot(l, fence.end + 1, End(l), Spaces)
      span  == \E k \in from .. Len(l) - 2 :
                 \A j \in k .. k + 2 : l[j] = fence.chr
  IN  IF fence.end = 0 \/ span THEN NoFence
      ELSE fence @@ [lang |-> SubSeq(l, from, First(l, from, End(l), Spaces) - 1)]

\* The first line after the block's lines, and whether a fence ends it.
Fencedcode_end(ls) ==
  LET open == Is_fencedcode(ls[1])
  IN  Least({k \in 2 .. Len(ls) : /\ Is_fencedcode(ls[k]) = open
                                  /\ Is_empty(Drop(ls[k], open.end))}, Len(ls) + 1)

Is_atxheader(l) ==
  /\ l # <<>> /\ l[1] = "#"
  /\ "COMMONMARK" \in Flags =>
       Is(l, Min({FirstNot(l, 1, End(l), {"#"}), 7}), End(l), " ")

\* The level of a header's underline, or 0.
Is_headerline(l) ==
  IF l = <<>> \/ l[1] \notin {"=", "-"} THEN 0
  ELSE IF Is_empty(Drop(l, FirstNot(l, 1, End(l), {l[1]}) - 1))
       THEN IF l[1] = "=" THEN 1 ELSE 2
       ELSE 0

Is_next_headerline(ls) == Len(ls) > 1 /\ Is_headerline(ls[2]) # 0

(***************************************************************************)
(* The length of a prefix, or 0.  A line before a header's underline has   *)
(* none, if that is among the lines given.                                 *)
(***************************************************************************)
Prefix_quote(l) ==
  LET i == Indent(l, 3) + 1
  IN  IF Is(l, i, End(l), ">") THEN Countspaces(l, i + 1, End(l), 1) - 1 ELSE 0

Prefix_code(l) == IF Indent(l, 4) = 4 THEN 4 ELSE 0

Prefix_dli(ls) ==
  LET l == ls[1]
      i == Indent(l, 3) + 1
  IN  IF /\ "DEFLIST" \in Flags
         /\ Is(l, i, End(l), ":") /\ Is(l, i + 1, End(l), " ")
         /\ ~Is_next_headerline(ls)
      THEN i + 1 ELSE 0

Prefix_oli(ls) ==
  LET l == ls[1]
      i == Indent(l, 3) + 1
      k == FirstNot(l, i, End(l), Digits)
      mark == {"."} \cup (IF "COMMONMARK" \in Flags THEN {")"} ELSE {})
  IN  IF /\ k > i /\ ("COMMONMARK" \in Flags => k - i <= 9)
         /\ k < Len(l) /\ l[k] \in mark /\ l[k + 1] = " "
         /\ ~Is_next_headerline(ls)
      THEN k + 1 ELSE 0

\* The number an ordered list starts with.
List_start(l) ==
  LET i == Indent(l, 3) + 1
      value[k \in i - 1 .. Len(l)] ==
        IF k < i THEN 0
        ELSE 10 * value[k - 1] + (CHOOSE d \in 0 .. 9 : ToString(d) = l[k])
      n == value[FirstNot(l, i, End(l), Digits) - 1]
  IN  IF "COMMONMARK" \notin Flags \/ n = 0 THEN 1 ELSE n

\* A checkbox: 1 if checked, 0 if not, -1 if there is none.
Uli_check(l, i) ==
  IF /\ "TASKLIST" \in Flags
     /\ Is(l, i + 2, End(l), "[") /\ Is(l, i + 4, End(l), "]") /\ Is(l, i + 5, End(l), " ")
     /\ l[i + 3] \in {" ", "x"}
  THEN IF l[i + 3] = "x" THEN 1 ELSE 0
  ELSE -1

Prefix_uli(ls) ==
  LET l == ls[1]
      i == Indent(l, 3) + 1
  IN  IF /\ i < Len(l) /\ l[i] \in {"*", "+", "-"} /\ l[i + 1] = " "
         /\ ~Is_next_headerline(ls)
      THEN IF Uli_check(l, i) = -1 THEN i + 1 ELSE i + 5
      ELSE 0

(***************************************************************************)
(* A quotation: the lines inside it and the lines after it.  Lines without *)
(* a prefix go on with it, until an empty line before one that is neither  *)
(* empty nor has a prefix; that empty line goes with it.                   *)
(***************************************************************************)
Blockquote(ls) ==
  LET ends(k) == /\ Prefix_quote(ls[k]) = 0 /\ Is_empty(ls[k])
                 /\ k < Len(ls) => Prefix_quote(ls[k + 1]) = 0 /\ ~Is_empty(ls[k + 1])
      n == Least({k \in DOMAIN ls : ends(k)}, Len(ls) + 1)
  IN  [body |-> [k \in 1 .. n - 1 |-> Drop(ls[k], Prefix_quote(ls[k]))],
       rest |-> From(ls, n + 1)]

(***************************************************************************)
(* A paragraph: how many lines it has, what it ends with, the lines after. *)
(***************************************************************************)
Paragraph_to(ls, n) ==
  LET empty == n <= Len(ls) /\ Is_empty(ls[n])
      level == IF n <= Len(ls) /\ ~empty THEN Is_headerline(ls[n]) ELSE 0
  IN  [lines |-> n - 1, beoln |-> empty, level |-> level,
       rest |-> From(ls, IF empty \/ level # 0 THEN n + 1 ELSE n)]

Paragraph(ls) ==
  LET ends(k) == \/ Is_fencedcode_block(From(ls, k)) \/ Is_atxheader(ls[k])
                 \/ Is_hrule(ls[k]) \/ Prefix_quote(ls[k]) # 0
                 \/ (k = 2 /\ Prefix_dli(From(ls, k)) # 0)
      taken(k) == Is_empty(ls[k]) \/ Is_headerline(ls[k]) # 0
  IN  Paragraph_to(ls, Least({k \in DOMAIN ls : taken(k) \/ ends(k)}, Len(ls) + 1))

Blockcode(ls) ==
  LET n == Least({k \in DOMAIN ls : Prefix_code(ls[k]) = 0 /\ ~Is_empty(ls[k])}, Len(ls) + 1)
      body == [k \in 1 .. n - 1 |->
                 LET l == Drop(ls[k], Prefix_code(ls[k])) IN IF Is_empty(l) THEN <<>> ELSE l]
      last == Max({k \in DOMAIN body : body[k] # <<>>})
  IN  [text |-> Flat(SubSeq(body, 1, last)), rest |-> From(ls, n)]

(***************************************************************************)
(* An item of a list of the given kind: the lines inside it, how many of   *)
(* them come before a list inside it (0 if none does), whether it has      *)
(* blocks, whether it ends its list, and the lines after it.               *)
(***************************************************************************)
NoItem == [is |-> FALSE]

Prefix_item(ls) ==
  IF Prefix_uli(ls) # 0 THEN Prefix_uli(ls)
  ELSE IF Prefix_oli(ls) # 0 THEN Prefix_oli(ls) ELSE Prefix_dli(ls)

KindOf(ls) == IF Prefix_uli(ls) # 0 THEN "UNORDERED"
              ELSE IF Prefix_dli(ls) # 0 THEN "DEF" ELSE "ORDERED"

ItemStart(first) ==
  [work |-> <<first>>, sublist |-> 0, taken |-> 1, dli |-> 1, has_newline |-> -1,
   in_empty |-> FALSE, has_block |-> FALSE, in_fence |-> FALSE, fenced |-> FALSE,
   stop |-> FALSE, li_end |-> FALSE]

\* An empty line of an item.
ItemEmpty(st) ==
  [st EXCEPT !.has_newline = IF @ <= 0 THEN 1 ELSE @, !.in_empty = TRUE,
             !.dli = 0, !.taken = @ + 1]

\* A line put into an item, after an empty line if one came before it.
ItemPut(st, l) ==
  [st EXCEPT !.work = (IF st.in_empty THEN Append(@, <<>>) ELSE @) \o <<l>>,
             !.has_block = @ \/ (st.in_empty /\ st.sublist = 0),
             !.in_empty = FALSE, !.taken = @ + 1]

\* A fence line, or a line between fences.
ItemFence(st, l) ==
  [st EXCEPT !.in_fence = ~@, !.fenced = @ \/ ~st.in_fence, !.work = Append(@, l),
             !.in_empty = FALSE, !.taken = @ + 1]

ItemFenced(st, l) ==
  [ItemPut(st, l) EXCEPT !.has_block = st.has_block]

\* A line with the prefix of an item: the next one, or the first of a list inside.
ItemNext(st, l, kind, pre, orgpre) ==
  LET top   == st.sublist = 0
      block == st.has_block \/ (st.in_empty /\ top)
      other == KindOf(<<l>>) # kind
  IN  IF pre <= orgpre
      THEN [st EXCEPT !.stop = TRUE, !.li_end = other,
                      !.has_block = block /\ ~(other /\ st.has_newline < 2)]
      ELSE ItemPut([st EXCEPT !.has_block = block, !.dli = 0,
                              !.sublist = IF top THEN Len(st.work) ELSE @,
                              !.has_newline = IF top /\ @ = 1 THEN 2 ELSE @], l)

\* Any other line, which belongs to the item unless it follows an empty line.
ItemMore(st, l, pre, prefixed) ==
  IF st.in_empty /\ pre = 0 THEN [st EXCEPT !.stop = TRUE, !.li_end = TRUE]
  ELSE ItemPut([st EXCEPT !.has_newline = CASE @ = -1 -> 0 [] @ = 1 -> 2 [] OTHER -> @,
                          !.dli = IF prefixed THEN 0 ELSE @], l)

ItemLine(st, line, kind, orgpre) ==
  LET pre == Indent(line, 4)
      l   == Drop(line, pre)
      s   == [st EXCEPT !.dli = @ + 1]
      uli == Prefix_uli(<<l>>) # 0
      dli == s.dli <= 2 /\ Prefix_dli(<<l>>) # 0
      oli == Prefix_oli(<<l>>) # 0
  IN  IF st.stop THEN st
      ELSE IF Is_empty(line) THEN ItemEmpty(st)
      ELSE IF IsFence(l) THEN ItemFence(s, l)
      ELSE IF st.in_fence THEN ItemFenced(s, l)
      ELSE IF (uli /\ ~Is_hrule(l)) \/ oli \/ dli THEN ItemNext(s, l, kind, pre, orgpre)
      ELSE ItemMore(s, l, pre, uli)

\* The item as it is after the last line was looked at.
ItemDone(ls, st) ==
  [is |-> TRUE, body |-> st.work, sublist |-> st.sublist,
   block |-> st.has_block \/ st.fenced, li_end |-> st.li_end,
   checked |-> IF KindOf(ls) = "UNORDERED" THEN Uli_check(ls[1], Indent(ls[1], 3) + 1) ELSE -1,
   rest |-> From(ls, st.taken + 1)]

Listitem(ls, kind) ==
  LET prefix == Prefix_item(ls)
      st[k \in 1 .. Len(ls)] ==
        IF k = 1 THEN ItemStart(Drop(ls[1], prefix))
        ELSE ItemLine(st[k - 1], ls[k], kind, Indent(ls[1], 3))
  IN  IF prefix = 0 THEN NoItem ELSE ItemDone(ls, st[Len(ls)])

(***************************************************************************)
(* Tables: the columns that the first line asks for, if the second has a   *)
(* rule for each, with the alignment each rule gives.                      *)
(***************************************************************************)
Table_columns(l) ==
  LET t    == SubSeq(l, 1, Least({k \in 0 .. Len(l) : \A j \in k + 1 .. Len(l) : l[j] = " "}, 0))
      bar(k) == t[k] = "|" /\ (k = 1 \/ t[k - 1] # "\\")
      n    == Cardinality({k \in DOMAIN t : bar(k)})
      outer(k) == IF t # <<>> /\ bar(k) THEN 1 ELSE 0
  IN  IF n = 0 THEN 0 ELSE n - outer(1) - outer(Len(t)) + 1

\* The alignments of the columns, or <<>> if the line is no such rule.
Table_rule(u, columns) ==
  LET e == End(u)
      f[col \in 0 .. columns, i \in 1 .. e + 1] ==
        LET b     == FirstNot(u, i, e, {" "})
            left  == Is(u, b, e, ":")
            d     == IF left THEN b + 1 ELSE b
            m     == FirstNot(u, d, e, {"-"})
            right == Is(u, m, e, ":")
            r     == IF right THEN m + 1 ELSE m
            next  == FirstNot(u, r, e, {" "})
            flags == (IF left THEN {"LEFT"} ELSE {}) \cup (IF right THEN {"RIGHT"} ELSE {})
        IN  IF col = columns THEN <<>>
            ELSE IF i >= e \/ r = b \/ (next < e /\ u[next] \notin {"|", "+"}) THEN <<{"no"}>>
            ELSE <<flags>> \o f[col + 1, next + 1]
      all == f[0, IF Is(u, 1, e, "|") THEN 2 ELSE 1]
  IN  IF Len(all) = columns /\ \A k \in DOMAIN all : all[k] # {"no"} THEN all ELSE <<>>

IsTable(ls) ==
  /\ "TABLES" \in Flags /\ Len(ls) > 1
  /\ Table_columns(ls[1]) > 0
  /\ Table_rule(ls[2], Table_columns(ls[1])) # <<>>

\* The lines of a table below its rule.
Table_rows(ls) ==
  LET n == Least({k \in 3 .. Len(ls) : "|" \notin {ls[k][j] : j \in DOMAIN ls[k]}}, Len(ls) + 1)
  IN  SubSeq(ls, 3, n - 1)

\* Where the cells of a row are that it has of the columns.
Cell(l, b, k) ==
  [from |-> b, next |-> k + 1,
   to |-> Least({j \in Min({b + 1, k}) .. k : \A m \in j .. k - 1 : l[m] = " "}, k)]

\* The cell that begins at b, where p is the next bar, or b if there is none.
Cell_to(l, b, p, e) == Cell(l, b, IF p = b /\ b < e /\ l[b] # "|" THEN e ELSE p)

Cell_at(l, b, e) == Cell_to(l, b, Find_emph_char(l, b, e, "|"), e)

Table_cells(l, e, columns) ==
  LET f[col \in 0 .. columns, i \in 1 .. e + 1] ==
        LET cell == Cell_at(l, FirstNot(l, i, e, {" "}), e) IN
        IF col = columns \/ i >= e THEN <<>> ELSE <<cell>> \o f[col + 1, cell.next]
  IN  f[0, IF Is(l, 1, e, "|") THEN 2 ELSE 1]

(***************************************************************************)
(* HTML blocks, on the text of the lines.  A tag is one symbol, and a name *)
(* is taken for the first tag that it is the beginning of.                 *)
(***************************************************************************)
BlockTags == {"div", "del", "p"}
VoidTags  == {"br"}

FirstWith == [a |-> "address", b |-> "blockquote", d |-> "del", n |-> "nav"]

Html_find_block(name) ==
  CASE name = <<>> -> "address"
    [] Len(name) = 1 /\ name[1] \in BlockTags -> name[1]
    [] Len(name) = 1 /\ name[1] \in DOMAIN FirstWith -> FirstWith[name[1]]
    [] OTHER -> ""

\* Just after the newline of the empty rest of a line, or 0.
Rest_empty(t, i) ==
  LET k == FirstNot(t, i, End(t), {" "})
  IN  IF Is(t, k, End(t), "\n") THEN k + 1 ELSE 0

Html_is_end(t, i, tag) ==
  IF i + 3 <= Len(t) /\ t[i] = "<" /\ t[i + 1] = "/" /\ t[i + 2] = tag /\ t[i + 3] = ">"
  THEN Rest_empty(t, i + 4) ELSE 0

\* The end of the first end tag from i and before e on that ends its line, or 0.
Html_find_end(t, i, e, tag) ==
  LET k == Least({j \in i .. e - 1 : Html_is_end(t, j, tag) # 0}, e)
  IN  IF k = e THEN 0 ELSE Html_is_end(t, k, tag)

Html_find_end_strict(t, tag) ==
  LET begins == {1} \cup {k + 1 : k \in {j \in DOMAIN t : t[j] = "\n"}}
      ends(m) == LET next == First(t, m, End(t), {"\n"}) + 1
                 IN  /\ m <= Len(t) /\ (m > 1 => t[m] # " ")
                     /\ Html_find_end(t, m, next, tag) = next
                     /\ (next <= Len(t) => Rest_empty(t, next) # 0)
      m == Least({k \in begins : ends(k)}, 0)
  IN  IF m = 0 THEN 0 ELSE First(t, m, End(t), {"\n"}) + 1

\* Where the HTML block at the beginning of the text ends, or 0.
Htmlblock_end(t) ==
  LET k    == First(t, 2, End(t), {">", " "})
      tag  == Html_find_block(SubSeq(t, 2, k - 1))
      mark == Least({j \in 6 .. Len(t) : t[j - 2] = "-" /\ t[j - 1] = "-" /\ t[j] = ">"}, 0)
      comment == IF Len(t) > 5 /\ SubSeq(t, 2, 4) = <<"!", "-", "-">> /\ mark # 0
                 THEN Rest_empty(t, mark + 1) ELSE 0
      void == IF k <= Len(t) /\ t[2] \in VoidTags
              THEN Rest_empty(t, First(t, 3, End(t), {">"}) + 1) ELSE 0
      strict == Html_find_end_strict(t, tag)
  IN  IF k <= Len(t) /\ tag # ""
      THEN IF strict # 0 THEN strict
           ELSE IF tag = "del" THEN 0 ELSE Html_find_end(t, 1, End(t), tag)
      ELSE IF comment # 0 THEN comment ELSE void
=============================================================================
