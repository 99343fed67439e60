------------------------------- MODULE ParseDefs -------------------------------
(***************************************************************************)
(* What src/parse/document.c takes out of a document before its blocks are *)
(* parsed: metadata, definitions of footnotes, definitions of references.  *)
(* Nothing here changes the parser.                                        *)
(***************************************************************************)
EXTENDS ParseLines

NoDef == [is |-> FALSE]

(***************************************************************************)
(* The definition of a footnote: its name, the lines of its contents, and  *)
(* the lines after it.  It goes on over empty and indented lines.  What is *)
(* not set off from the colon by a space is not part of it, though it is   *)
(* on the same line.                                                       *)
(***************************************************************************)
Is_footnote(ls) ==
  LET l  == ls[1]
      i  == Indent(l, 3) + 1
      k  == First(l, i + 2, End(l), {"]"})
      at == <<Drop(l, k + 1)>> \o Tail(ls)
      n  == Least({j \in DOMAIN at : ~Is_empty(at[j]) /\ at[j][1] # " "}, Len(at) + 1)
      part(j) == IF Is_empty(at[j]) THEN <<>>
                 ELSE (IF j > 1 /\ Is_empty(at[j - 1]) THEN <<<<>>>> ELSE <<>>)
                        \o <<Drop(at[j], Indent(at[j], 4))>>
  IN  IF /\ Is(l, i, End(l), "[") /\ Is(l, i + 1, End(l), "^")
         /\ k < End(l) /\ Is(l, k + 1, End(l), ":")
      THEN [is |-> TRUE, name |-> SubSeq(l, i + 2, k - 1),
            contents |-> FlattenSeq([j \in 1 .. n - 1 |-> part(j)]),
            rest |-> From(at, n)]
      ELSE NoDef

(***************************************************************************)
(* The definition of a reference: its name, address, title and attributes, *)
(* and the lines after it.  Address and title may each be on a line of     *)
(* their own; the spaces that a next line begins with are lost if it turns *)
(* out to have no title.                                                   *)
(***************************************************************************)
\* The last of C from i and before e, or before i if there is none.
LastOf(t, i, e, C) ==
  Least({x \in i .. e - 1 : t[x] \in C /\ \A y \in x + 1 .. e - 1 : t[y] \notin C}, i - 1)

Junk(t, i, e) == \E x \in i .. e - 1 : t[x] # " "

\* The next line's first symbol that is no space, if i is at the end of a line.
Next_line(t, i) == IF Is(t, i, End(t), "\n") THEN Countspaces(t, i + 1, End(t), 0) ELSE i

\* Attributes in braces at z, after a name, an address and a title.
Ref_attrs(def, t, z) ==
  LET y  == First(t, z + 1, End(t), {"\n"})
      ae == LastOf(t, z + 1, y, {"}"})
  IN  IF "ATTRS" \in Flags /\ z + 1 < End(t) /\ t[z] = "{"
      THEN IF Junk(t, ae + 1, y) THEN NoDef
           ELSE def @@ [is |-> TRUE, attrs |-> SubSeq(t, z + 1, ae - 1), end |-> y]
      ELSE def @@ [is |-> TRUE, attrs |-> <<>>, end |-> z]

\* A title in quotes from q on that may go to z.
Ref_title_to(def, t, q, z) ==
  LET te == LastOf(t, q + 1, z, Quotes \cup {")"})
  IN  IF Junk(t, te + 1, z) THEN NoDef
      ELSE Ref_attrs(def @@ [title |-> SubSeq(t, q + 1, te - 1)], t, z)

Ref_title(def, t, q) ==
  IF q + 1 < End(t) /\ t[q] \in Quotes \cup {"("}
  THEN Ref_title_to(def, t, q,
                    First(t, q + 1, End(t), {"\n"} \cup (IF "ATTRS" \in Flags THEN {"{"} ELSE {})))
  ELSE Ref_attrs(def @@ [title |-> <<>>], t, q)

\* An address from a to before m, in brackets or not, and what is after it at j.
Ref_link_to(def, t, a, m, j) ==
  LET le == IF t[m - 1] = ">" THEN m - 1 ELSE m
  IN  IF /\ le > a
         /\ j < End(t) => t[j] \in {"\n", "("} \cup Quotes \cup (IF "ATTRS" \in Flags THEN {"{"} ELSE {})
      THEN Ref_title(def @@ [link |-> SubSeq(t, a, le - 1)], t, Next_line(t, j))
      ELSE NoDef

Ref_link(def, t, a) ==
  LET m == First(t, a, End(t), Spaces) IN Ref_link_to(def, t, a, m, Countspaces(t, m, End(t), 0))

Ref_address(def, t, b) ==
  IF b >= End(t) THEN NoDef ELSE Ref_link(def, t, IF t[b] = "<" THEN b + 1 ELSE b)

\* A name from i to before k.
Ref_name(t, i, k) ==
  IF /\ Is(t, i, End(t), "[") /\ Is(t, k, End(t), "]") /\ Is(t, k + 1, End(t), ":")
  THEN Ref_address([name |-> SubSeq(t, i + 1, k - 1)], t,
                   Next_line(t, Countspaces(t, k + 2, End(t), 0)))
  ELSE NoDef

Ref_text(t) ==
  LET i == Countspaces(t, 1, End(t), 3) IN Ref_name(t, i, First(t, i + 1, End(t), {"]", "\n"}))

\* The lines after a definition that ends in the first three.
Ref_rest(ls, t, def) ==
  IF ~def.is THEN NoDef
  ELSE def @@ [rest |-> LinesOf(SubSeq(t, def.end, Len(t))) \o From(ls, 4)]

Is_ref(ls) ==
  LET t == Flat(SubSeq(ls, 1, Min({3, Len(ls)}))) IN Ref_rest(ls, t, Ref_text(t))

\* A line with its tabs replaced: spaces up to the next column of four.
Expand_tabs(l) ==
  LET f[k \in 0 .. Len(l)] ==
        IF k = 0 THEN <<>>
        ELSE IF l[k] # "\t" THEN Append(f[k - 1], l[k])
        ELSE f[k - 1] \o [j \in 1 .. 4 - (Len(f[k - 1]) % 4) |-> " "]
  IN  f[Len(l)]

(***************************************************************************)
(* Metadata in MMD or YAML form: the entries of it, as keys with values.   *)
(***************************************************************************)
Entry(key, val) == [key |-> key, val |-> val]

\* Just after the value at i: it goes on over lines that begin with a space or
\* have no colon, and over empty lines, up to two of them.
Mmd_val_end(t, i) ==
  LET e == End(t)
      f[p \in i .. e] ==
        LET q == FirstNot(t, p + 1, e, {"\n"})
            r == First(t, p + 1, e, {"\n"})
        IN  IF p >= e THEN e
            ELSE IF p + 1 >= e THEN p
            ELSE IF q > p + 2 THEN q - 1
            ELSE IF q = p + 2 THEN f[p + 1]
            ELSE IF t[p + 1] \notin {" ", "\t"} /\ First(t, p + 1, r, {":"}) < r THEN p
            ELSE f[r]
  IN  f[First(t, i, e, {"\n"})]

Mmd_key(t) ==
  LET kept == SelectSeq(t, LAMBDA c : ~Is_space(c))
  IN  [k \in DOMAIN kept |-> IF kept[k] \in Alnum \cup {"-", "_"} THEN kept[k] ELSE "_"]

\* After the colon any spaces are skipped, newlines too.
Mmd_entries(t) ==
  LET e == End(t)
      f[pos \in 1 .. e + 1] ==
        LET c == First(t, pos, e, {":"})
            i == IF c + 1 >= e THEN e ELSE FirstNot(t, c + 1, e, Spaces)
            n == IF i = e THEN e ELSE Mmd_val_end(t, i)
        IN  IF pos >= e THEN <<>>
            ELSE <<Entry(Mmd_key(SubSeq(t, pos, c - 1)), SubSeq(t, i, n - 1))>> \o f[n + 1]
  IN  f[1]

Stripped(t) ==
  SubSeq(t, 1, Least({k \in 0 .. Len(t) : \A j \in k + 1 .. Len(t) : t[j] = "\n"}, 0))

\* The entries of a text: none unless its first line has a colon.
Parse_metadata_mmd(t) ==
  LET k == First(t, 1, End(t), {":", "\n"})
  IN  IF Is(t, k, End(t), ":") THEN Mmd_entries(t) ELSE <<>>

Dashes == <<"-", "-", "-">>

\* How many lines the MMD or YAML block at the beginning has, or 0.
Mmd_block(ls) ==
  LET yaml == Len(ls) > 1 /\ ls[1] = Dashes
      b    == IF yaml THEN 2 ELSE 1
      ends(C) == Least({k \in b + 1 .. Len(ls) : ls[k] \in C}, 0)
  IN  IF /\ b <= Len(ls) /\ ls[b] # <<>> /\ ls[b][1] \in Alnum
         /\ ":" \in {ls[b][k] : k \in DOMAIN ls[b]}
      THEN IF ~yaml THEN ends({<<>>})
           ELSE IF ends({Dashes}) # 0 THEN ends({Dashes}) ELSE ends({<<".", ".", ".">>})
      ELSE 0

Mmd_text(ls, n) ==
  IF ls[1] = Dashes THEN LET t == Flat(SubSeq(ls, 2, n - 1)) IN SubSeq(t, 1, Len(t) - 1)
                    ELSE Stripped(Flat(SubSeq(ls, 1, n)))

(***************************************************************************)
(* Metadata in pandoc form: up to three lines that begin with a percent    *)
(* mark, each with the indented lines after it.                            *)
(***************************************************************************)
Begins(l, c) == l # <<>> /\ l[1] = c

\* The last line of the entry that begins at line k.
Pandoc_last(ls, k) ==
  Least({n \in k .. Len(ls) : n = Len(ls) \/ ~Begins(ls[n + 1], " ")}, k)

\* The first lines of the title, the author and the date, as far as there are any.
Pandoc_begins(ls) ==
  LET f[k \in 1 .. Len(ls) + 1, j \in 1 .. 4] ==
        IF j = 4 \/ k > Len(ls) THEN <<>>
        ELSE IF ~Begins(ls[k], "%") THEN <<>>
        ELSE <<k>> \o f[Pandoc_last(ls, k) + 1, j + 1]
  IN  f[1, 1]

Pandoc_rest(ls) ==
  LET at == Pandoc_begins(ls)
      n  == Pandoc_last(ls, at[Len(at)]) + 1
  IN  From(ls, Least({k \in n .. Len(ls) : ls[k] # <<>>}, Len(ls) + 1))

\* One space for each run of spaces and for each newline, two for a semicolon.
Pandoc_val(ls, k, semis) ==
  LET t == Flat(SubSeq(ls, k, Pandoc_last(ls, k)))
      v == SubSeq(t, Countspaces(t, 2, Len(t), 0), Len(t) - 1)
      kept == SelectSeq([j \in DOMAIN v |-> j],
                        LAMBDA j : ~(v[j] = " " /\ j > 1 /\ v[j - 1] = " "))
  IN  FlattenSeq([j \in DOMAIN kept |->
        LET c == v[kept[j]] IN
        IF c = "\n" THEN <<" ">> ELSE IF c = ";" /\ semis THEN <<" ", " ">> ELSE <<c>>])

Mantitle(t) ==
  LET p == First(t, 1, End(t), {"("})
      q == FirstNot(t, p + 2, End(t), Alpha)
  IN  /\ "MANTITLE" \in Flags /\ p > 1 /\ p < Len(t)
      /\ t[p + 1] \in Digits \cup {"n"} /\ Is(t, q, End(t), ")")

Trim(t) ==
  LET b == Countspaces(t, 1, End(t), 0)
      k == Least({j \in b .. End(t) : \A m \in j .. Len(t) : t[m] = " "}, b)
  IN  SubSeq(t, b, k - 1)

\* title(section) source | volume
\* The title, or the parts of one that is a manual page's.
Titles(title) ==
  LET p == First(title, 1, End(title), {"("})
      q == First(title, p, End(title), {")"})
      v == First(title, q, End(title), {"|"})
      part(key, from, to) == Entry(<<key>>, Trim(SubSeq(title, from, to)))
  IN  IF ~Mantitle(title) THEN <<Entry(<<"title">>, title)>>
      ELSE <<part("title", 1, p - 1), part("section", p + 1, q - 1),
             part("volume", v + 1, Len(title)), part("source", q + 1, v - 1)>>

Pandoc_entries(ls, at) ==
  LET val(j, semis) == IF j > Len(at) THEN <<>> ELSE Pandoc_val(ls, at[j], semis)
      titles == Titles(val(1, FALSE))
      all == <<titles[1], Entry(<<"author">>, val(2, TRUE)), Entry(<<"date">>, val(3, FALSE))>>
               \o Tail(titles)
  IN  SelectSeq(all, LAMBDA x : x.val # <<>>)

Parse_metadata_pandoc(ls) == Pandoc_entries(ls, Pandoc_begins(ls))

(***************************************************************************)
(* The metadata at the beginning of a document, and the lines after it.    *)
(***************************************************************************)
Metadata(ls) ==
  LET n == Mmd_block(ls)
  IN  IF "METADATA" \notin Flags \/ ls = <<>> THEN [entries |-> <<>>, rest |-> ls]
      ELSE IF Begins(ls[1], "%")
           THEN [entries |-> Parse_metadata_pandoc(ls), rest |-> Pandoc_rest(ls)]
      ELSE IF n # 0 THEN [entries |-> Parse_metadata_mmd(Mmd_text(ls, n)), rest |-> From(ls, n + 1)]
      ELSE [entries |-> <<>>, rest |-> ls]
=============================================================================
