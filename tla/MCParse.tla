-------------------------------- MODULE MCParse --------------------------------
(***************************************************************************)
(* Documents for Parse.  They are written as strings of symbols, of which  *)
(* a capital stands for a word and "?" for the backtick.  a, b and c are   *)
(* the words that are to be kept; d, k, n and x are for what may go: the   *)
(* names and targets of definitions, metadata and attributes.              *)
(***************************************************************************)
EXTENDS Parse

Wordings ==
  [H |-> "http", W |-> "www", N |-> "Note", D |-> "div", E |-> "del", B |-> "br",
   T |-> "title", A |-> "author", C |-> "class", I |-> "id"]

Symbol(c) == IF c = "?" THEN "tick" ELSE IF c \in DOMAIN Wordings THEN Wordings[c] ELSE c

Line(text) == [k \in 1 .. Len(text) |-> Symbol(SubSeq(text, k, k))]

Doc(lines) == [k \in DOMAIN lines |-> Line(lines[k])]

One(doc) == [docs |-> <<doc>>, meta |-> <<>>, metaovr |-> <<>>, frail |-> FALSE]

\* Every construct at least once, and those that the code takes care of.
Written == {
  Doc(<<"# a {#x .d}", "", "b *c* **a b** ***c*** ~~a~~", "==="  >>),
  Doc(<<"## {#k}", "a {C=x}", "b", "---", "===", "c">>),
  Doc(<<"a \\*\\*b\\\\ c\\", "&a; &x", "*a **b* c** _a_ ???c? ?? b", "a^b^ ~c~ ^^">>),
  Doc(<<"a  ", "b\\", "  c">>),
  Doc(<<"n", "a b.H://n.x, W.n.x (a@n.x) H:b <H://n.x> <a@n.x> <b> </c", "">>),
  Doc(<<"a.b+c@k.n W", "H://x">>),
  Doc(<<"[a *b*](x \"c\") ![a](n =2 'b'){.k} [ a ](<x>){#n}", "[a[b](n) W.k.x](k)">>),
  Doc(<<"[a][k] [k][] [k] [b] [a](x [a][n]", "", "[k]: x", "[n]: d \"x\" {#n}", "  (x)", "    b">>),
  Doc(<<"a[^n] [^n] ![^k] b[^x]", "", "[^n]: b[^k]", "    c", "", "    a", "[^k]: c ", "d">>),
  Doc(<<"[a ![^n] b](k) !![^n]", "[^n]: [c](x) [^n] [%T]">>),
  Doc(<<"T: x", " d", "A: k:", "T:", "n", "", "a [%T] ![%T] [%A] [%d]">>),
  Doc(<<"---", "T: x", "T: k", "d: ", "---", "a [%T]">>),
  Doc(<<"% x(1) d | k", "% n; n", "  x", "", "a [%T] b">>),
  Doc(<<"a b", "c", ": k">>),
  Doc(<<"a", ": b", ": c", "  d", "", "b", "", ": c", "", "  a", "", "c", ": n", "=">>),
  Doc(<<"a[^n]", ": c", "", "[^n]: *~~b~~*", "    : x">>),
  Doc(<<"* a", "* b", "  * c", "    * a", "", "  b", "1. c">>),
  Doc(<<"3. a", "4. b", "  c", "", "5) c", "", "- [x] a", "- [ ] b", "***">>),
  Doc(<<"* a", "", "* b", "* c", "  ~~~", "  a", "  ~~~", "- b">>),
  Doc(<<"> a", "b", "", "> > * c", "d", "", "> **N**", "> a", "", "> **N:** b">>),
  Doc(<<"a | b", ":-|:-:", "*c* | | n", "|| a", "b \\| c|", "">>),
  Doc(<<"|a|", "|-|", "", "| a", "-">>),
  Doc(<<"~~~ k", "a", "~~~~", "  b", "~~~", "    c", "", "\ta", "b">>),
  Doc(<<"<D>", "a", "</D>", "", "<!-- b -->", "<B/>", "<E>c", "</E>", "", "<x>">>),
  Doc(<<"***", "a", "* * *", "b">>)}

(***************************************************************************)
(* Every document of two lines, and of three with the same first and last, *)
(* or an empty one between them.                                           *)
(***************************************************************************)
Sorts == {
  "a", "* a", "  * b", "    c", "1. b", ": c", "> b", "# c", "---", "~~~ k", "a | b", "--|--",
  "[^n]: c", "b[^n]", "[k]: x", "[a][k] b", "T: k"}

Made ==
  {Doc(<<s, t>>) : s, t \in Sorts}
    \cup {Doc(<<s, "", t>>) : s, t \in Sorts} \cup {Doc(<<s, t, s>>) : s, t \in Sorts}

\* Given metadata; several documents one after the other; memory that runs out.
Given ==
  [One(Doc(<<"T: n", "", "a [%T]">>)) EXCEPT !.meta = <<Line("T: d"), Line("x:\n")>>,
                                             !.metaovr = <<Line("A: k")>>]

Twice ==
  [One(Doc(<<"a[^n]", "", "[^n]: b">>)) EXCEPT
     !.docs = @ \o <<Doc(<<"a[^n]", "[^n]: [b](x) c">>), Doc(<<"> > > > a">>)>>, !.frail = FALSE]

Frail == [One(Doc(<<"* a[^n]", "", "[^n]: > [b](x)", "    : c">>)) EXCEPT !.frail = TRUE]

MCSessions == {One(doc) : doc \in Written \cup Made} \cup {Given, Twice, Frail}

\* A fence that a code span on its line keeps from being one.
MCUnfenced == {One(Doc(<<"a", "~~~ b ~~~", "c", "~~~">>)), One(Doc(<<"~~~ a", "b", "~~~">>))}

\* A footnote that makes its document fail, before one like it that does not.
MCAgain ==
  {[One(Doc(<<"a[^n]", "[^n]: [b](x){} c">>)) EXCEPT !.docs = Append(@, Doc(<<"a[^n]", "[^n]: b">>))],
   Twice}
===============================================================================
