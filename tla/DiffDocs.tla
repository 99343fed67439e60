------------------------------- MODULE DiffDocs -------------------------------
(***************************************************************************)
(* Small documents for the runs of the difference engine.  A term is a     *)
(* nested description of a document; TreeOf numbers its nodes in pre-order *)
(* as the parser does, or every gap-th, as when the parser has dropped     *)
(* nodes it had numbered.                                                  *)
(***************************************************************************)
EXTENDS Integers, Sequences

LOCAL INSTANCE SequencesExt

RECURSIVE FlatTerm(_, _, _)
FlatTerm(term, par, at) ==
  LET add(acc, kid) == acc \o FlatTerm(kid, at, at + Len(acc))
  IN  FoldLeft(add, <<[par |-> par, lab |-> term.lab]>>, term.kids)

TreeOf(term, gap) ==
  LET f   == FlatTerm(term, -1, 0)
      ids == [i \in 1 .. Len(f) |-> i - 1]
      all == {gap * ids[i] : i \in DOMAIN ids}
      nth(n) == f[(n \div gap) + 1]
      kids(n) == SelectSeq(ids, LAMBDA i : f[i + 1].par * gap = n)
  IN  [kids |-> [n \in all |-> [j \in DOMAIN kids(n) |-> gap * kids(n)[j]]],
       par  |-> [n \in all |-> IF n = 0 THEN -1 ELSE gap * nth(n).par],
       lab  |-> [n \in all |-> nth(n).lab]]

Lab(type, fields, rest) == [type |-> type, fields |-> fields, rest |-> rest]

Block(type, kids) == [lab |-> Lab(type, <<>>, <<>>), kids |-> kids]
Leaf(type, fields) == [lab |-> Lab(type, fields, <<>>), kids |-> <<>>]

Txt(words)       == Leaf("NORMAL_TEXT", <<words>>)
Code(text, lang) == Leaf("BLOCKCODE", <<text, lang>>)
Math(text)       == [lab |-> Lab("MATH_BLOCK", <<<<"block">>>>, text),
                     kids |-> <<>>]
Para(kids)       == Block("PARAGRAPH", kids)
Quote(kids)      == Block("BLOCKQUOTE", kids)
Rule             == Leaf("HRULE", <<>>)
Head1(kids)      == [lab |-> Lab("HEADER", <<<<"1">>>>, <<>>), kids |-> kids]
Head2(kids)      == [lab |-> Lab("HEADER", <<<<"2">>>>, <<>>), kids |-> kids]
Link(to, kids)   == [lab |-> Lab("LINK", <<to, <<>>>>, <<>>), kids |-> kids]
Item(num, kids)  == [lab |-> Lab("LISTITEM", <<<<num>>, <<"ul">>>>, <<>>),
                     kids |-> kids]
List(kids)       == [lab |-> Lab("LIST", <<<<"ul">>>>, <<>>), kids |-> kids]
Meta(key, text)  == [lab |-> Lab("META", <<<<key>>>>, <<>>),
                     kids |-> <<Txt(text)>>]
Header(metas)    == Block("DOC_HEADER", metas)
Table(cell)      == Block("TABLE_BLOCK", <<Block("TABLE_CELL", <<Txt(cell)>>)>>)
Doc(blocks)      == Block("ROOT", <<Header(<<>>)>> \o blocks)

\* Natural logarithms in thousandths.
Logs == <<0, 693, 1099, 1386, 1609, 1792, 1946, 2079, 2197, 2303,
          2398, 2485, 2565, 2639, 2708, 2773, 2833, 2890, 2944, 2996>>

\* The sequences of at most max elements of S.
UpTo(S, max) == UNION {[1 .. k -> S] : k \in 0 .. max}
=============================================================================
