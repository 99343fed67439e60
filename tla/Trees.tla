--------------------------------- MODULE Trees ---------------------------------
(***************************************************************************)
(* Trees for the renderers, written as their nodes in order, each with its *)
(* depth.                                                                  *)
(***************************************************************************)
EXTENDS Integers, Sequences

LOCAL INSTANCE FiniteSetsExt
LOCAL INSTANCE SequencesExt

Chars(s) == [k \in 1 .. Len(s) |-> SubSeq(s, k, k)]

\* A node at a depth, and with a text, attributes or a change.
N(depth, type) ==
  [d |-> depth,
   l |-> [type |-> type, text |-> <<>>, fl |-> {}, num |-> 0, more |-> <<>>, chng |-> "NONE"]]
T(depth, s)         == [N(depth, "NORMAL_TEXT") EXCEPT !.l.text = Chars(s)]
X(depth, type, s)   == [N(depth, type) EXCEPT !.l.text = Chars(s)]
W(depth, type, s)   == [N(depth, type) EXCEPT !.l.text = <<s>>]
F(node, fl)         == [node EXCEPT !.l.fl = fl]
M(node, more)       == [node EXCEPT !.l.more = more]
K(node, num)        == [node EXCEPT !.l.num = num]

\* An entry of the metadata.
Meta(key, s) == <<W(2, "META", key), T(3, s)>>

Tree(list) ==
  LET all == <<N(0, "ROOT")>> \o list
      up(k) == Max({j \in 1 .. k - 1 : all[j].d < all[k].d})
      below(k) == SelectSeq([j \in DOMAIN all |-> j], LAMBDA j : j > k /\ up(j) = k)
  IN  [kids |-> [n \in 0 .. Len(list) |->
                   LET q == below(n + 1) IN [j \in DOMAIN q |-> q[j] - 1]],
       par  |-> [n \in 0 .. Len(list) |-> IF n = 0 THEN -1 ELSE up(n + 1) - 1],
       lab  |-> [n \in 0 .. Len(list) |-> all[n + 1].l]]
===============================================================================
