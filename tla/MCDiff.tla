----------------------------- MODULE MCDiff -----------------------------
EXTENDS DiffMerge, DiffDocs

LOCAL INSTANCE FiniteSetsExt

ab == Txt(<<"a", "sp", "b">>)
ba == Txt(<<"sp", "b", "sp", "a">>)
bc == Txt(<<"b", "sp", "c", "sp">>)

Kinds == <<Para(<<ab>>), Quote(<<Para(<<ab>>)>>), Quote(<<Para(<<bc>>)>>),
           Para(<<ba, Link(<<"x">>, <<ab>>), ba>>),
           Para(<<bc, Link(<<"x">>, <<ab>>), ab>>),
           Quote(<<Para(<<bc>>), Para(<<ab>>)>>),
           Table(<<"a">>), Head1(<<ab, Link(<<"x">>, <<ba>>)>>),
           List(<<Item("1", <<ab>>), Item("2", <<bc>>)>>), Math(<<"t">>)>>

(***************************************************************************)
(* A document is named by the sequence of the kinds of its blocks, after a *)
(* 0 if it has metadata; the identifiers of one with a header have holes.  *)
(* All of up to two blocks are compared, so that blocks are kept, changed, *)
(* moved and nested; those of three make the queue hold a light sub-tree   *)
(* between two heavy ones, and a node claim another's match.               *)
(***************************************************************************)
DocOf(d) ==
  LET blocks == SelectSeq(d, LAMBDA k : k # 0)
      metas  == IF Len(blocks) = Len(d) THEN <<>> ELSE <<Meta("k", <<"a">>)>>
  IN  TreeOf(Block("ROOT", <<Header(metas)>> \o
                           [i \in DOMAIN blocks |-> Kinds[blocks[i]]]),
             IF \E i \in DOMAIN d : d[i] = 8 THEN 2 ELSE 1)

Short == UpTo({1, 2, 4, 5, 6, 7, 8}, 2) \cup {<<0>>, <<0, 1>>, <<0, 2, 7>>, <<9>>, <<10, 1>>}
Three == [1 .. 3 -> 1 .. 3]

MCNames == Short \cup Three
MCPairs == (Short \X Short) \cup (Three \X Three)

\* A few of them, for the run that follows each to its end.
FewNames == {<<>>, <<1>>, <<5, 1>>, <<4, 7>>, <<6>>, <<8, 2>>, <<0, 7, 6>>}
FewPairs == FewNames \X FewNames

\* TLC keeps the value of a table it has compared.
ASSUME Tables == /\ Docs = [d \in Names |-> DocOf(d)]
                 /\ Maps = [d \in Names |-> Mapped(Docs[d])]
                 /\ Sigs = [d \in Names |-> SigOf(Docs[d])]
                 /\ Weights = [d \in Names |-> WeightOf(Docs[d])]
                 /\ MaxWeight = [d \in Names |-> Max({Weights[d][n] : n \in Ids(Docs[d])})]
                 /\ SubTrees = [d \in Names |-> PreOrder(Docs[d])]
                 /\ Belows = [d \in Names |-> Below(Docs[d])]
=============================================================================
