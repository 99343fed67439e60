------------------------------- MODULE DiffTree -------------------------------
(***************************************************************************)
(* The document trees that lowdown_diff() compares, and the pure functions *)
(* of src/diff/diff.c on them: opacity, signatures, weights, label         *)
(* equality and the pre-order walk that numbers a cloned sub-tree.         *)
(*                                                                         *)
(* A tree is a record of functions over its node identifiers (the "id" of  *)
(* struct lowdown_node): kids gives the TAILQ of children in order, par    *)
(* the parent or None, lab the label.  Identifiers may have holes.  A      *)
(* label is [type, fields, rest]: fields are the attributes diff.c hashes, *)
(* in the order it hashes them, each a sequence of symbols; rest is any    *)
(* attribute of the node it does not hash.                                 *)
(***************************************************************************)
EXTENDS Integers, Sequences, FiniteSets

LOCAL INSTANCE Functions
Seqs == INSTANCE SequencesExt

CONSTANT
  Ln        \* Ln[n] is the natural logarithm of n in thousandths

None  == -1
Root  == 0
Space == "sp"   \* the one whitespace symbol of a text

Ids(t)     == DOMAIN t.kids
Type(t, n) == t.lab[n].type
Kids(t, n) == {t.kids[n][i] : i \in DOMAIN t.kids[n]}

\* No node is twice among the children of a node.
KidsOnce(t) ==
  \A n \in Ids(t) : \A i, j \in DOMAIN t.kids[n] :
    t.kids[n][i] = t.kids[n][j] => i = j

\* Who goes from a node to a child, and on to a child of that, comes to an end.
Grounded(t) ==
  \A S \in SUBSET Ids(t) :
    S # {} => \E n \in S : Kids(t, n) \cap S = {}

\* The root and the document header are at the places that are theirs alone.
HeaderFirst(t) ==
  /\ \A n \in Ids(t) : Type(t, n) = "ROOT" => n = Root
  /\ \A n \in Ids(t) : Type(t, n) = "DOC_HEADER" =>
       t.kids[Root] # <<>> /\ n = t.kids[Root][1]

TextsBare(t) ==
  \A n \in Ids(t) : Type(t, n) = "NORMAL_TEXT" => t.kids[n] = <<>>

(***************************************************************************)
(* What the parser promises of a tree: parent and child links agree, the   *)
(* root alone has no parent, no node is twice among the children of a node *)
(* or anywhere below itself, only the root is of its type and only its     *)
(* first child a document header, texts have no children, and there is an  *)
(* end to the nodes.                                                       *)
(***************************************************************************)
IsTree(t) ==
  /\ Ids(t) \subseteq Nat
  /\ \E last \in Ids(t) : \A n \in Ids(t) : n <= last
  /\ Root \in Ids(t) /\ Type(t, Root) = "ROOT"
  /\ t.kids \in [Ids(t) -> Seq(Ids(t))]
  /\ t.par \in [Ids(t) -> Ids(t) \cup {None}]
  /\ \A n \in Ids(t) : t.par[n] = None <=> n = Root
  /\ \A n \in Ids(t) : \A i \in DOMAIN t.kids[n] : t.par[t.kids[n][i]] = n
  /\ \A n \in Ids(t) \ {Root} : n \in Kids(t, t.par[n])
  /\ KidsOnce(t)
  /\ Grounded(t)
  /\ HeaderFirst(t)
  /\ TextsBare(t)

IsOpaque(t, n) == Type(t, n) \in {"TABLE_BLOCK", "META"}

IsText(t, n) == Type(t, n) = "NORMAL_TEXT"

(***************************************************************************)
(* The nodes assign_sigs() enters in the map: those it reaches from the    *)
(* root without going through an opaque node, that is what all the sets    *)
(* have in common that hold the root and, with a node, what it goes to.    *)
(***************************************************************************)
Closed(t, S) ==
  /\ Root \in S
  /\ \A m \in S : IsOpaque(t, m) \/ Kids(t, m) \subseteq S

Mapped(t) ==
  Ids(t) \ UNION {Ids(t) \ S : S \in {R \in SUBSET Ids(t) : Closed(t, R)}}

(***************************************************************************)
(* The MD5 of a node covers its type, the digests of its children and then *)
(* its attributes, one after the other with nothing in between.  Collision *)
(* of MD5 itself is abstracted away, that of the concatenation is not.     *)
(***************************************************************************)
Digest(lab, kids) == <<lab.type, kids, Seqs!FlattenSeq(lab.fields)>>

\* Mutant: the digest of a child is not passed to its parent.
SigOfAlone(t) == [n \in Ids(t) |-> Digest(t.lab[n], <<>>)]

SigOf(t) ==
  LET sig[n \in Ids(t)] ==
        Digest(t.lab[n], [i \in DOMAIN t.kids[n] |-> sig[t.kids[n][i]]])
  IN  [n \in Ids(t) |-> sig[n]]

TextTypes == {"BLOCKCODE", "BLOCKHTML", "LINK_AUTO", "CODESPAN", "META",
              "IMAGE", "RAW_HTML", "NORMAL_TEXT", "ENTITY"}

TextSize(lab) == IF lab.type = "IMAGE" THEN Len(Seqs!FlattenSeq(lab.fields))
                                       ELSE Len(lab.fields[1])

\* In thousandths: 1 + log(size) for text, 1 + the children's otherwise.
WeightOf(t) ==
  LET w[n \in Ids(t)] ==
        IF Type(t, n) \in TextTypes
        THEN 1000 + (IF TextSize(t.lab[n]) = 0 THEN 0
                                               ELSE Ln[TextSize(t.lab[n])])
        ELSE 1000 + SumFunction([i \in DOMAIN t.kids[n] |-> w[t.kids[n][i]]])
  IN  [n \in Ids(t) |-> w[n]]

(***************************************************************************)
(* ceil(log(maxnodes) * weight / maxweight), and at least 1: how many      *)
(* levels optimality() looks and match_up() climbs.                        *)
(***************************************************************************)
Height(maxnodes, weight, maxweight) ==
  LET d == (Ln[maxnodes] * weight + 1000 * maxweight - 1)
              \div (1000 * maxweight)
  IN  IF d = 0 THEN 1 ELSE d

LabelledTypes == {"LINK", "HEADER", "META", "LISTITEM"}

\* Mutant: the types are not compared.
MatchEqOfAny(l1, l2) ==
  l1.type \in LabelledTypes /\ l2.type = l1.type => l1.fields = l2.fields

MatchEq(l1, l2) ==
  /\ l1.type = l2.type
  /\ l1.type \in LabelledTypes => l1.fields = l2.fields

\* The nodes of the sub-tree of each node.
Below(t) ==
  LET below[n \in Ids(t)] ==
        {n} \cup UNION {below[t.kids[n][i]] : i \in DOMAIN t.kids[n]}
  IN  [n \in Ids(t) |-> below[n]]

\* Does the node have no sibling?
MatchSingleton(t, n) == t.par[n] = None \/ Len(t.kids[t.par[n]]) = 1

NextSibling(t, n) ==
  LET s == t.kids[t.par[n]]
      i == CHOOSE j \in DOMAIN s : s[j] = n
  IN  IF i < Len(s) THEN s[i + 1] ELSE None

\* Mutant: leaves are not skipped.
SkippedOpaque(t, n) == IsOpaque(t, n)

\* A node that both optimisations skip, with all that is below it.
Skipped(t, n) == IsOpaque(t, n) \/ t.kids[n] = <<>>

\* The types of which node_clone() copies what is not hashed, too: the flags of
\* a definition, the columns and the alignment of a table.
RestCloned == {"DEFINITION", "TABLE_BLOCK", "TABLE_HEADER", "TABLE_CELL"}

\* What node_clone() copies of a label.
NodeClone(lab) == IF lab.type \in RestCloned THEN lab ELSE [lab EXCEPT !.rest = <<>>]

\* The node and its descendants in the order node_clonetree() clones them.
PreOrder(t) ==
  LET pre[n \in Ids(t)] ==
        <<n>> \o Seqs!FlattenSeq([i \in DOMAIN t.kids[n] |-> pre[t.kids[n][i]]])
  IN  [n \in Ids(t) |-> pre[n]]

(***************************************************************************)
(* The words node_tokenise() finds in a text: word is what is compared,    *)
(* head and tail say whether white-space comes before the first word and   *)
(* after each.  A text is a sequence of words kept apart by Space.         *)
(***************************************************************************)
Words(text) ==
  Seqs!FlattenSeq([i \in DOMAIN text |-> IF text[i] = Space THEN <<>> ELSE <<text[i]>>])

Tokens(text) ==
  LET at == Seqs!FlattenSeq([i \in DOMAIN text |-> IF text[i] = Space THEN <<>> ELSE <<i>>])
  IN  [k \in DOMAIN at |->
         [word |-> text[at[k]],
          head |-> k = 1 /\ at[1] > 1,
          tail |-> at[k] < Len(text)]]
=============================================================================
