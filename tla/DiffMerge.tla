------------------------------ MODULE DiffMerge ------------------------------
(***************************************************************************)
(* lowdown_diff() to its end: once the trees are matched, node_merge()     *)
(* walks the children of every matched pair on both sides at once and      *)
(* builds the tree that shows what was deleted and inserted (phase 5).     *)
(*                                                                         *)
(* The merged tree is a sequence of nodes: the identifier of a node is its *)
(* index less one, as parms.id counts the nodes up, and the children of a  *)
(* node are in the order of their identifiers.  A node has the old and the *)
(* new node it stands for (None for the side it is not on) and a word if   *)
(* it is one of those node_lcs() makes.                                    *)
(***************************************************************************)
EXTENDS DiffMatch, EditScripts

Sets == INSTANCE FiniteSetsExt

VARIABLES
  out,     \* the merged tree
  frames,  \* the calls of node_merge(), innermost first
  loop,    \* the loop the innermost call is in
  maxn     \* what the caller's maxn is set to, None before

mvars == <<out, frames, loop, maxn>>

\* What the merge leaves alone.
matching == <<pair, om, nm, optm, queue, work, climb>>

NoWord == "none"

TextOf(t, n) == t.lab[n].fields[1]

\* A sequence of symbols, none of which is taken for no word.
Plain(text) == text \in Seq({text[i] : i \in DOMAIN text} \ {NoWord})

(***************************************************************************)
(* What is so of the labels: a text is a sequence of symbols, and a root   *)
(* or document header has no attributes that are hashed (diff.c:249-315).  *)
(***************************************************************************)
ASSUME LabelsAreLabels ==
  \A d \in Names : \A n \in Ids(Tree(d)) :
    /\ IsText(Tree(d), n) => Plain(TextOf(Tree(d), n))
    /\ Type(Tree(d), n) \in {"ROOT", "DOC_HEADER"} => Tree(d).lab[n].fields = <<>>

\* The loops of node_merge() in order, from its first child to its last.
Loops == {"delold", "insnew", "text", "delrest", "insrest", "pair", "tail"}

MInit ==
  /\ Init
  /\ out = <<>>
  /\ frames = <<>>
  /\ loop = "tail"
  /\ maxn = None

Node(par, chng, o, n, word) ==
  [par |-> par, chng |-> chng, o |-> o, n |-> n, word |-> word]

(***************************************************************************)
(* The call at hand: the merged node m it adds children to, the pair <<o,  *)
(* n>> of which m is made and its next child on either side.               *)
(***************************************************************************)
Top    == Head(frames)
OldLeft == old.kids[Top.o]
NewLeft == new.kids[Top.n]
HasOld == Top.oi <= Len(OldLeft)
HasNew == Top.ni <= Len(NewLeft)
OldKid == OldLeft[Top.oi]
NewKid == NewLeft[Top.ni]

\* The call once it is past so many of its children.
Past(do, dn) == [Top EXCEPT !.oi = @ + do, !.ni = @ + dn]

\* Mutant: the loop ends one child early.
LoopHeadShort(f) == IF f.ni < Len(new.kids[f.n]) THEN "delold" ELSE "tail"

\* Where a call goes on once it has a pair, or a new node, behind it.
LoopHead(f) == IF f.ni <= Len(new.kids[f.n]) THEN "delold" ELSE "tail"

\* Mutant: the children are put under the node after their parent.
UnderNext(t, subtree, k) ==
  Len(out) + (CHOOSE j \in DOMAIN subtree : subtree[j] = t.par[subtree[k]])

\* The clone of the parent of the k-th node of the sub-tree.
Under(t, subtree, k) ==
  Len(out) - 1 + (CHOOSE j \in DOMAIN subtree : subtree[j] = t.par[subtree[k]])

(***************************************************************************)
(* node_clonetree(): the sub-tree of a node, numbered in pre-order.  Only  *)
(* its root is marked as changed.                                          *)
(***************************************************************************)
Cloned(side, subtree, chng) ==
  LET t == IF side = "old" THEN old ELSE new
  IN  [k \in DOMAIN subtree |->
         Node(IF k = 1 THEN Top.m ELSE Under(t, subtree, k),
              IF k = 1 THEN chng ELSE "none",
              IF side = "old" THEN subtree[k] ELSE None,
              IF side = "new" THEN subtree[k] ELSE None,
              NoWord)]

CloneOld == Cloned("old", SubTrees[pair[1]][OldKid], "delete")

\* Mutant: what is inserted is not marked.
CloneNewPlain(chng) == Cloned("new", SubTrees[pair[2]][NewKid], "none")

CloneNew(chng) == Cloned("new", SubTrees[pair[2]][NewKid], chng)

DeleteOld ==
  /\ out' = out \o CloneOld
  /\ frames' = <<Past(1, 0)>> \o Tail(frames)

InsertNew ==
  /\ out' = out \o CloneNew("insert")
  /\ frames' = <<Past(0, 1)>> \o Tail(frames)

OldMatch == om[OldKid]
NewMatch == nm[NewKid]

\* node_merge() is called for a pair: it clones the new node into m.
Call(m, o, n) == [m |-> m, o |-> o, n |-> n, oi |-> 1, ni |-> 1]

MAbort == phase' = "abort" /\ UNCHANGED <<out, frames, loop>>

MergeRoots ==
  /\ phase = "merge" /\ frames = <<>>
  /\ IF nm[Root] = None \/ om[Root] = None \/ nm[Root] # Root
     THEN MAbort
     ELSE /\ out' = <<Node(None, "none", Root, Root, NoWord)>>
          /\ frames' = <<Call(0, Root, Root)>>
          /\ loop' = LoopHead(Call(0, Root, Root))
          /\ UNCHANGED phase
  /\ UNCHANGED <<matching, maxn>>

Merging(l) == phase = "merge" /\ frames # <<>> /\ loop = l

\* Mutant: old nodes are deleted even if they have a match.
OldGoneAll == HasOld /\ (loop = "delold" => ~IsText(old, OldKid))

(***************************************************************************)
(* Old nodes without a match are deleted and new ones inserted: first up   *)
(* to a text, and again, texts too, after the texts have been compared.    *)
(***************************************************************************)
OldGone == HasOld /\ OldMatch = None /\ (loop = "delold" => ~IsText(old, OldKid))
NewCome == HasNew /\ NewMatch = None /\ (loop = "insnew" => ~IsText(new, NewKid))

FlushOld ==
  /\ Merging("delold") \/ Merging("delrest")
  /\ OldGone
  /\ DeleteOld
  /\ UNCHANGED <<matching, phase, loop, maxn>>

FlushOldDone ==
  /\ Merging("delold") \/ Merging("delrest")
  /\ ~OldGone
  /\ loop' = IF loop = "delold" THEN "insnew" ELSE "insrest"
  /\ UNCHANGED <<matching, phase, out, frames, maxn>>

FlushNew ==
  /\ Merging("insnew") \/ Merging("insrest")
  /\ NewCome
  /\ InsertNew
  /\ UNCHANGED <<matching, phase, loop, maxn>>

\* Mutant: with no new child left, the loop goes on.
FlushNewAgain ==
  /\ Merging("insnew") \/ Merging("insrest")
  /\ ~NewCome
  /\ loop' = IF loop = "insnew" THEN "text" ELSE IF HasNew THEN "pair" ELSE "delold"
  /\ UNCHANGED <<matching, phase, out, frames, maxn>>

FlushNewDone ==
  /\ Merging("insnew") \/ Merging("insrest")
  /\ ~NewCome
  /\ loop' = IF loop = "insnew" THEN "text" ELSE IF HasNew THEN "pair" ELSE "tail"
  /\ UNCHANGED <<matching, phase, out, frames, maxn>>

(***************************************************************************)
(* node_lcs(): two texts without a match are shown as one list of words.   *)
(* diff() gives a shortest script (see Onp), and the token of a word that  *)
(* is common is the old text's.  A word comes with a node for the white    *)
(* space before it, if it starts its text, and for that after it; these    *)
(* are not marked as changed, not even by the side of a deleted word.      *)
(***************************************************************************)
TextPair ==
  /\ HasOld /\ HasNew
  /\ IsText(old, OldKid) /\ OldMatch = None
  /\ IsText(new, NewKid) /\ NewMatch = None

WordNodes(op, o, n) ==
  LET chng == CASE op.type = "delete" -> "delete"
                [] op.type = "add"    -> "insert"
                [] op.type = "common" -> "none"
      from == IF op.type = "add" THEN None ELSE o
      to   == IF op.type = "delete" THEN None ELSE n
      sp   == <<Node(Top.m, "none", from, to, Space)>>
  IN  (IF op.e.head THEN sp ELSE <<>>)
      \o <<Node(Top.m, chng, from, to, op.e.word)>>
      \o (IF op.e.tail THEN sp ELSE <<>>)

\* The scripts from the tokens of one text to those of the other, by word.
TextScripts ==
  LET a == Tokens(TextOf(old, OldKid))
      b == Tokens(TextOf(new, NewKid))
  IN  Shortest(a, b, [x \in Seqs!ToSet(a) \cup Seqs!ToSet(b) |-> x.word])

MergeTexts ==
  /\ Merging("text")
  /\ TextPair
  /\ \E script \in TextScripts :
       out' = out \o Seqs!FlattenSeq([k \in DOMAIN script |->
                                   WordNodes(script[k], OldKid, NewKid)])
  /\ frames' = <<Past(1, 1)>> \o Tail(frames)
  /\ loop' = "delrest"
  /\ UNCHANGED <<matching, phase, maxn>>

NoTexts ==
  /\ Merging("text")
  /\ ~TextPair
  /\ loop' = "delrest"
  /\ UNCHANGED <<matching, phase, out, frames, maxn>>

(***************************************************************************)
(* The next new child has a match.  If that is not among the old children  *)
(* still to come, it has been moved here and is inserted; otherwise the    *)
(* old children before it are deleted, and the two are put side by side.   *)
(***************************************************************************)
MatchAhead == \E i \in Top.oi .. Len(OldLeft) : om[OldLeft[i]] = NewKid

InsertMoved ==
  /\ Merging("pair")
  /\ ~MatchAhead
  /\ InsertNew
  /\ loop' = LoopHead(Past(0, 1))
  /\ UNCHANGED <<matching, phase, maxn>>

DeleteMoved ==
  /\ Merging("pair")
  /\ MatchAhead
  /\ OldMatch # NewKid
  /\ DeleteOld
  /\ UNCHANGED <<matching, phase, loop, maxn>>

\* node_clonetree() for an opaque node, node_merge() for any other.
KeepOpaque ==
  /\ Merging("pair")
  /\ MatchAhead
  /\ OldMatch = NewKid
  /\ IsOpaque(new, NewKid)
  /\ IF ~IsOpaque(old, OldKid) THEN MAbort
     ELSE /\ out' = out \o [CloneNew("none") EXCEPT ![1].o = OldKid]
          /\ frames' = <<Past(1, 1)>> \o Tail(frames)
          /\ loop' = LoopHead(Past(1, 1))
          /\ UNCHANGED phase
  /\ UNCHANGED <<matching, maxn>>

Keep ==
  /\ Merging("pair")
  /\ MatchAhead
  /\ OldMatch = NewKid
  /\ ~IsOpaque(new, NewKid)
  /\ IF IsOpaque(old, OldKid) \/ NewMatch # OldKid THEN MAbort
     ELSE /\ out' = Append(out, Node(Top.m, "none", OldKid, NewKid, NoWord))
          /\ frames' = <<Call(Len(out), OldKid, NewKid)>> \o frames
          /\ loop' = LoopHead(Call(Len(out), OldKid, NewKid))
          /\ UNCHANGED phase
  /\ UNCHANGED <<matching, maxn>>

FlushTail ==
  /\ Merging("tail")
  /\ HasOld
  /\ DeleteOld
  /\ UNCHANGED <<matching, phase, loop, maxn>>

\* The calling node_merge() goes on past the pair.
Return ==
  /\ Merging("tail")
  /\ ~HasOld
  /\ Len(frames) > 1
  /\ LET f == [frames[2] EXCEPT !.oi = @ + 1, !.ni = @ + 1]
     IN  /\ frames' = <<f>> \o Tail(Tail(frames))
         /\ loop' = LoopHead(f)
  /\ UNCHANGED <<matching, phase, out, maxn>>

\* The largest identifier in the map of a tree (struct xmap's maxid).
MaxId(d) == Sets!Max(Maps[d])

MergeDone ==
  /\ Merging("tail")
  /\ ~HasOld
  /\ Len(frames) = 1
  /\ frames' = <<>>
  /\ phase' = "done"
  /\ maxn' = 1 + (IF MaxId(pair[2]) > MaxId(pair[1]) THEN MaxId(pair[2])
                                                     ELSE MaxId(pair[1]))
  /\ UNCHANGED <<matching, out, loop>>

Returned == phase = "done" /\ UNCHANGED <<vars, mvars>>

MergeNext ==
  \/ MergeRoots \/ FlushOld \/ FlushOldDone \/ FlushNew \/ FlushNewDone
  \/ MergeTexts \/ NoTexts \/ InsertMoved \/ DeleteMoved \/ KeepOpaque \/ Keep
  \/ FlushTail \/ Return \/ MergeDone

MNext ==
  \/ MatchNext /\ UNCHANGED mvars
  \/ MergeNext
  \/ Returned

MSpec == MInit /\ [][MNext]_<<vars, mvars>>

\* The program runs until it returns.
MLiveSpec == MSpec /\ WF_<<vars, mvars>>(MNext)

-------------------------------------------------------------------------------

\* The matching, and a merged tree whose nodes come after their parents.
MTypeOK ==
  /\ TypeOK
  /\ loop \in Loops
  /\ maxn \in Nat \cup {None}
  /\ \A k \in DOMAIN out :
       /\ out[k].par \in IF k = 1 THEN {None} ELSE 0 .. k - 2
       /\ out[k].chng \in {"none", "delete", "insert"}
       /\ out[k].o \in Ids(old) \cup {None}
       /\ out[k].n \in Ids(new) \cup {None}
  /\ \A i \in DOMAIN frames :
       /\ frames[i].m \in 0 .. Len(out) - 1
       /\ frames[i].o \in DOMAIN om /\ ~IsOpaque(old, frames[i].o)
       /\ frames[i].n \in DOMAIN nm /\ ~IsOpaque(new, frames[i].n)

(***************************************************************************)
(* What a tree shows, in reading order: its nodes with their parents, but  *)
(* a text as its words, each with the parent of the text.  Only what has   *)
(* its parent in a set, or nowhere, is shown.                              *)
(***************************************************************************)
Shown(t, n, par, parents) ==
  IF par \notin parents \cup {None} THEN <<>>
  ELSE IF IsText(t, n)
  THEN LET w == Words(TextOf(t, n)) IN [k \in DOMAIN w |-> <<par, "word", w[k]>>]
  ELSE <<<<par, "node", n>>>>

ShownOf(t, nodes, parents) ==
  Seqs!FlattenSeq([k \in DOMAIN nodes |-> Shown(t, nodes[k], t.par[nodes[k]], parents)])

\* What of a merged tree is not marked as away, nor below what is.
Here(m, away) ==
  LET here[k \in DOMAIN m] ==
        m[k].chng # away /\ (k = 1 \/ here[m[k].par + 1])
  IN  here

\* Inside of a kept opaque node of t, where the old side is not known.
Inside(m, t) ==
  LET inside[k \in DOMAIN m] ==
        /\ k # 1
        /\ LET above == m[k].par + 1
           IN  \/ inside[above]
               \/ m[above].n # None /\ IsOpaque(t, m[above].n)
  IN  inside

(***************************************************************************)
(* What a merged tree m shows without what is away; side tells which node  *)
(* of t one of its nodes stands for.  One that is here and stands for none *)
(* is astray, but for the white space by a word and in an opaque node.     *)
(***************************************************************************)
ShownWithout(m, away, t, side, parents) ==
  LET here   == Here(m, away)
      inside == Inside(m, new)
      par(v) == IF v.par = None THEN None ELSE m[v.par + 1][side]
      shown(v) ==
        IF v.word = NoWord THEN Shown(t, v[side], par(v), parents)
        ELSE IF par(v) \in parents THEN <<<<par(v), "word", v.word>>>>
        ELSE <<>>
  IN  Seqs!FlattenSeq([k \in DOMAIN m |->
        IF m[k].word = Space \/ ~here[k] THEN <<>>
        ELSE IF m[k][side] # None THEN shown(m[k])
        ELSE IF inside[k] THEN <<>>
        ELSE <<<<None, "stray">>>>])

(***************************************************************************)
(* The merged tree without what is deleted is the new tree, node for node  *)
(* and word for word, wherever a node was moved from: accepting every      *)
(* change gives the new document, but for white space.                     *)
(***************************************************************************)
NewSideWhole ==
  phase = "done" =>
    ShownWithout(out, "delete", new, "n", Ids(new))
      = ShownOf(new, SubTrees[pair[2]][Root], Ids(new))

\* The old nodes whose children are compared.
Compared == {o \in DOMAIN om : ~IsOpaque(old, o)}

(***************************************************************************)
(* Without what is inserted it is the old tree: every old node is either   *)
(* kept under the parent it had or deleted there, also when two new nodes  *)
(* claim it.  What an opaque node holds, cloned from one side, is left out *)
(* here; KeptLeavesSame says it is the same.                               *)
(***************************************************************************)
OldSideWhole ==
  phase = "done" =>
    ShownWithout(out, "insert", old, "o", Compared)
      = ShownOf(old, SubTrees[pair[1]][Root], Compared)

(***************************************************************************)
(* A node kept with nothing below it, or whose inside is not compared, is  *)
(* the same on both sides: a changed leaf is never passed over in silence. *)
(***************************************************************************)
KeptLeavesSame ==
  \A k \in DOMAIN out :
    LET o == out[k].o
        n == out[k].n
    IN  /\ o # None /\ n # None /\ out[k].word = NoWord
        /\ IsOpaque(new, n) \/ (new.kids[n] = <<>> /\ old.kids[o] = <<>>)
        => Sigs[pair[1]][o] = Sigs[pair[2]][n]

\* A document compared with its equal has no changes, whatever repeats in it.
EqualUnchanged ==
  Sigs[pair[1]][Root] = Sigs[pair[2]][Root] =>
    \A k \in DOMAIN out : out[k].chng = "none"

(***************************************************************************)
(* Whatever the documents, lowdown_diff() returns: its loops, the climb    *)
(* without a bound of match_up() among them, and its recursion all end.    *)
(***************************************************************************)
Terminates == <>(phase = "done")

(***************************************************************************)
(* "Clone a single node and all of its attributes.  That is, its type and  *)
(* leaf node data" says the comment on node_clone(): a node that is cloned *)
(* whole has the label of the one it is cloned from.                       *)
(***************************************************************************)
AttributesKept ==
  \A k \in DOMAIN out :
    out[k].word = NoWord =>
      LET lab == IF out[k].n # None THEN new.lab[out[k].n] ELSE old.lab[out[k].o]
      IN  NodeClone(lab) = lab
===============================================================================
