------------------------------- MODULE ParseTree -------------------------------
(***************************************************************************)
(* The tree that src/parse/document.c builds, and the only ways in which   *)
(* the parser changes it: a node is pushed below the current one, text is  *)
(* added to the text before it, a node is popped, and a few nodes are      *)
(* changed, moved or removed after the fact.                               *)
(*                                                                         *)
(* This is the abstract specification of the parser: it says nothing of    *)
(* which of these a document makes it do.  Parse implements it.            *)
(***************************************************************************)
EXTENDS Integers, Sequences

CONSTANT
  Maxdepths     \* what lowdown_opts may give as maxdepth; 0 is no bound

None == -1
Root == 0

ASSUME MaxdepthsAssumption == Maxdepths \subseteq Nat

VARIABLES
  kids,         \* the children of each node, in order
  par,          \* the parent of each node, None of the root
  lab,          \* the rest of each node: its type and what it holds
  nodes,        \* how many nodes were made: the next identifier
  current,      \* doc->current
  depth,        \* doc->depth
  held,         \* the nodes pushed and not popped yet, as the functions in
                \* progress hold them in their variable "n"
  maxdepth,     \* doc->maxdepth
  phase         \* where the parser is

tree  == <<kids, par, lab>>
tvars == <<kids, par, lab, nodes, current, depth, held, maxdepth, phase>>

Phases == {"idle", "parsing", "done", "failed", "aborted"}

\* A node's type, its text, its flags, its number; more is what else it has.
Label(type, text, fl, num, more) ==
  [type |-> type, text |-> text, fl |-> fl, num |-> num, more |-> more]

Node(type)     == Label(type, <<>>, {}, 0, <<>>)
Text(fl, text) == Label("NORMAL_TEXT", text, fl, 0, <<>>)

Nothing == [n \in {} |-> n]

TInit ==
  /\ kids = Nothing /\ par = Nothing /\ lab = Nothing
  /\ nodes = 0 /\ current = None /\ depth = 0 /\ held = <<>>
  /\ maxdepth \in Maxdepths
  /\ phase = "idle"

Last_child(n) == IF kids[n] = <<>> THEN None ELSE kids[n][Len(kids[n])]

\* Nodes that never have a child pushed below them by another function.
Leaves == {"NORMAL_TEXT", "META"}

\* Mutant: the depth is compared before the node is counted.
TooDeepLater(d) == maxdepth # 0 /\ d > maxdepth + 1

\* Does pushnode_full() refuse a node when doc->depth is d?
TooDeep(d) == maxdepth # 0 /\ d > maxdepth

(***************************************************************************)
(* The tree with a new node as the last child of p.  labels is lab, with   *)
(* what the caller changed in it before.                                   *)
(***************************************************************************)
NewNode(labels, p, l) ==
  LET ids == DOMAIN lab \cup {nodes} IN
  /\ kids' = [n \in ids |-> IF n = nodes THEN <<>>
                            ELSE IF n = p THEN Append(kids[n], nodes) ELSE kids[n]]
  /\ par' = [n \in ids |-> IF n = nodes THEN p ELSE par[n]]
  /\ lab' = [n \in ids |-> IF n = nodes THEN l ELSE labels[n]]
  /\ nodes' = nodes + 1

\* The root is pushed: a parse begins, and what the last one left is forgotten.
Pushroot ==
  /\ phase \in {"idle", "done", "failed"}
  /\ kids' = [n \in {Root} |-> <<>>]
  /\ par' = [n \in {Root} |-> None]
  /\ lab' = [n \in {Root} |-> Node("ROOT")]
  /\ nodes' = 1 /\ current' = Root /\ depth' = 1 /\ held' = <<Root>>
  /\ phase' = "parsing"
  /\ UNCHANGED maxdepth

\* Mutant: the node is not counted.
Pushnode_uncounted(labels, l) ==
  /\ phase = "parsing" /\ ~TooDeep(depth)
  /\ NewNode(labels, current, l)
  /\ current' = nodes /\ held' = Append(held, nodes)
  /\ UNCHANGED <<depth, maxdepth, phase>>

Pushnode(labels, l) ==
  /\ phase = "parsing" /\ ~TooDeep(depth)
  /\ NewNode(labels, current, l)
  /\ current' = nodes /\ depth' = depth + 1 /\ held' = Append(held, nodes)
  /\ UNCHANGED <<maxdepth, phase>>

\* A node that the function that pushes it pops again.
Pushleaf(labels, l) ==
  /\ phase = "parsing" /\ ~TooDeep(depth)
  /\ NewNode(labels, current, l)
  /\ UNCHANGED <<current, depth, held, maxdepth, phase>>

\* Mutant: escaped text is always put into a node of its own.
Merge_into_plain(fl) ==
  LET n == Last_child(current) IN
  IF n # None /\ lab[n].type = "NORMAL_TEXT" /\ lab[n].fl = fl /\ fl = {} THEN n ELSE None

\* The text that text with the given flags is added to, or None.
Merge_into(fl) ==
  LET n == Last_child(current) IN
  IF n # None /\ lab[n].type = "NORMAL_TEXT" /\ lab[n].fl = fl THEN n ELSE None

\* Text joins that before it at any depth, only a new node is refused.
Addtext(fl, text) ==
  /\ phase = "parsing"
  /\ Merge_into(fl) # None
  /\ lab' = [lab EXCEPT ![Merge_into(fl)].text = @ \o text]
  /\ UNCHANGED <<kids, par, nodes, current, depth, held, maxdepth, phase>>

\* popnode(), with the assertions in it; n is what the caller pushed.
Popnode(n) ==
  /\ phase = "parsing"
  /\ IF depth > 0 /\ current = n
     THEN /\ depth' = depth - 1 /\ current' = par[current]
          /\ held' = SubSeq(held, 1, Len(held) - 1)
          /\ phase' = IF n # Root THEN "parsing" ELSE IF depth = 1 THEN "done" ELSE "aborted"
     ELSE phase' = "aborted" /\ UNCHANGED <<current, depth, held>>
  /\ UNCHANGED <<kids, par, lab, nodes, maxdepth>>

\* A node is given other flags, attributes or text.
Relabel(n, l) ==
  /\ phase = "parsing" /\ n \in DOMAIN lab
  /\ l.type = lab[n].type
  /\ lab' = [lab EXCEPT ![n] = l]
  /\ UNCHANGED <<kids, par, nodes, current, depth, held, maxdepth, phase>>

(***************************************************************************)
(* A paragraph, the last child of the current node, is made the last title *)
(* of a definition list: of d, the child before it, if that is one, which  *)
(* is then held as if it had been pushed, otherwise of a new node.         *)
(***************************************************************************)
Titled(labels, t) ==
  [labels EXCEPT ![t] = Label("DEFINITION_TITLE", @.text, @.fl, @.num, @.more)]

Retitle(d) ==
  LET t == Last_child(current)
      k == Len(kids[current])
  IN  /\ phase = "parsing"
      /\ t # None /\ lab[t].type = "PARAGRAPH"
      /\ k > 1 /\ d = kids[current][k - 1] /\ lab[d].type = "DEFINITION"
      /\ kids' = [n \in DOMAIN kids |-> IF n = current THEN SubSeq(kids[n], 1, k - 1)
                                        ELSE IF n = d THEN Append(kids[n], t) ELSE kids[n]]
      /\ par' = [n \in DOMAIN par |-> IF n = t THEN d ELSE par[n]]
      /\ lab' = Titled(lab, t)
      /\ current' = d /\ depth' = depth + 1 /\ held' = Append(held, d)
      /\ UNCHANGED <<nodes, maxdepth, phase>>

Entitle(l) ==
  LET t   == Last_child(current)
      k   == Len(kids[current])
      ids == DOMAIN lab \cup {nodes}
  IN  /\ phase = "parsing" /\ ~TooDeep(depth)
      /\ t # None /\ lab[t].type = "PARAGRAPH" /\ l.type = "DEFINITION"
      /\ kids' = [n \in ids |-> IF n = nodes THEN <<t>>
                                ELSE IF n = current THEN [kids[n] EXCEPT ![k] = nodes]
                                ELSE kids[n]]
      /\ par' = [n \in ids |-> IF n = nodes THEN current ELSE IF n = t THEN nodes ELSE par[n]]
      /\ lab' = [n \in ids |-> IF n = nodes THEN l ELSE Titled(lab, t)[n]]
      /\ nodes' = nodes + 1
      /\ current' = nodes /\ depth' = depth + 1 /\ held' = Append(held, nodes)
      /\ UNCHANGED <<maxdepth, phase>>

\* Mutant: the node is freed and stays in the list.
Removelast_listed(labels, p) ==
  LET t   == Last_child(p)
      ids == DOMAIN lab \ {t}
  IN  /\ phase = "parsing" /\ p \in DOMAIN lab /\ t # None /\ lab[t].type = "NORMAL_TEXT"
      /\ kids' = [n \in ids |-> kids[n]]
      /\ par' = [n \in ids |-> par[n]]
      /\ lab' = [n \in ids |-> labels[n]]
      /\ UNCHANGED <<nodes, current, depth, held, maxdepth, phase>>

\* lowdown_node_free() of the last child of p, a text with nothing below it.
Removelast(labels, p) ==
  LET t   == Last_child(p)
      ids == DOMAIN lab \ {t}
  IN  /\ phase = "parsing" /\ p \in DOMAIN lab /\ t # None /\ lab[t].type = "NORMAL_TEXT"
      /\ kids' = [n \in ids |-> IF n = p THEN SubSeq(kids[n], 1, Len(kids[n]) - 1) ELSE kids[n]]
      /\ par' = [n \in ids |-> par[n]]
      /\ lab' = [n \in ids |-> labels[n]]
      /\ UNCHANGED <<nodes, current, depth, held, maxdepth, phase>>

(***************************************************************************)
(* A metadata node of the current header goes away with its text (the k-th *)
(* child; 0 if there was none of the key), and one with a new value comes. *)
(***************************************************************************)
Metadata_ids(l, text) == IF text = <<>> THEN {nodes} ELSE {nodes, nodes + 1}

Putmeta(k, l, text) ==
  LET old  == IF k = 0 THEN {} ELSE {kids[current][k]}
      gone == old \cup UNION {{kids[o][j] : j \in DOMAIN kids[o]} : o \in old}
      kept == DOMAIN lab \ gone
      new  == Metadata_ids(l, text)
      left == IF k = 0 THEN kids[current]
              ELSE [j \in 1 .. Len(kids[current]) - 1 |->
                      kids[current][IF j < k THEN j ELSE j + 1]]
  IN  /\ phase = "parsing" /\ ~TooDeep(depth) /\ (text # <<>> => ~TooDeep(depth + 1))
      /\ k \in 0 .. Len(kids[current]) /\ l.type = "META"
      /\ k # 0 => lab[kids[current][k]].type = "META"
      /\ kids' = [n \in kept \cup new |->
                    IF n = current THEN Append(left, nodes)
                    ELSE IF n \in kept THEN kids[n]
                    ELSE IF n = nodes /\ text # <<>> THEN <<nodes + 1>> ELSE <<>>]
      /\ par' = [n \in kept \cup new |->
                   IF n \in kept THEN par[n] ELSE IF n = nodes THEN current ELSE nodes]
      /\ lab' = [n \in kept \cup new |->
                   IF n \in kept THEN lab[n] ELSE IF n = nodes THEN l ELSE Text({}, text)]
      /\ nodes' = nodes + (IF text = <<>> THEN 1 ELSE 2)
      /\ UNCHANGED <<current, depth, held, maxdepth, phase>>

\* A function fails, and so do all it was called from: the whole tree is freed.
Failed ==
  /\ phase = "parsing" /\ phase' = "failed"
  /\ kids' = Nothing /\ par' = Nothing /\ lab' = Nothing /\ held' = <<>>
  /\ UNCHANGED <<nodes, current, depth, maxdepth>>

\* An assertion fails.
Aborted ==
  /\ phase = "parsing" /\ phase' = "aborted"
  /\ UNCHANGED <<kids, par, lab, nodes, current, depth, held, maxdepth>>

(***************************************************************************)
(* Every change to the tree is one of the above.  What is not said here,   *)
(* such as the label of a new node, is what the next state says of it.     *)
(* The header is pushed right after the root, before the text is parsed.   *)
(***************************************************************************)
Sametypes ==
  \A n \in DOMAIN lab : n \in DOMAIN lab' /\ lab'[n].type = lab[n].type

Push ==
  /\ Sametypes /\ nodes \in DOMAIN lab'
  /\ lab'[nodes].type \notin Leaves \cup {"DEFINITION_TITLE", "ROOT"}
  /\ lab'[nodes].type = "DOC_HEADER" => current = Root /\ kids[Root] = <<>>
  /\ Pushnode(lab', lab'[nodes])

Leaf_node ==
  /\ Sametypes /\ nodes \in DOMAIN lab'
  /\ lab'[nodes].type \notin {"META", "DEFINITION_TITLE", "ROOT", "DOC_HEADER"}
  /\ Pushleaf(lab', lab'[nodes])

Change ==
  /\ phase = "parsing" /\ Sametypes /\ DOMAIN lab' = DOMAIN lab
  /\ UNCHANGED <<kids, par, nodes, current, depth, held, maxdepth, phase>>

Cut_last ==
  \E p \in DOMAIN lab :
    LET t == Last_child(p) IN
    /\ \A n \in DOMAIN lab \ {t} : n \in DOMAIN lab' /\ lab'[n].type = lab[n].type
    /\ Removelast(lab', p)

Enlist ==
  \/ \E d \in DOMAIN lab : Retitle(d)
  \/ nodes \in DOMAIN lab' /\ Entitle(lab'[nodes])

Meta ==
  /\ nodes \in DOMAIN lab'
  /\ \E k \in 0 .. Len(kids[current]) :
       Putmeta(k, lab'[nodes], IF nodes' = nodes + 2 THEN lab'[nodes + 1].text ELSE <<>>)

TNext ==
  \/ Pushroot \/ Push \/ Leaf_node \/ Change \/ Cut_last \/ Enlist
  \/ phase = "parsing" /\ Meta
  \/ \E n \in DOMAIN lab : Popnode(n)
  \/ Failed \/ Aborted

TSpec == TInit /\ [][TNext]_tvars

(***************************************************************************)
(* Properties.                                                             *)
(***************************************************************************)
Whole == phase \in {"parsing", "done", "aborted"}

\* The variables have their types, and identifiers are those handed out.
TTypeOK ==
  /\ phase \in Phases /\ maxdepth \in Maxdepths /\ nodes \in Nat /\ depth \in Nat
  /\ DOMAIN kids \subseteq 0 .. nodes - 1
  /\ DOMAIN par = DOMAIN kids /\ DOMAIN lab = DOMAIN kids
  /\ \A n \in DOMAIN kids : /\ kids[n] \in Seq(DOMAIN kids)
                            /\ par[n] \in DOMAIN kids \cup {None}
  /\ held \in Seq(DOMAIN kids)

(***************************************************************************)
(* popnode() always finds the node its caller pushed: the nodes held by    *)
(* the functions in progress are the path from the root to the current     *)
(* node, and the depth is their number (document.c:169-287).               *)
(***************************************************************************)
StackIsPath ==
  phase = "parsing" =>
    /\ held # <<>> /\ held[1] = Root /\ current = held[Len(held)]
    /\ depth = Len(held)
    /\ \A k \in 1 .. Len(held) - 1 : par[held[k + 1]] = held[k]

(***************************************************************************)
(* Text and metadata nodes are never current when another function pushes, *)
(* so that a text has no children and a metadata node has but its text:    *)
(* lowdown_node_free() of one frees no node that is still to be rendered.  *)
(***************************************************************************)
LeavesBare ==
  /\ \A n \in DOMAIN kids : lab[n].type = "NORMAL_TEXT" => kids[n] = <<>>
  /\ \A n \in DOMAIN kids : lab[n].type = "META" =>
       \A k \in DOMAIN kids[n] : lab[kids[n][k]].type = "NORMAL_TEXT"
  /\ \A k \in DOMAIN held : lab[held[k]].type \notin Leaves

(***************************************************************************)
(* Parents and children agree, no node has two parents or comes twice, and *)
(* going up from a node ends at the root: a parent is older than its       *)
(* child, but for a definition list, which is made after its first title   *)
(* (document.c:3217).                                                      *)
(***************************************************************************)
Linked ==
  /\ \A n \in DOMAIN kids : \A k \in DOMAIN kids[n] :
       kids[n][k] \in DOMAIN par /\ par[kids[n][k]] = n
  /\ \A n \in DOMAIN kids : \A j, k \in DOMAIN kids[n] : kids[n][j] = kids[n][k] => j = k
  /\ \A n \in DOMAIN kids : par[n] = None <=> n = Root
  /\ \A n \in DOMAIN kids : n # Root => \E k \in DOMAIN kids[par[n]] : kids[par[n]][k] = n

Older(n) ==
  IF lab[n].type = "DEFINITION_TITLE"
  THEN lab[par[n]].type = "DEFINITION" /\ par[par[n]] < n
  ELSE par[n] < n

TreeWhole ==
  /\ Whole => /\ Root \in DOMAIN kids /\ lab[Root].type = "ROOT"
              /\ Linked
              /\ \A n \in DOMAIN kids : Older(n)
  /\ LeavesBare
===============================================================================
