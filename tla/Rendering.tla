------------------------------- MODULE Rendering -------------------------------
(***************************************************************************)
(* What the library promises of what it returns.                           *)
(***************************************************************************)
EXTENDS Library, Typography, Meaning

LOCAL INSTANCE FiniteSets
LOCAL INSTANCE SequencesExt

Healthy == fault # "had"

(***************************************************************************)
(* smarty() visits texts one at a time, splits them as it goes and finds   *)
(* what is left and right of a quote in other nodes, above and below: what *)
(* becomes an entity is what a single pass over the document would make    *)
(* one (smartypants.c:337).                                                *)
(***************************************************************************)
TextsEducated ==
  pc = "ob" /\ session.smarty /\ Healthy =>
    Shown(Outline(kids, lab)) = Educated(Outline(session.tree.kids, session.tree.lab))

(***************************************************************************)
(* A diff tells of each text whether it is inserted or deleted             *)
(* (man/lowdown.3:796), and the texts and entities that a text is split    *)
(* into are where it was.                                                  *)
(***************************************************************************)
Split_from(n) ==
  LET all  == kids[par[n]]
      here == CHOOSE k \in DOMAIN all : all[k] = n
      old  == {k \in 1 .. here : all[k] \in DOMAIN session.tree.par}
  IN  all[CHOOSE k \in old : \A j \in old : j <= k]

ChangesTracked ==
  pc = "ob" => \A n \in DOMAIN par \ DOMAIN session.tree.par : lab[n].chng = lab[Split_from(n)].chng

(***************************************************************************)
(* The operations that a template is read into and their execution, with   *)
(* the blocks and the chain of an else, mean what the template says        *)
(* (template.c:235, 1150).                                                 *)
(***************************************************************************)
TemplateMeans ==
  pc = "html" /\ hphase = "template" /\ tphase = "done" /\ Healthy =>
    \E wild \in BOOLEAN : tob = Means(given.body, given.mq, wild)

(***************************************************************************)
(* Elements are closed in the order they are opened, with the marks of     *)
(* changes around them, in the document and in all that is on its way      *)
(* there (html.c:1381): unless the document has HTML of its own, or a      *)
(* callout is cut in the middle of an element (html.c:275).                *)
(***************************************************************************)
Closes(open, token) ==
  CASE token.k = "open" -> Append(open, token.e)
    [] token.k = "close" ->
         IF open # <<>> /\ open[Len(open)] = token.e THEN SubSeq(open, 1, Len(open) - 1)
         ELSE <<"never">>
    [] OTHER -> open

Balanced(tokens) ==
  \/ \E k \in DOMAIN tokens : tokens[k].k \in {"raw", "torn"}
  \/ FoldLeft(Closes, <<>>, tokens) = <<>>

TagsNested ==
  pc = "html" /\ Healthy =>
    /\ Balanced(hob)
    /\ \A k \in DOMAIN rndrs : Balanced(rndrs[k].tmp)
    /\ \A k \in DOMAIN foots : Balanced(foots[k])

(***************************************************************************)
(* Each footnote of the tree is referred to once, in the order of the      *)
(* document, and what it holds is where the reference leads (html.c:1017,  *)
(* 1074): its number is taken when its content is done, and the contents   *)
(* are written at the end.                                                 *)
(***************************************************************************)
Document_order ==
  LET f[n \in DOMAIN par] == <<n>> \o FlattenSeq([k \in DOMAIN kids[n] |-> f[kids[n][k]]])
  IN  f[0]
Footnotes == SelectSeq(Document_order, LAMBDA n : lab[n].type = "FOOTNOTE")

Texts_of(n) ==
  LET f[m \in DOMAIN par] ==
        (IF lab[m].type = "NORMAL_TEXT" THEN {Escape_html(lab[m].text)[k] : k \in DOMAIN lab[m].text}
         ELSE {}) \cup UNION {f[kids[m][k]] : k \in DOMAIN kids[m]}
  IN  f[n]

\* Where an element with the identifier is.
Places(id) == {k \in DOMAIN hob : \E j \in DOMAIN hob[k].at : hob[k].at[j] = <<"id", id>>}
Refs(k) == Places(<<"fnref", ToString(k)>>)
Defs(k) == Places(<<"fn", ToString(k)>>)

NotesResolve ==
  pc = "give" /\ session.html /\ Healthy /\ ~hasTempl =>
    \A k \in DOMAIN Footnotes :
      /\ Cardinality(Refs(k)) = 1 /\ Cardinality(Defs(k)) = 1
      /\ k > 1 => \A r \in Refs(k - 1), s \in Refs(k) : r < s
      /\ \A d \in Defs(k) :
           LET end == Min(UNION {Defs(j) : j \in k + 1 .. Len(Footnotes)} \cup {Len(hob) + 1})
           IN  Texts_of(Footnotes[k]) \subseteq {hob[j].e : j \in d .. end - 1}

(***************************************************************************)
(* No two headers have the same identifier, however many have the same     *)
(* text, or look as if they were numbered (buffer.c:441): if none of them  *)
(* has one from the document, which is not kept with the others.           *)
(***************************************************************************)
Headings == {"h1", "h2", "h3", "h4", "h5", "h6"}
Ids_of_headers(tokens) ==
  LET ids == {k \in DOMAIN tokens : tokens[k].k = "open" /\ tokens[k].e \in Headings /\ tokens[k].at # <<>>}
  IN  [k \in ids |-> tokens[k].at[1]]

AnchorsUnique ==
  pc = "give" /\ session.html /\ Healthy
      /\ (\A n \in DOMAIN lab : lab[n].type = "HEADER" => ~Id_given(n)) =>
    LET ids == Ids_of_headers(hob) IN \A j, k \in DOMAIN ids : j # k => ids[j] # ids[k]

(***************************************************************************)
(* What was allocated is freed whenever a function returns, whatever       *)
(* failed before (library.c:141, 190): but for the data, which is the      *)
(* caller's if the function succeeds.                                      *)
(***************************************************************************)
CleansUp ==
  pc = "returned" =>
    /\ live = IF rc = 1 THEN {"data"} ELSE {}
    /\ foots = <<>> /\ metaq = <<>> /\ headers_used = <<>> /\ ops = <<>>

(***************************************************************************)
(* Every call returns, or the program is dead: reading ends with the file  *)
(* or an error, the walk of smarty() with the texts it makes, the calls of *)
(* rndr() and op_exec() with their nodes.                                  *)
(***************************************************************************)
Delivers == pc # "writer" ~> pc \in {"returned", "dead"}
===============================================================================
