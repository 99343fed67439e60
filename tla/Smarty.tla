-------------------------------- MODULE Smarty --------------------------------
(***************************************************************************)
(* smarty() of src/library/smartypants.c: the tree is walked in document   *)
(* order, and what a text has of quotes, dashes and the like becomes a     *)
(* node of its own, which splits the text.  A text is a sequence of        *)
(* characters.  The identifiers of the new nodes are left out: a node      *)
(* stands for its address.                                                 *)
(***************************************************************************)
EXTENDS Integers, Sequences

LOCAL INSTANCE FiniteSetsExt
LOCAL INSTANCE SequencesExt
LOCAL INSTANCE TLC

VARIABLES
  kids,         \* the children of each node, in order
  par,          \* the parent of each node, None of the root
  lab,          \* the type of each node and what it holds
  walk,         \* the calls of smarty_block() and smarty_span() in progress,
                \* the innermost first: the node, and its child to visit
  left_wb,      \* of each block being walked, the innermost first
  sphase        \* "idle", "walking", "done" or "failed"

svars == <<kids, par, lab, walk, left_wb, sphase>>

None == -1

Blocks == {
  "BLOCKQUOTE", "DEFINITION", "DEFINITION_TITLE", "DEFINITION_DATA", "HEADER", "HRULE",
  "LIST", "LISTITEM", "PARAGRAPH", "TABLE_BLOCK", "TABLE_HEADER", "TABLE_BODY",
  "TABLE_ROW", "TABLE_CELL", "FOOTNOTE", "DOC_HEADER"}
Spans == {
  "DOUBLE_EMPHASIS", "EMPHASIS", "HIGHLIGHT", "IMAGE", "LINK", "TRIPLE_EMPHASIS",
  "STRIKETHROUGH", "SUBSCRIPT", "SUPERSCRIPT"}
Opaque == {
  "BLOCKCODE", "BLOCKHTML", "LINK_AUTO", "CODESPAN", "MATH_BLOCK", "RAW_HTML", "ENTITY", "META"}
Texts == {"NORMAL_TEXT", "LINEBREAK"}

Is_space(c)    == c \in {" ", "\n", "\t"}
Smarty_is_wb_l(c) == Is_space(c) \/ c \in {"(", "["}
Smarty_is_wb_r(c) ==
  Is_space(c) \/ c \in {"(", ")", "[", "]", ".", ",", "-", "\"", "'", "/", "*", "!"}

(***************************************************************************)
(* syms, the quotes and syms2, in the order they are tried: what is        *)
(* replaced, by which entity, where left_wb is, and whether a word has to  *)
(* end on the right.                                                       *)
(***************************************************************************)
Sym(key, ent, left, right) == [key |-> key, ent |-> ent, left |-> left, right |-> right]
Syms == <<
  Sym(<<"(", "c", ")">>, "&copy;", BOOLEAN, FALSE),
  Sym(<<"(", "C", ")">>, "&copy;", BOOLEAN, FALSE),
  Sym(<<"(", "r", ")">>, "&reg;", BOOLEAN, FALSE),
  Sym(<<"(", "R", ")">>, "&reg;", BOOLEAN, FALSE),
  Sym(<<"(", "t", "m", ")">>, "&trade;", BOOLEAN, FALSE),
  Sym(<<"(", "T", "M", ")">>, "&trade;", BOOLEAN, FALSE),
  Sym(<<"(", "s", "m", ")">>, "&#8480;", BOOLEAN, FALSE),
  Sym(<<"(", "S", "M", ")">>, "&#8480;", BOOLEAN, FALSE),
  Sym(<<".", ".", ".">>, "&hellip;", BOOLEAN, FALSE),
  Sym(<<".", " ", ".", " ", ".">>, "&hellip;", BOOLEAN, FALSE),
  Sym(<<"-", "-", "-">>, "&mdash;", BOOLEAN, FALSE),
  Sym(<<"-", "-">>, "&ndash;", BOOLEAN, FALSE),
  Sym(<<"\"">>, "&ldquo;", {TRUE}, FALSE),
  Sym(<<"\"">>, "&rdquo;", {FALSE}, TRUE),
  Sym(<<"'">>, "&lsquo;", {TRUE}, FALSE),
  Sym(<<"'">>, "&rsquo;", {FALSE}, FALSE),
  Sym(<<"1", "/", "4", "t", "h">>, "&frac14;", {TRUE}, TRUE),
  Sym(<<"1", "/", "4">>, "&frac14;", {TRUE}, TRUE),
  Sym(<<"3", "/", "4", "t", "h", "s">>, "&frac34;", {TRUE}, TRUE),
  Sym(<<"3", "/", "4", "t", "h">>, "&frac34;", {TRUE}, TRUE),
  Sym(<<"3", "/", "4">>, "&frac34;", {TRUE}, TRUE),
  Sym(<<"1", "/", "2">>, "&frac12;", {TRUE}, TRUE)>>

Has_at(text, i, key) == i + Len(key) - 1 <= Len(text) /\ SubSeq(text, i, i + Len(key) - 1) = key

\* The next node among the children of n's parent, or None.
Next_of(n) ==
  IF par[n] = None THEN None
  ELSE LET i == CHOOSE j \in DOMAIN kids[par[n]] : kids[par[n]][j] = n
       IN  IF i = Len(kids[par[n]]) THEN None ELSE kids[par[n]][i + 1]

(***************************************************************************)
(* smarty_right_wb_r(): does a word end where a node begins ("at"), or     *)
(* within it after its own text ("in")?  The first node that tells, down   *)
(* first and then back up ("past").                                        *)
(***************************************************************************)
Smarty_right_wb_r(node, from) ==
  LET f[n \in DOMAIN par, s \in {"at", "in", "past"}] ==
        CASE s = "past" /\ Next_of(n) # None -> f[Next_of(n), "at"]
          [] s = "past" /\ Next_of(n) = None -> par[n] = None \/ f[par[n], "past"]
          [] s # "past" /\ lab[n].type \in Blocks -> TRUE
          [] s # "past" /\ lab[n].type \in Opaque -> FALSE
          [] s = "at" /\ lab[n].type = "LINEBREAK" -> TRUE
          [] s = "at" /\ lab[n].type = "NORMAL_TEXT" /\ lab[n].text # <<>> ->
               Smarty_is_wb_r(lab[n].text[1])
          [] OTHER -> IF kids[n] # <<>> THEN f[Head(kids[n]), "at"] ELSE f[n, "past"]
  IN  f[node, from]

Smarty_right_wb(n, pos) ==
  IF pos <= Len(lab[n].text) THEN Smarty_is_wb_r(lab[n].text[pos])
  ELSE Smarty_right_wb_r(n, "in")

\* The place of left_wb when the loop of smarty_text() is at i.
Left_at(text, i) == IF i = 1 THEN Head(left_wb) ELSE Smarty_is_wb_l(text[i - 1])

\* The rules that apply at the i-th character of the text of n.
Rules(n, i) ==
  LET text == lab[n].text
  IN  {k \in DOMAIN Syms :
         /\ Has_at(text, i, Syms[k].key)
         /\ Left_at(text, i) \in Syms[k].left
         /\ Syms[k].right => Smarty_right_wb(n, i + Len(Syms[k].key))}

\* Where the first entity of the text of n goes, or 0.
Place(n) ==
  LET at == {i \in DOMAIN lab[n].text : Rules(n, i) # {}}
  IN  IF at = {} THEN 0 ELSE Min(at)

(***************************************************************************)
(* smarty_entity(): after n comes the entity and, if anything is left of   *)
(* the text, a node for that.  n keeps what is before, even if empty.      *)
(***************************************************************************)
Fresh == Max(DOMAIN par) + 1
Inserted(n, new) ==
  LET f[k \in 0 .. Len(kids[par[n]])] ==
        IF k = 0 THEN <<>>
        ELSE f[k - 1] \o <<kids[par[n]][k]>> \o IF kids[par[n]][k] = n THEN new ELSE <<>>
  IN  f[Len(kids[par[n]])]
Insert_after(n, before, labels) ==
  LET new == [k \in DOMAIN labels |-> Fresh + k - 1]
  IN  /\ kids' = [kids EXCEPT ![par[n]] = Inserted(n, new)] @@ [m \in ToSet(new) |-> <<>>]
      /\ par' = par @@ [m \in ToSet(new) |-> par[n]]
      /\ lab' = [lab EXCEPT ![n].text = before]
                  @@ [m \in ToSet(new) |-> labels[m - Fresh + 1]]

\* A node that calloc() made: what is not set is none.
Calloced(n, type, text) == [lab[n] EXCEPT !.type = type, !.text = text, !.fl = {}, !.chng = "NONE"]
Left_over(n, end) == SubSeq(lab[n].text, end, Len(lab[n].text))

Smarty_entity(n, start, end, ent) ==
  Insert_after(n, SubSeq(lab[n].text, 1, start - 1),
    <<Calloced(n, "ENTITY", <<ent>>)>>
      \o IF Left_over(n, end) = <<>> THEN <<>> ELSE <<Calloced(n, "NORMAL_TEXT", Left_over(n, end))>>)

Walked == Head(walk)
At(types) == sphase = "walking" /\ Walked.at # None /\ lab[Walked.at].type \in types
Go_to(n)  == walk' = <<[Walked EXCEPT !.at = n]>> \o Tail(walk)
Untouched == UNCHANGED <<kids, par, lab>>

\* The start of a walk of the children of n.
Start_at(n) == [node |-> n, at |-> IF kids[n] = <<>> THEN None ELSE Head(kids[n])]

Smarty_idle == walk = <<>> /\ left_wb = <<>> /\ sphase = "idle"

\* smarty(n, maxn, type): without a tree, nothing.
Smarty ==
  /\ sphase = "idle"
  /\ walk' = <<Start_at(0)>> /\ left_wb' = <<TRUE>> /\ sphase' = "walking"
  /\ Untouched

Smarty_linebreak ==
  /\ At({"LINEBREAK"})
  /\ Go_to(Next_of(Walked.at))
  /\ left_wb' = <<TRUE>> \o Tail(left_wb)
  /\ Untouched /\ UNCHANGED sphase

\* A text that was escaped leaves left_wb as it is.
Smarty_text_escaped ==
  /\ At({"NORMAL_TEXT"}) /\ "ESCAPED" \in lab[Walked.at].fl
  /\ Go_to(Next_of(Walked.at))
  /\ Untouched /\ UNCHANGED <<left_wb, sphase>>

Smarty_text_plain ==
  LET n == Walked.at
      text == lab[n].text
  IN  /\ At({"NORMAL_TEXT"}) /\ "ESCAPED" \notin lab[n].fl /\ Place(n) = 0
      /\ Go_to(Next_of(n))
      /\ left_wb' = <<Left_at(text, Len(text) + 1)>> \o Tail(left_wb)
      /\ Untouched /\ UNCHANGED sphase

(***************************************************************************)
(* The first entity of a text.  The walk passes over an opening quote, and *)
(* a word may begin after it; any other entity is visited next.            *)
(***************************************************************************)
Smarty_inserts(passed) ==
  LET n == Walked.at
      i == Place(n)
      sym == Syms[Min(Rules(n, i))]
  IN  /\ At({"NORMAL_TEXT"}) /\ "ESCAPED" \notin lab[n].fl /\ i # 0
      /\ Smarty_entity(n, i, i + Len(sym.key), sym.ent)
      /\ Go_to(IF sym.ent \notin passed THEN Fresh
               ELSE IF Fresh + 1 \in DOMAIN par' THEN Fresh + 1 ELSE Next_of(n))
      /\ left_wb' = <<Left_at(lab[n].text, i)>> \o Tail(left_wb)
      /\ UNCHANGED sphase

\* Mutant: the walk visits an opening quote, too.
Smarty_text_entity_visits == Smarty_inserts({})

Smarty_text_entity == Smarty_inserts({"&ldquo;", "&lsquo;"})

\* A span shares left_wb with the block around it.
Smarty_span ==
  /\ At(Spans)
  /\ walk' = <<Start_at(Walked.at)>> \o <<[Walked EXCEPT !.at = Next_of(Walked.at)]>> \o Tail(walk)
  /\ Untouched /\ UNCHANGED <<left_wb, sphase>>

Smarty_block ==
  /\ At(Blocks)
  /\ walk' = <<Start_at(Walked.at)>> \o <<[Walked EXCEPT !.at = Next_of(Walked.at)]>> \o Tail(walk)
  /\ left_wb' = <<TRUE>> \o left_wb
  /\ Untouched /\ UNCHANGED sphase

Smarty_opaque ==
  /\ At(Opaque)
  /\ Go_to(Next_of(Walked.at))
  /\ left_wb' = <<FALSE>> \o Tail(left_wb)
  /\ Untouched /\ UNCHANGED sphase

Smarty_return ==
  /\ sphase = "walking" /\ Walked.at = None
  /\ walk' = Tail(walk)
  /\ left_wb' = IF lab[Walked.node].type \in Spans THEN left_wb ELSE Tail(left_wb)
  /\ sphase' = IF walk' = <<>> THEN "done" ELSE sphase
  /\ Untouched

(***************************************************************************)
(* Memory runs out in smarty_entity(): before there is an entity, without  *)
(* its text, without the node for the rest or without its text.  n keeps   *)
(* its own text.                                                           *)
(***************************************************************************)
Smarty_fails ==
  LET n == Walked.at
      i == Place(n)
      sym == Syms[Min(Rules(n, i))]
      entity == Calloced(n, "ENTITY", <<sym.ent>>)
      half(labels) == Insert_after(n, lab[n].text, labels)
  IN  /\ At({"NORMAL_TEXT"}) /\ "ESCAPED" \notin lab[n].fl /\ i # 0
      /\ sphase' = "failed"
      /\ \/ Untouched
         \/ half(<<Calloced(n, "ENTITY", <<>>)>>)
         \/ /\ Left_over(n, i + Len(sym.key)) # <<>>
            /\ half(<<entity>>) \/ half(<<entity, Calloced(n, "NORMAL_TEXT", <<>>)>>)
      /\ UNCHANGED <<walk, left_wb>>

SNext ==
  \/ Smarty_linebreak \/ Smarty_text_escaped \/ Smarty_text_plain \/ Smarty_text_entity
  \/ Smarty_span \/ Smarty_block \/ Smarty_opaque \/ Smarty_return
===============================================================================
