------------------------------ MODULE Typography ------------------------------
(***************************************************************************)
(* What smart typography promises, as a single pass from left to right     *)
(* over the characters of a document, with no tree and no walk: which      *)
(* characters become entities depends on the character before and on the   *)
(* first thing after, whatever nodes they are in.                          *)
(***************************************************************************)
EXTENDS Smarty

LOCAL INSTANCE SequencesExt

(***************************************************************************)
(* The outline of a tree: its characters in order, those that were escaped *)
(* apart, what is opaque, line breaks, and where blocks begin and end.     *)
(***************************************************************************)
Item(kind, c, node) == [kind |-> kind, c |-> c, node |-> node]

Outline(children, label) ==
  LET f[n \in DOMAIN label] ==
        LET inner == FlattenSeq([k \in DOMAIN children[n] |-> f[children[n][k]]])
            text  == label[n].text
        IN  CASE label[n].type = "NORMAL_TEXT" ->
                   [k \in DOMAIN text |->
                      Item(IF "ESCAPED" \in label[n].fl THEN "kept" ELSE "char", <<text[k]>>, n)]
              [] label[n].type = "LINEBREAK" -> <<Item("break", <<>>, n)>>
              [] label[n].type \in Opaque    -> <<Item("opaque", text, n)>>
              [] label[n].type \in Blocks    ->
                   <<Item("enter", <<>>, n)>> \o inner \o <<Item("exit", <<>>, n)>>
              [] OTHER -> inner
  IN  f[0]

\* An outline without the nodes that its items are from.
Shown(outline) == [k \in DOMAIN outline |-> [kind |-> outline[k].kind, c |-> outline[k].c]]

\* Does a word end before the i-th item?
Ends_before(outline, i) ==
  LET f[k \in Nat] ==
        IF k > Len(outline) THEN TRUE
        ELSE CASE outline[k].kind \in {"char", "kept"} -> Smarty_is_wb_r(outline[k].c[1])
               [] outline[k].kind = "opaque" -> FALSE
               [] outline[k].kind = "exit" -> f[k + 1]
               [] OTHER -> TRUE
  IN  f[i]

\* The rules whose key is in one text from the i-th item on, and that apply.
Applying(outline, i, left) ==
  {k \in DOMAIN Syms :
     /\ i + Len(Syms[k].key) - 1 <= Len(outline)
     /\ \A j \in DOMAIN Syms[k].key :
          outline[i + j - 1] = Item("char", <<Syms[k].key[j]>>, outline[i].node)
     /\ left \in Syms[k].left
     /\ Syms[k].right => Ends_before(outline, i + Len(Syms[k].key))}

Opening == {"&ldquo;", "&lsquo;"}

(***************************************************************************)
(* The outline with entities.  lefts tells of each block around whether a  *)
(* word may begin here, the innermost first.  It may at the beginning of a *)
(* block, after a line break, after some characters and after an opening   *)
(* quote; not after any other entity or what is opaque.                    *)
(***************************************************************************)
Educated(outline) ==
  LET applied(i, left) == Applying(outline, i, left)
      f[i \in Nat, lefts \in Seq(BOOLEAN)] ==
        IF i > Len(outline) THEN <<>>
        ELSE LET item == outline[i]
                 goes_on(left) == <<[kind |-> item.kind, c |-> item.c]>> \o f[i + 1, <<left>> \o Tail(lefts)]
             IN  CASE item.kind = "enter" ->
                        <<[kind |-> "enter", c |-> <<>>]>> \o f[i + 1, <<TRUE>> \o lefts]
                   [] item.kind = "exit" ->
                        <<[kind |-> "exit", c |-> <<>>]>> \o f[i + 1, Tail(lefts)]
                   [] item.kind = "break"  -> goes_on(TRUE)
                   [] item.kind = "opaque" -> goes_on(FALSE)
                   [] item.kind = "kept"   -> goes_on(Head(lefts))
                   [] item.kind = "char" /\ applied(i, Head(lefts)) = {} ->
                        goes_on(Smarty_is_wb_l(item.c[1]))
                   [] OTHER ->
                        LET sym == Syms[CHOOSE k \in applied(i, Head(lefts)) :
                                          \A j \in applied(i, Head(lefts)) : k <= j]
                        IN  <<[kind |-> "opaque", c |-> <<sym.ent>>]>>
                              \o f[i + Len(sym.key), <<sym.ent \in Opening>> \o Tail(lefts)]
  IN  f[1, <<TRUE>>]
===============================================================================
