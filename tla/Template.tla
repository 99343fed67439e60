------------------------------- MODULE Template -------------------------------
(***************************************************************************)
(* lowdown_template() of src/format/template.c: the template is read into  *)
(* a tree of operations, which is then executed.                           *)
(***************************************************************************)
EXTENDS TemplateExpr

LOCAL INSTANCE FiniteSets
LOCAL INSTANCE FiniteSetsExt
LOCAL INSTANCE SequencesExt

VARIABLES
  templ,        \* the template, a sequence of symbols
  given,        \* [body, mq]: the content and the metadata
  cp,           \* how far the template is read
  ops,          \* the operations in the order they are allocated: type, expr,
                \* parent and chain, 0 for NULL
  cop,          \* the operation whose block is being read
  frames,       \* the calls of op_exec() in progress, the innermost first
  tob,          \* what is written
  tphase        \* "idle", "reading", "running", "done", "failed" or "aborted"

evars == <<templ, given, cp, ops, cop, frames, tob, tphase>>

Op(type, expr, parent) == [type |-> type, expr |-> expr, parent |-> parent, chain |-> 0]

\* The children of an operation, in order.
Children(o) == SelectSeq([p \in DOMAIN ops |-> p], LAMBDA p : ops[p].parent = o)

\* Before a template is given.
Idle ==
  /\ templ = <<>> /\ given = [body |-> <<>>, mq |-> <<>>]
  /\ cp = 1 /\ ops = <<>> /\ cop = 0 /\ frames = <<>> /\ tob = <<>>
  /\ tphase = "idle"

\* lowdown_template(templ, content, tob, mq), up to its loop.
Lowdown_template(t, content, mq) ==
  /\ tphase = "idle"
  /\ templ' = t /\ given' = [body |-> content, mq |-> mq]
  /\ ops' = <<Op("ROOT", <<>>, 0)>> /\ cop' = 1
  /\ tphase' = "reading"
  /\ UNCHANGED <<cp, frames, tob>>

\* The place of the next "$" of the template, or one past its end.
Dollar == Min({k \in cp .. Len(templ) : templ[k] = "$"} \cup {Len(templ) + 1})

(***************************************************************************)
(* The statement that begins at the dollar d, if it is closed: where its   *)
(* text begins, and where its closing delimiter is, which quotes hide.     *)
(***************************************************************************)
Braced(d)  == d < Len(templ) /\ templ[d + 1] = "{"
Inner(d)   == IF Braced(d) THEN d + 2 ELSE d + 1
Quoted(d, k) ==
  Cardinality({j \in Inner(d) .. k - 1 : templ[j] = "\"" /\ templ[j - 1] # "\\"}) % 2 = 1
Closing(d) ==
  Min({k \in Inner(d) .. Len(templ) :
         templ[k] = (IF Braced(d) THEN "}" ELSE "$") /\ ~Quoted(d, k)} \cup {Len(templ) + 1})

\* Two hyphens before the closing delimiter, after something else.
Igneoln(d) ==
  /\ Closing(d) > Inner(d) + 2
  /\ templ[Closing(d) - 1] = "-" /\ templ[Closing(d) - 2] = "-"

\* The text of the statement, without the hyphens and the spaces around it.
Left_end(d) ==
  Min({k \in Inner(d) .. Closing(d) - 1 : templ[k] \notin {" ", "\t"}} \cup {Closing(d)})
Statement(d) ==
  LET last == Closing(d) - (IF Igneoln(d) THEN 3 ELSE 1)
      solid == {k \in Left_end(d) .. last : templ[k] \notin {" ", "\t"}}
  IN  IF solid = {} THEN <<>> ELSE SubSeq(templ, Left_end(d), Max(solid))

\* Where reading goes on after it: with the hyphens, on the next line.
After(d) ==
  IF ~Igneoln(d) THEN Closing(d) + 1
  ELSE Min({k \in Closing(d) + 1 .. Len(templ) : templ[k] = "\n"} \cup {Len(templ)}) + 1

Reading  == tphase = "reading"
IsClosed == Dollar <= Len(templ) /\ Closing(Dollar) <= Len(templ)
Now(s)   == Reading /\ IsClosed /\ Statement(Dollar) = s

\* A statement with an argument: its name, parentheses and what is in them.
Calls(s, name) == Len(s) > 2 /\ s[1] = name /\ s[2] = "(" /\ s[Len(s)] = ")"
Argument(s)    == SubSeq(s, 3, Len(s) - 1)

\* The operations with the text before the statement queued, even if empty.
With_text == Append(ops, Op("STR", SubSeq(templ, cp, Dollar - 1), cop))

Queue(more, block) ==
  /\ ops' = With_text \o more
  /\ cop' = block
  /\ UNCHANGED <<templ, given, frames, tob, tphase>>

(***************************************************************************)
(* A statement of nothing but spaces is a dollar.  What is read next is    *)
(* the symbol after where its text would begin: with hyphens, that is not  *)
(* its end.                                                                *)
(***************************************************************************)
Op_dollar ==
  /\ Now(<<>>)
  /\ Queue(<<Op("STR", <<"$">>, cop)>>, cop)
  /\ cp' = Left_end(Dollar) + 1

Op_queue_block(name, type) ==
  /\ Reading /\ IsClosed /\ Calls(Statement(Dollar), name)
  /\ Queue(<<Op(type, Argument(Statement(Dollar)), cop)>>, Len(ops) + 2)
  /\ cp' = After(Dollar)

Op_queue_ifdef == Op_queue_block("ifdef", "IFDEF")
Op_queue_for   == Op_queue_block("for", "FOR")

\* Mutant: an else stays in the block of its ifdef.
Op_queue_else_inside ==
  /\ Now(<<"else">>)
  /\ Queue(<<Op("ELSE", <<>>, cop)>>, Len(ops) + 2)
  /\ cp' = After(Dollar)

(***************************************************************************)
(* An else ends the block of an ifdef and is chained to it; in any other   *)
(* block it begins one that nothing is chained to.                         *)
(***************************************************************************)
Op_queue_else ==
  /\ Now(<<"else">>)
  /\ LET new == Len(ops) + 2
     IN  IF ops[cop].type = "IFDEF"
         THEN /\ ops' = [Append(With_text, Op("ELSE", <<>>, ops[cop].parent))
                           EXCEPT ![cop].chain = new]
              /\ cop' = new
              /\ UNCHANGED <<templ, given, frames, tob, tphase>>
         ELSE Queue(<<Op("ELSE", <<>>, cop)>>, new)
  /\ cp' = After(Dollar)

\* The end of a block of one of the types; in any other block, nothing.
Op_queue_end(name, types) ==
  /\ Now(<<name>>)
  /\ Queue(<<>>, IF ops[cop].type \in types THEN ops[cop].parent ELSE cop)
  /\ cp' = After(Dollar)

Op_queue_endif  == Op_queue_end("endif", {"IFDEF", "ELSE"})
Op_queue_endfor == Op_queue_end("endfor", {"FOR"})

Op_queue_expr ==
  /\ Reading /\ IsClosed
  /\ LET s == Statement(Dollar)
     IN  /\ s \notin {<<>>, <<"else">>, <<"endif">>, <<"endfor">>}
         /\ ~Calls(s, "ifdef") /\ ~Calls(s, "for")
         /\ Queue(<<Op("EXPR", s, cop)>>, cop)
  /\ cp' = After(Dollar)

\* A call of op_exec() for the children of an operation; more are the values
\* for which it is to be called again.
Call(o, this, more) == [op |-> o, left |-> Children(o), this |-> this, more |-> more]

(***************************************************************************)
(* No statement is left, or one that is not closed: the text up to that is *)
(* queued, then the rest of the template from its dollar.  Execution       *)
(* begins, with the operations as they are then.                           *)
(***************************************************************************)
Op_exec_root ==
  /\ Reading /\ ~IsClosed
  /\ LET rest == SubSeq(templ, Dollar, Len(templ))
         all == IF rest # <<>> THEN Append(With_text, Op("STR", rest, cop))
                ELSE IF cp > Len(templ) THEN ops ELSE With_text
     IN  /\ ops' = all
         /\ frames' = <<[op |-> 1, this |-> <<>>, more |-> <<>>,
                         left |-> SelectSeq([p \in DOMAIN all |-> p],
                                    LAMBDA p : all[p].parent = 1)]>>
  /\ cp' = Len(templ) + 1
  /\ tphase' = "running"
  /\ UNCHANGED <<templ, given, cop, tob>>

Frame   == Head(frames)
Current == ops[Head(Frame.left)]
Running(type) == tphase = "running" /\ Frame.left # <<>> /\ Current.type = type

\* The innermost call goes on to its next child, after the calls of new.
Return_to(new) == frames' = new \o <<[Frame EXCEPT !.left = Tail(@)]>> \o Tail(frames)

Env(wild) == [body |-> given.body, mq |-> given.mq, this |-> Frame.this, wild |-> wild]
Value(wild) == Op_eval(Current.expr, Env(wild))

Running_on == UNCHANGED <<templ, given, cp, ops, cop>>

Op_exec_str ==
  /\ Running("STR")
  /\ tob' = tob \o Current.expr
  /\ Return_to(<<>>)
  /\ Running_on /\ UNCHANGED tphase

\* With the list q for its expression.
Put_list(q) ==
  /\ q \notin {Null, Aborted}
  /\ tob' = tob \o Joined(q)
  /\ Return_to(<<>>)
  /\ UNCHANGED tphase

Branch(q) ==
  /\ q \notin {Null, Aborted}
  /\ Return_to(IF q # <<>> THEN <<Call(Head(Frame.left), Frame.this, <<>>)>>
               ELSE IF Current.chain # 0 THEN <<Call(Current.chain, Frame.this, <<>>)>>
               ELSE <<>>)
  /\ UNCHANGED <<tob, tphase>>

Loop(q) ==
  /\ q \notin {Null, Aborted}
  /\ Return_to(IF q = <<>> THEN <<>> ELSE <<Call(Head(Frame.left), Head(q), Tail(q))>>)
  /\ UNCHANGED <<tob, tphase>>

Op_exec_expr  == Running("EXPR")  /\ Running_on /\ \E wild \in BOOLEAN : Put_list(Value(wild))
Op_exec_ifdef == Running("IFDEF") /\ Running_on /\ \E wild \in BOOLEAN : Branch(Value(wild))
Op_exec_for   == Running("FOR")   /\ Running_on /\ \E wild \in BOOLEAN : Loop(Value(wild))

\* An else is only executed from its ifdef.
Op_exec_else ==
  /\ Running("ELSE")
  /\ Return_to(<<>>)
  /\ Running_on /\ UNCHANGED <<tob, tphase>>

\* A call returns: the loop's next turn, its caller, or the end.
Op_exec_return ==
  /\ tphase = "running" /\ Frame.left = <<>>
  /\ frames' = (IF Frame.more = <<>> THEN <<>>
                ELSE <<Call(Frame.op, Head(Frame.more), Tail(Frame.more))>>) \o Tail(frames)
  /\ tphase' = IF frames' = <<>> THEN "done" ELSE "running"
  /\ Running_on /\ UNCHANGED tob

\* An assertion on the list fails.
Op_exec_abort ==
  /\ \E type \in {"EXPR", "IFDEF", "FOR"} : Running(type)
  /\ \E wild \in BOOLEAN : Value(wild) = Aborted
  /\ tphase' = "aborted"
  /\ Running_on /\ UNCHANGED <<frames, tob>>

(***************************************************************************)
(* Memory runs out: an operation is not queued, or something is not        *)
(* written, and the template fails.  An expression may go on with another  *)
(* list than its own.                                                      *)
(***************************************************************************)
Fail ==
  /\ Reading \/ \E type \in {"STR", "EXPR", "IFDEF", "FOR"} : Running(type)
  /\ tphase' = "failed"
  /\ UNCHANGED <<templ, given, cp, ops, cop, frames, tob>>

Go_wrong ==
  /\ Running("EXPR") \/ Running("IFDEF") \/ Running("FOR")
  /\ Running_on
  /\ \E wild \in BOOLEAN : \E q \in Op_eval_failing(Current.expr, Env(wild)) :
       \/ Running("EXPR") /\ Put_list(q)
       \/ Running("IFDEF") /\ Branch(q)
       \/ Running("FOR") /\ Loop(q)

Read ==
  \/ Op_dollar \/ Op_queue_ifdef \/ Op_queue_for \/ Op_queue_else
  \/ Op_queue_endif \/ Op_queue_endfor \/ Op_queue_expr \/ Op_exec_root

Execute ==
  \/ Op_exec_str \/ Op_exec_expr \/ Op_exec_ifdef \/ Op_exec_for
  \/ Op_exec_else \/ Op_exec_return \/ Op_exec_abort

ENext == Read \/ Execute
===============================================================================
