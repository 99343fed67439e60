-------------------------------- MODULE Meaning --------------------------------
(***************************************************************************)
(* What a template means, by recursive descent over its statements: no     *)
(* tree of operations, no chain and no stack.                              *)
(***************************************************************************)
EXTENDS Template

LOCAL INSTANCE FiniteSetsExt
LOCAL INSTANCE SequencesExt

(***************************************************************************)
(* The statements of the template: a text, or an expression, or the        *)
(* beginning or the end of a block.                                        *)
(***************************************************************************)
Stmt(kind, expr) == [kind |-> kind, expr |-> expr]

Kind_of(s) ==
  CASE s = <<>> -> Stmt("text", <<"$">>)
    [] s \in {<<"else">>, <<"endif">>, <<"endfor">>} -> Stmt(s[1], <<>>)
    [] Calls(s, "ifdef") -> Stmt("ifdef", Argument(s))
    [] Calls(s, "for")   -> Stmt("for", Argument(s))
    [] OTHER -> Stmt("expr", s)

Statements ==
  LET next(p) == Min({k \in p .. Len(templ) : templ[k] = "$"} \cup {Len(templ) + 1})
      f[p \in Nat] ==
        IF next(p) > Len(templ) \/ Closing(next(p)) > Len(templ)
        THEN <<Stmt("text", SubSeq(templ, p, Len(templ)))>>
        ELSE <<Stmt("text", SubSeq(templ, p, next(p) - 1)), Kind_of(Statement(next(p)))>>
               \o f[IF Statement(next(p)) = <<>> THEN Left_end(next(p)) + 1 ELSE After(next(p))]
  IN  f[1]

(***************************************************************************)
(* Where the block that goes on with the k-th statement ends: at its       *)
(* closing statement, or at an else if it is that of an ifdef; past the    *)
(* end of the template if it is not closed.  Any other closing statement   *)
(* is nothing, and an else that follows no ifdef begins a block, too.      *)
(***************************************************************************)
Closes_block(what, kind) ==
  \/ what = "endif" /\ kind \in {"ifdef", "else"}
  \/ what = "else" /\ kind = "ifdef"
  \/ what = "endfor" /\ kind = "for"

IsElse(stmts, k) == k <= Len(stmts) /\ stmts[k].kind = "else"

Block_end(stmts, from, of) ==
  LET f[k \in Nat, kind \in STRING] ==
        LET past(mid) ==
              IF stmts[k].kind = "ifdef" /\ IsElse(stmts, mid) THEN f[mid + 1, "else"] + 1 ELSE mid + 1
        IN  IF k > Len(stmts) \/ Closes_block(stmts[k].kind, kind) THEN k
            ELSE IF stmts[k].kind \in {"ifdef", "for", "else"}
                 THEN f[past(f[k + 1, stmts[k].kind]), kind]
                 ELSE f[k + 1, kind]
  IN  f[from, of]

(***************************************************************************)
(* What is written from the k-th statement to the end of its block.  Only  *)
(* one side of an ifdef is, and nothing after an else without one.         *)
(***************************************************************************)
Means(body, mq, wild) ==
  LET stmts == Statements
      env(this) == [body |-> body, mq |-> mq, this |-> this, wild |-> wild]
      f[k \in Nat, kind \in STRING, this \in Seq(STRING)] ==
        LET what == stmts[k].kind
            end(j, of) == Block_end(stmts, j, of)
            each(q) == FlattenSeq([j \in DOMAIN q |-> f[k + 1, "for", q[j]]])
            inside(q, mid) ==
              CASE what = "expr" -> Joined(q)
                [] what = "for"  -> each(q)
                [] what = "ifdef" /\ q # <<>> -> f[k + 1, "ifdef", this]
                [] what = "ifdef" /\ q = <<>> /\ IsElse(stmts, mid) -> f[mid + 1, "else", this]
                [] OTHER -> <<>>
            after(mid) == IF what = "ifdef" /\ IsElse(stmts, mid) THEN end(mid + 1, "else") + 1 ELSE mid + 1
        IN  IF k > Len(stmts) \/ Closes_block(what, kind) THEN <<>>
            ELSE CASE what = "text" -> stmts[k].expr \o f[k + 1, kind, this]
                   [] what = "expr" -> inside(Op_eval(stmts[k].expr, env(this)), 0) \o f[k + 1, kind, this]
                   [] what = "else" -> f[end(k + 1, "else") + 1, kind, this]
                   [] what \in {"endif", "endfor"} -> f[k + 1, kind, this]
                   [] OTHER ->
                        inside(Op_eval(stmts[k].expr, env(this)), end(k + 1, what))
                          \o f[after(end(k + 1, what)), kind, this]
  IN  f[1, "root", <<>>]
===============================================================================
