----------------------------- MODULE TemplateExpr -----------------------------
(***************************************************************************)
(* The expressions of src/format/template.c: how one is taken apart and    *)
(* what it evaluates to.  An expression is a sequence of symbols, a value  *)
(* too, and a result is a list of values.  An empty value stands for NULL  *)
(* where the code has both and treats them alike.                          *)
(*                                                                         *)
(* env is what an expression may refer to: the body of the document, its   *)
(* metadata as a sequence of [key, value], this, and wild, which is        *)
(* whether "args" of op_eval(), which is not set if the expression has no  *)
(* parentheses, happens not to be NULL.                                    *)
(***************************************************************************)
EXTENDS Escape

LOCAL INSTANCE FiniteSets
LOCAL INSTANCE FiniteSetsExt
LOCAL INSTANCE SequencesExt
LOCAL INSTANCE TLC

True == <<"true">>

\* No list: what is returned if memory is exhausted; and a failed assertion.
Null    == << <<"null pointer">> >>
Aborted == << <<"assertion">> >>

\* Is the symbol at k of e between double quotes?
In_quotes(e, k) ==
  Cardinality({j \in 1 .. k - 1 : e[j] = "\"" /\ (j = 1 \/ e[j - 1] # "\\")}) % 2 = 1

\* The first place of c in e, or 0.
Place_of(e, c) == Min({k \in DOMAIN e : e[k] = c} \cup {Len(e) + 1}) % (Len(e) + 1)

(***************************************************************************)
(* The first full stop that is not in a string ends the first expression   *)
(* of a chain.  Parentheses make no difference here.                       *)
(***************************************************************************)
Next_in_chain(e) ==
  Min({k \in DOMAIN e : e[k] = "." /\ ~In_quotes(e, k)} \cup {Len(e) + 1})

HasArgs(p) == p # <<>> /\ p[Len(p)] = ")" /\ Place_of(p, "(") > 0
Name(p)    == IF HasArgs(p) THEN SubSeq(p, 1, Place_of(p, "(") - 1) ELSE p
Args(p)    == IF HasArgs(p) THEN SubSeq(p, Place_of(p, "(") + 1, Len(p) - 1) ELSE <<>>

(***************************************************************************)
(* The arguments between commas that are in neither parentheses nor quotes. *)
(* A closing parenthesis too many puts every later comma in parentheses,   *)
(* as the count is of size_t.  There is always one argument.               *)
(***************************************************************************)
Op_argq_new(a) ==
  LET at(k, c) == Cardinality({j \in 1 .. k - 1 : a[j] = c})
      cuts == {k \in DOMAIN a : a[k] = "," /\ at(k, "(") = at(k, ")") /\ ~In_quotes(a, k)}
      ends == SetToSortSeq(cuts \cup {Len(a) + 1}, <)
  IN  [k \in DOMAIN ends |-> SubSeq(a, IF k = 1 THEN 1 ELSE ends[k - 1] + 1, ends[k] - 1)]

\* How many symbols are left of v without the white-space around it.
Trimmed_size(v) ==
  LET solid == {k \in DOMAIN v : v[k] \notin White}
  IN  IF solid = {} THEN 0 ELSE Max(solid) - Min(solid) + 1

(***************************************************************************)
(* op_resq_clone() with trim set: the size is that of the trimmed value,   *)
(* but what is copied is from the start of the value as it was.            *)
(***************************************************************************)
Trim(q) ==
  LET cut == [k \in DOMAIN q |-> SubSeq(q[k], 1, Trimmed_size(q[k]))]
  IN  SelectSeq(cut, LAMBDA v : v # <<>>)

\* Where the first two white-spaces after the first word of v are, and after.
Gap(v) ==
  LET word == Min({k \in DOMAIN v : v[k] \notin White} \cup {Len(v) + 1})
  IN  Min({k \in word .. Len(v) - 1 : v[k] \in White /\ v[k + 1] \in White} \cup {Len(v) + 1})

After_gap(v) == Min({k \in Gap(v) .. Len(v) : v[k] \notin White} \cup {Len(v) + 1})

\* A value is cut at white-space if a word follows; so is the rest of it.
Pieces(value) ==
  LET f[v \in Seq(STRING)] ==
        IF After_gap(v) > Len(v) THEN <<v>>
        ELSE <<SubSeq(v, 1, Gap(v) - 1)>> \o f[SubSeq(v, After_gap(v), Len(v))]
  IN  f[value]

Split(q) ==
  LET trimmed == Trim(q)
  IN  FlattenSeq([k \in DOMAIN trimmed |-> Pieces(trimmed[k])])

\* The values one after the other with two spaces between them.
Joined(q) ==
  FlattenSeq([k \in DOMAIN q |-> IF k = 1 THEN q[k] ELSE <<" ", " ">> \o q[k]])

Join(q) == IF q = <<>> THEN <<>> ELSE <<Joined(q)>>

Lower == ("A" :> "a") @@ ("B" :> "b")
Upper == ("a" :> "A") @@ ("b" :> "B")

\* The transforms that copy the list first and assert that no value is empty.
Copying(p) == Name(p) \in {<<"uppercase">>, <<"lowercase">>}

\* A transform that is not known makes the list empty.
Op_eval_function(p, q) ==
  LET each(T(_)) == [k \in DOMAIN q |-> T(q[k])]
  IN  CASE q = Aborted \/ (Copying(p) /\ \E k \in DOMAIN q : q[k] = <<>>) -> Aborted
        [] Name(p) = <<"uppercase">>  -> each(LAMBDA v : Replaced(Upper, v))
        [] Name(p) = <<"lowercase">>  -> each(LAMBDA v : Replaced(Lower, v))
        [] Name(p) = <<"split">>      -> Split(q)
        [] Name(p) = <<"join">>       -> Join(q)
        [] Name(p) = <<"trim">>       -> Trim(q)
        [] Name(p) = <<"escapegemini">>     -> each(LAMBDA v : Gemini_esc(v, FALSE))
        [] Name(p) = <<"escapegeminiline">> -> each(LAMBDA v : Gemini_esc(v, TRUE))
        [] Name(p) = <<"escapehtml">>       -> each(LAMBDA v : Html_esc(v, TRUE, FALSE))
        [] Name(p) = <<"escapehtmlattr">>   -> each(Html_esc_attr)
        [] Name(p) = <<"escapehtmlurl">>    -> each(Html_esc_href)
        [] Name(p) = <<"escapelatex">>      -> each(Latex_esc)
        [] Name(p) = <<"escaperoff">>       -> each(LAMBDA v : Roff_esc(v, -1))
        [] Name(p) = <<"escaperoffline">>   -> each(LAMBDA v : Roff_esc(v, 1))
        [] OTHER -> <<>>

IsLiteral(p) == Len(p) > 1 /\ p[1] = "\"" /\ p[Len(p)] = "\""

\* The text of a string, with no backslash before a quote.
Literal(p) ==
  LET kept == SelectSeq([k \in 1 .. Len(p) |-> k],
                LAMBDA k : 1 < k /\ k < Len(p) /\ ~(p[k] = "\\" /\ p[k + 1] = "\""))
  IN  [k \in DOMAIN kept |-> p[kept[k]]]

\* The value of the first metadata with the key.
Meta_value(env, key) ==
  LET found == {k \in DOMAIN env.mq : env.mq[k].key = key}
  IN  IF found = {} THEN <<>> ELSE env.mq[Min(found)].value

\* With no argument, "meta" is a key, or no key at all.
Meta_key(p, env) ==
  IF Name(p) = <<"meta">> /\ (HasArgs(p) \/ env.wild) THEN Args(p) ELSE Name(p)

\* The list of a value, empty if it is.
Singleton(v) == IF v = <<>> THEN <<>> ELSE <<v>>

(***************************************************************************)
(* op_eval_initial(), where what[e] is what the expression e evaluates to. *)
(***************************************************************************)
Op_eval_initial(p, env, what) ==
  LET args == Op_argq_new(Args(p))
      truth(b) == IF b THEN <<True>> ELSE <<>>
  IN  CASE IsLiteral(Name(p))    -> IF Len(Name(p)) > 2 THEN <<Literal(Name(p))>> ELSE <<>>
        [] Name(p) = <<"this">>  -> Singleton(env.this)
        [] Name(p) = <<"body">>  -> Singleton(env.body)
        [] Name(p) = <<"not">>   -> truth(what[Args(p)] = <<>>)
        [] Name(p) = <<"or">>    -> truth(\E k \in DOMAIN args : what[args[k]] # <<>>)
        [] Name(p) = <<"and">>   -> truth(\A k \in DOMAIN args : what[args[k]] # <<>>)
        [] OTHER                 -> Singleton(Meta_value(env, Meta_key(p, env)))

(***************************************************************************)
(* op_eval() with no input: the first expression of the chain, and each    *)
(* transform of what comes before it.  A chain that ends in a full stop    *)
(* evaluates to nothing.                                                   *)
(***************************************************************************)
Op_eval(expr, env) ==
  LET rest(e) == SubSeq(e, Next_in_chain(e) + 1, Len(e))
      first(e) == SubSeq(e, 1, Next_in_chain(e) - 1)
      more(e) == Next_in_chain(e) <= Len(e)
      through[e \in Seq(STRING), q \in Seq(Seq(STRING))] ==
        IF e = <<>> THEN <<>>
        ELSE IF more(e) THEN through[rest(e), Op_eval_function(first(e), q)]
        ELSE Op_eval_function(e, q)
      what[e \in Seq(STRING)] ==
        IF e = <<>> THEN <<>>
        ELSE IF more(e) THEN through[rest(e), Op_eval_initial(first(e), env, what)]
        ELSE Op_eval_initial(e, env, what)
  IN  what[expr]

(***************************************************************************)
(* What op_eval() may return if memory runs out in it: NULL, or, if that   *)
(* happens to an expression with a transform after it, what the rest of    *)
(* the chain evaluates to by itself, as a NULL input is taken for none.    *)
(***************************************************************************)
Op_eval_failing(expr, env) ==
  {Null} \cup
    {Op_eval(SubSeq(expr, k + 1, Len(expr)), env) :
       k \in {j \in DOMAIN expr : expr[j] = "." /\ ~In_quotes(expr, j)}}
===============================================================================
