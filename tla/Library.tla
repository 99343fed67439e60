-------------------------------- MODULE Library --------------------------------
(***************************************************************************)
(* The entry points of src/library/library.c: a document, or two, are      *)
(* read, parsed, compared, made typographic and rendered.  The parser and  *)
(* the comparison are modules of their own: here they give the tree of the *)
(* session.  The renderer is that of HTML, or none.                        *)
(***************************************************************************)
EXTENDS Html, Template, Buffer

LOCAL INSTANCE SequencesExt

(***************************************************************************)
(* Sessions: the function that is called, "buf", "diff", "file" or         *)
(* "file_diff", or "writer" for a renderer by itself with a buffer; the    *)
(* tree, as kids, par and lab; the options; the files, each with its bytes *)
(* and whether there is an error after them; the unit of buffers; and      *)
(* whether memory may run out once.                                        *)
(***************************************************************************)
CONSTANT Sessions

ASSUME SessionsAssumption ==
  \A s \in Sessions :
    /\ s.unit \in Units /\ s.files \in Seq([bytes : Nat, error : BOOLEAN])
    /\ s.call \in {"file", "file_diff"} => s.files # <<>>

VARIABLES
  session,
  pc,           \* the step of the function that is next
  live,         \* the objects that are allocated
  read,         \* how many bytes are read of the first of the files
  files,        \* the files that are left to read
  fault,        \* "none", "may" or "had"
  rc,           \* what the function returns
  beat          \* of the machine: a loop that goes round without effect is a behaviour, too

lvars == <<session, pc, live, read, files, fault, rc>>
vars  == <<lvars, svars, hvars, evars, bvars, beat>>

IsDiff  == session.call \in {"diff", "file_diff"}
IsFile  == session.call \in {"file", "file_diff"}

Init ==
  /\ session \in Sessions
  /\ pc = CASE session.call = "writer" -> "writer" [] IsFile -> "bufs" [] OTHER -> "doc"
  /\ live = {} /\ read = 0 /\ files = session.files
  /\ fault = (IF session.frail THEN "may" ELSE "none")
  /\ rc = 0 /\ beat = FALSE
  /\ kids = (0 :> <<>>) /\ par = (0 :> None) /\ lab = (0 :> [type |-> "ROOT"])
  /\ Smarty_idle /\ Html_idle /\ Idle
  /\ unit = session.unit /\ size = 0 /\ maxsize = 0 /\ wrote = 0

To(p) == pc' = p /\ UNCHANGED <<session, read, files, fault, rc>>
Only(p) == To(p) /\ UNCHANGED <<live, svars, hvars, evars, bvars>>

\* The object is allocated, or memory runs out.
Allocated(obj, next, err) ==
  /\ \/ live' = live \cup {obj} /\ To(next)
     \/ /\ fault = "may" /\ fault' = "had" /\ pc' = err
        /\ UNCHANGED <<session, live, read, files, rc>>
  /\ UNCHANGED <<svars, hvars, evars>>

New(obj, next, err) == Allocated(obj, next, err) /\ UNCHANGED bvars

(***************************************************************************)
(* lowdown_file() and lowdown_file_diff(): the files are read whole, the   *)
(* old one first.                                                          *)
(***************************************************************************)
Bufs == IF IsDiff THEN <<"bnew", "bold">> ELSE <<"bin">>

Lowdown_file ==
  /\ pc = "bufs"
  /\ \E obj \in {Bufs[k] : k \in {j \in DOMAIN Bufs : Bufs[j] \notin live /\ \A i \in 1 .. j - 1 : Bufs[i] \in live}} :
       New(obj, IF obj = Bufs[Len(Bufs)] THEN "putf" ELSE "bufs", "out")

\* hbuf_putf() goes on until the file has ended or there is an error.
Left     == files[1].bytes - read
Chunk    == IF Left < unit THEN Left ELSE unit

\* Mutant: only the end of the file is looked for.
Ended_eof(n) == n < unit /\ ~files[1].error

Ended(n) == n < unit

Read_file ==
  /\ pc = "putf"
  /\ Hbuf_putf(Chunk)
  /\ read' = read + Chunk
  /\ pc' = (IF Ended(Chunk) THEN "read" ELSE "putf")
  /\ UNCHANGED <<session, live, files, fault, rc, svars, hvars, evars>>

\* The buffer cannot grow: there is no memory for it, or there is none left.
Read_fails ==
  /\ pc = "putf"
  /\ \/ Hbuf_grow(Add(size, unit)) = {} /\ UNCHANGED fault
     \/ maxsize < Add(size, unit) /\ fault = "may" /\ fault' = "had"
  /\ pc' = "out"
  /\ UNCHANGED <<session, live, read, files, rc, svars, hvars, evars, bvars>>

Read_done ==
  /\ pc = "read"
  /\ IF files[1].error
     THEN pc' = "out" /\ UNCHANGED <<files, bvars>>
     ELSE /\ files' = Tail(files) /\ Hbuf_init(unit)
          /\ pc' = IF Len(files) > 1 THEN "putf" ELSE "doc"
  /\ read' = 0
  /\ UNCHANGED <<session, live, fault, rc, svars, hvars, evars>>

(***************************************************************************)
(* lowdown_buf() and lowdown_buf_diff().                                   *)
(***************************************************************************)
Lowdown_doc_new == pc = "doc" /\ New("doc", "parse", "err")

\* A tree, once or for the new document and then the old one.  There may be
\* none, without memory.
Trees == IF IsDiff THEN <<"nnew", "nold">> ELSE <<"n">>
Take_tree == kids' = session.tree.kids /\ par' = session.tree.par /\ lab' = session.tree.lab

Lowdown_doc_parse ==
  /\ pc = "parse"
  /\ \/ /\ live' = live \cup {Trees[IF Trees[1] \in live THEN 2 ELSE 1]}
        /\ To(IF ~IsDiff THEN "smarty" ELSE IF "nnew" \in live THEN "diff" ELSE "parse")
        /\ IF IsDiff THEN UNCHANGED <<kids, par, lab>> ELSE Take_tree
     \/ /\ fault = "may" /\ fault' = "had" /\ pc' = "err"
        /\ UNCHANGED <<session, live, read, files, rc, kids, par, lab>>
  /\ UNCHANGED <<walk, left_wb, sphase, hvars, evars, bvars>>

\* lowdown_diff() has no failure: without memory an assertion of it fails.
Lowdown_diff ==
  /\ pc = "diff"
  /\ \/ live' = live \cup {"ndiff"} /\ Take_tree /\ To("smarty")
     \/ /\ fault = "may" /\ fault' = "had" /\ pc' = "dead"
        /\ UNCHANGED <<session, live, read, files, rc, kids, par, lab>>
  /\ UNCHANGED <<walk, left_wb, sphase, hvars, evars, bvars>>

Apply_smarty ==
  /\ pc = "smarty" /\ session.smarty
  /\ \/ Smarty /\ UNCHANGED lvars
     \/ SNext /\ UNCHANGED lvars
     \/ /\ sphase = "done" /\ To("ob") /\ UNCHANGED <<live, svars>>
     \/ /\ fault = "may" /\ fault' = "had" /\ Smarty_fails /\ pc' = "err"
        /\ UNCHANGED <<session, live, read, files, rc>>
  /\ UNCHANGED <<hvars, evars, bvars>>

No_smarty == pc = "smarty" /\ ~session.smarty /\ Only("ob")

Lowdown_buf_new == pc = "ob" /\ New("ob", "render", "err")

(***************************************************************************)
(* lowdown_render(): a renderer is made and does its work, or there is     *)
(* none for the type and nothing is written.                               *)
(***************************************************************************)
Lowdown_render_other == pc = "render" /\ ~session.html /\ Only("give")
Lowdown_html_new     == pc = "render" /\ session.html /\ New("rndr", "html", "err")

Run_html ==
  /\ pc = "html"
  /\ Lowdown_html_rndr(session.oflags, session.templ # <<>>) \/ HNext
  /\ UNCHANGED <<lvars, svars, evars, bvars>>

\* tmp of the first call is all that rndr() fails for.
Run_html_fails ==
  /\ pc = "html" /\ fault = "may" /\ fault' = "had"
  /\ \/ /\ Rndr_no_tmp \/ Rndr_fails
        /\ pc' = pc
     \/ /\ hphase = "idle" /\ pc' = "rndr failed"
        /\ UNCHANGED hvars
  /\ UNCHANGED <<session, live, read, files, rc, svars, evars, bvars>>

\* The body as the symbols that a template sees.
Symbol_of(token) ==
  CASE token.k \in {"open", "void"} -> "<" \o token.e \o ">"
    [] token.k = "close" -> "</" \o token.e \o ">"
    [] OTHER -> token.e

Run_template ==
  /\ pc = "html" /\ hphase = "template"
  /\ \/ tphase = "idle" /\ Lowdown_template(session.templ, [k \in DOMAIN Body |-> Symbol_of(Body[k])], metaq)
     \/ ENext
  /\ UNCHANGED <<lvars, svars, hvars, bvars>>

Run_template_fails ==
  /\ pc = "html" /\ hphase = "template" /\ fault = "may"
  /\ fault' = "had"
  /\ Fail \/ Go_wrong
  /\ UNCHANGED <<session, pc, live, read, files, rc, svars, hvars, bvars>>

\* lowdown_template() frees its operations.  What it returns is what rndr()
\* does not look at.
Template_done ==
  /\ pc = "html" /\ hphase = "template" /\ tphase \in {"done", "failed"}
  /\ ops' = <<>>
  /\ Rndr_returns(Say(tob))
  /\ UNCHANGED <<lvars, svars, flags, hasTempl, headers_used, headers_offs, foots, metaq>>
  /\ UNCHANGED <<templ, given, cp, cop, frames, tob, tphase, bvars>>

\* Mutant: the renderer is only freed if it has rendered.
Rndr_done_leaks(failed) ==
  /\ live' = IF failed THEN live ELSE live \ {"rndr"}
  /\ To(IF failed THEN "err" ELSE "give")

\* The end of lowdown_html_rndr(), and lowdown_html_free().
Rndr_done(failed) ==
  /\ live' = live \ {"rndr"}
  /\ To(IF failed THEN "err" ELSE "give")

Html_done ==
  /\ pc = "html" /\ Lowdown_html_ends
  /\ Rndr_done(FALSE)
  /\ UNCHANGED <<svars, evars, bvars>>

Html_failed ==
  /\ pc = "rndr failed"
  /\ Rndr_done(TRUE)
  /\ UNCHANGED <<svars, hvars, evars, bvars>>

Dead ==
  /\ pc = "html" /\ (hphase = "crashed" \/ tphase = "aborted")
  /\ Only("dead")

\* *res and *rsz are set, and the buffer has its data no longer.
Give ==
  /\ pc = "give"
  /\ live' = live \cup {"data"} /\ rc' = 1
  /\ pc' = "err"
  /\ UNCHANGED <<session, read, files, fault, svars, hvars, evars, bvars>>

\* The labels err and out.
Err ==
  /\ pc = "err"
  /\ live' = live \ {"ob", "n", "ndiff", "nnew", "nold", "doc"}
  /\ To(IF IsFile THEN "out" ELSE "returned")
  /\ UNCHANGED <<svars, hvars, evars, bvars>>

Out ==
  /\ pc = "out"
  /\ live' = live \ {"bin", "bnew", "bold"}
  /\ To("returned")
  /\ UNCHANGED <<svars, hvars, evars, bvars>>

\* A renderer writes to a buffer, in any way it can, until it is done.
Writer ==
  /\ pc = "writer"
  /\ \/ Hbuf_call /\ UNCHANGED pc
     \/ pc' = "returned" /\ UNCHANGED bvars
  /\ UNCHANGED <<session, live, read, files, fault, rc, svars, hvars, evars>>

Step ==
  \/ Lowdown_file \/ Read_file \/ Read_fails \/ Read_done
  \/ Lowdown_doc_new \/ Lowdown_doc_parse \/ Lowdown_diff \/ Apply_smarty \/ No_smarty
  \/ Lowdown_buf_new \/ Lowdown_render_other \/ Lowdown_html_new \/ Run_html \/ Run_html_fails
  \/ Run_template \/ Run_template_fails \/ Template_done \/ Html_done \/ Html_failed \/ Dead
  \/ Give \/ Err \/ Out \/ Writer

Rest == pc \in {"returned", "dead"} /\ UNCHANGED vars

Next == (Step /\ beat' = ~beat) \/ Rest

(***************************************************************************)
(* The program goes on until the function returns: nothing in it waits for *)
(* anything else.  The beat makes every step a change: this is             *)
(* WF_vars(Step) without the ENABLED.                                      *)
(***************************************************************************)
Fairness == []<>(pc \in {"returned", "dead"}) \/ []<><<TRUE>>_vars

Spec == Init /\ [][Next]_vars /\ Fairness
===============================================================================
