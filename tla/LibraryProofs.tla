----------------------------- MODULE LibraryProofs -----------------------------
(***************************************************************************)
(* Proof that every call of the library frees what it allocates, whatever  *)
(* it is called for, however the document turns out, and wherever memory   *)
(* runs out; and that the operations that a template is read into are in a *)
(* tree, whatever the order and number of else, endif and endfor.          *)
(***************************************************************************)
EXTENDS Rendering, SequenceTheorems, TLAPS

-------------------------------------------------------------------------------
(***************************************************************************)
(* A buffer is never written past its end, for every width of size_t, size *)
(* of memory and unit.                                                     *)
(***************************************************************************)
\* Numbers divide with a remainder.
LEMMA Divided ==
  ASSUME NEW n \in Nat, NEW u \in Nat \ {0}
  PROVE  /\ n \div u \in Nat /\ n % u \in 0 .. u - 1
         /\ n = u * (n \div u) + (n % u)
OBVIOUS

(***************************************************************************)
(* Rounded up, a size is no less, and more by less than a unit; that does  *)
(* not wrap round if a unit more than the size does not.                   *)
(***************************************************************************)
LEMMA RoundedUp ==
  ASSUME NEW n \in Nat, NEW u \in Nat \ {0}, n + u <= Word
  PROVE  Rounded(n, u) \in Nat /\ n <= Rounded(n, u)
<1> DEFINE q == n \div u
           r == n % u
           k == q + (IF r > 0 THEN 1 ELSE 0)
<1>1. q \in Nat /\ r \in 0 .. u - 1 /\ n = u * q + r
  BY Divided
<1>2. Rounded(n, u) = (k * u) % Word
  BY DEF Rounded
<1>3. k * u \in Nat /\ n <= k * u /\ k * u < n + u
  <2> HIDE DEF q, r
  <2>1. CASE r = 0
    <3>1. k = q
      BY <2>1, <1>1
    <3>2. q * u = u * q
      BY <1>1
    <3> QED
      BY <2>1, <3>1, <3>2, <1>1
  <2>2. CASE r # 0
    <3>1. k = q + 1
      BY <2>2, <1>1
    <3>2. (q + 1) * u = u * q + u
      BY <1>1
    <3> QED
      BY <2>2, <3>1, <3>2, <1>1
  <2> QED
    BY <2>1, <2>2
<1>4. Word \in Nat \ {0}
  BY BufferAssumption
<1> HIDE DEF k
<1>5. \A m \in Nat : m < Word => m % Word = m
  BY <1>4
<1>6. k * u < Word
  BY <1>3, <1>4
<1> QED
  BY <1>2, <1>3, <1>5, <1>6

\* Sums that fit are those of numbers.
LEMMA Added ==
  ASSUME NEW a \in Nat, NEW b \in Nat, a + b < Word
  PROVE  Add(a, b) = a + b
<1> DEFINE m == a + b
<1>1. m \in Nat /\ m < Word /\ Word \in Nat \ {0}
  BY BufferAssumption
<1> HIDE DEF m
<1>2. m % Word = m
  BY <1>1
<1> QED
  BY <1>2 DEF Add, m

(***************************************************************************)
(* The sizes by themselves: what the buffer holds was allocated, and no    *)
(* object is larger than memory, so that no sum in the code wraps round.   *)
(***************************************************************************)
BInv == BTypeOK /\ InBounds

\* When the buffer has grown there is room for the new size.
LEMMA Grown ==
  ASSUME BTypeOK, NEW neosz \in Nat, neosz + unit <= Word, NEW m \in Hbuf_grow(neosz)
  PROVE  m \in 0 .. Memory /\ neosz <= m
<1>1. /\ maxsize \in 0 .. Memory /\ unit \in Nat \ {0} /\ Memory \in Nat
  BY BufferAssumption DEF BTypeOK
<1>2. neosz <= Rounded(neosz, unit)
  BY <1>1, RoundedUp
<1> QED
  BY <1>1, <1>2 DEF Hbuf_grow

LEMMA PutInv == ASSUME NEW n \in 1 .. Memory, BInv, Hbuf_put(n) PROVE BInv'
<1>1. /\ unit \in Units /\ unit \in Nat \ {0} /\ unit <= Memory
      /\ 2 * Memory + unit < Word /\ Word \in Nat /\ Memory \in Nat
      /\ size \in 0 .. Memory /\ maxsize \in 0 .. Memory /\ size <= maxsize
  BY BufferAssumption DEF BInv, BTypeOK, InBounds
<1>2. Add(size, n) = size + n /\ size + n \in Nat /\ size + n + unit <= Word
  BY <1>1, Added
<1>3. wrote' = size + n /\ size' = size + n /\ unit' = unit
  BY <1>2 DEF Hbuf_put, Write
<1>4. maxsize' \in 0 .. Memory /\ size + n <= maxsize'
  <2>1. CASE size + n > maxsize
    <3>1. maxsize' \in Hbuf_grow(size + n)
      BY <2>1, <1>2 DEF Hbuf_put
    <3> QED
      BY <3>1, <1>2, Grown DEF BInv
  <2>2. CASE ~(size + n > maxsize)
    BY <2>2, <1>1, <1>2 DEF Hbuf_put
  <2> QED
    BY <2>1, <2>2
<1> QED
  BY <1>1, <1>2, <1>3, <1>4 DEF BInv, BTypeOK, InBounds

LEMMA PutcInv == ASSUME BInv, Hbuf_putc PROVE BInv'
<1>1. /\ unit \in Units /\ unit \in Nat \ {0} /\ unit <= Memory
      /\ 2 * Memory + unit < Word /\ Word \in Nat /\ Memory \in Nat
      /\ size \in 0 .. Memory /\ maxsize \in 0 .. Memory /\ size <= maxsize
  BY BufferAssumption DEF BInv, BTypeOK, InBounds
<1>2. Add(size, 1) = size + 1 /\ size + 1 \in Nat /\ size + 1 + unit <= Word
  BY <1>1, Added
<1>3. wrote' = size + 1 /\ size' = size + 1 /\ unit' = unit
  BY <1>2 DEF Hbuf_putc, Write
<1>4. maxsize' \in 0 .. Memory /\ size + 1 <= maxsize'
  <2>1. CASE size >= maxsize
    <3>1. maxsize' \in Hbuf_grow(size + 1)
      BY <2>1, <1>2 DEF Hbuf_putc
    <3> QED
      BY <3>1, <1>2, Grown DEF BInv
  <2>2. CASE ~(size >= maxsize)
    BY <2>2, <1>1, <1>2 DEF Hbuf_putc
  <2> QED
    BY <2>1, <2>2
<1> QED
  BY <1>1, <1>2, <1>3, <1>4 DEF BInv, BTypeOK, InBounds

LEMMA PutfInv == ASSUME NEW n \in 0 .. unit, BInv, Hbuf_putf(n) PROVE BInv'
<1>1. /\ unit \in Units /\ unit \in Nat \ {0} /\ unit <= Memory
      /\ 2 * Memory + unit < Word /\ Word \in Nat /\ Memory \in Nat
      /\ size \in 0 .. Memory /\ maxsize \in 0 .. Memory /\ size <= maxsize
  BY BufferAssumption DEF BInv, BTypeOK, InBounds
<1>2. /\ Add(size, unit) = size + unit /\ size + unit \in Nat /\ size + unit + unit <= Word
      /\ Add(size, n) = size + n
  BY <1>1, Added
<1>3. wrote' = size + n /\ size' = size + n /\ unit' = unit
  BY <1>2 DEF Hbuf_putf, Write
<1>4. maxsize' \in 0 .. Memory /\ size + unit <= maxsize'
  BY <1>2, Grown DEF Hbuf_putf, BInv
<1> QED
  BY <1>1, <1>2, <1>3, <1>4 DEF BInv, BTypeOK, InBounds

(***************************************************************************)
(* A text that does not fit leaves the size as it was, or the buffer grows *)
(* to hold it with its NUL.                                                *)
(***************************************************************************)
LEMMA PrintfInv == ASSUME NEW n \in 0 .. Memory, BInv, Hbuf_printf(n) PROVE BInv'
<1>1. /\ unit \in Units /\ unit \in Nat \ {0} /\ unit <= Memory
      /\ 2 * Memory + unit < Word /\ Word \in Nat /\ Memory \in Nat
      /\ size \in 0 .. Memory /\ maxsize \in 0 .. Memory /\ size <= maxsize
  BY BufferAssumption DEF BInv, BTypeOK, InBounds
<1>2. /\ Add(size, 1) = size + 1 /\ size + 1 \in Nat /\ size + 1 + unit <= Word
      /\ Add(size, n) = size + n /\ Add(size, n + 1) = size + n + 1
      /\ size + n + 1 \in Nat /\ size + n + 1 + unit <= Word
  BY <1>1, Added
<1>3. PICK max \in IF size >= maxsize THEN Hbuf_grow(Add(size, 1)) ELSE {maxsize} :
        IF n < max - size
        THEN maxsize' = max /\ wrote' = size + n + 1 /\ size' = Add(size, n) /\ UNCHANGED unit
        ELSE \/ /\ maxsize' \in {Rounded(Add(size, n + 1), unit)} \cap 0 .. Memory
                /\ wrote' = size + n + 1 /\ size' = Add(size, n) /\ UNCHANGED unit
             \/ /\ maxsize' = max
                /\ wrote' = max
                /\ UNCHANGED <<size, unit>>
  BY DEF Hbuf_printf
<1>4. max \in 0 .. Memory /\ size < max
  <2>1. CASE size >= maxsize
    <3>1. max \in Hbuf_grow(size + 1)
      BY <2>1, <1>2, <1>3
    <3>2. max \in 0 .. Memory /\ size + 1 <= max
      BY <3>1, <1>2, Grown DEF BInv
    <3> QED
      BY <3>2, <1>1
  <2>2. CASE ~(size >= maxsize)
    BY <2>2, <1>1, <1>3
  <2> QED
    BY <2>1, <2>2
<1>5. CASE n < max - size
  BY <1>1, <1>2, <1>3, <1>4, <1>5 DEF BInv, BTypeOK, InBounds
<1>6. CASE /\ maxsize' \in {Rounded(Add(size, n + 1), unit)} \cap 0 .. Memory
           /\ wrote' = size + n + 1 /\ size' = Add(size, n) /\ UNCHANGED unit
  <2>1. size + n + 1 <= maxsize' /\ maxsize' \in 0 .. Memory
    BY <1>1, <1>2, <1>6, RoundedUp
  <2> QED
    BY <2>1, <1>1, <1>2, <1>6 DEF BInv, BTypeOK, InBounds
<1>7. CASE maxsize' = max /\ wrote' = max /\ UNCHANGED <<size, unit>>
  BY <1>1, <1>4, <1>7 DEF BInv, BTypeOK, InBounds
<1> QED
  BY <1>3, <1>5, <1>6, <1>7

LEMMA BufferInv == BSpec => []BInv
<1>1. BInit => BInv
  BY BufferAssumption DEF BInit, BInv, BTypeOK, InBounds
<1>2. ASSUME BInv, [BNext]_bvars PROVE BInv'
  <2>1. CASE \E n \in 1 .. Memory : Hbuf_put(n)
    BY <2>1, <1>2, PutInv
  <2>2. CASE Hbuf_putc
    BY <2>2, <1>2, PutcInv
  <2>3. CASE \E n \in 0 .. Memory : Hbuf_printf(n)
    BY <2>3, <1>2, PrintfInv
  <2>4. CASE Hbuf_truncate
    BY <2>4, <1>2, BufferAssumption DEF Hbuf_truncate, BInv, BTypeOK, InBounds
  <2>5. CASE \E n \in 0 .. unit : Hbuf_putf(n)
    BY <2>5, <1>2, PutfInv
  <2>6. CASE UNCHANGED bvars
    BY <2>6, <1>2 DEF bvars, BInv, BTypeOK, InBounds
  <2> QED
    BY <1>2, <2>1, <2>2, <2>3, <2>4, <2>5, <2>6 DEF BNext, Hbuf_call
<1> QED
  BY <1>1, <1>2, PTL DEF BSpec

(***************************************************************************)
(* Whatever is written to a buffer, and in whatever order, nothing is      *)
(* written past the end of what was allocated for it (buffer.c:172-295). *)
(***************************************************************************)
THEOREM NeverPastEnd == BSpec => []InBounds
<1>1. BInv => InBounds
  BY DEF BInv
<1> QED
  BY <1>1, BufferInv, PTL

\* The sizes of a buffer are those of objects.
THEOREM SizesAreSizes == BSpec => []BTypeOK
<1>1. BInv => BTypeOK
  BY DEF BInv
<1> QED
  BY <1>1, BufferInv, PTL

-------------------------------------------------------------------------------
(***************************************************************************)
(* The invariant: what may be allocated at which step.                     *)
(***************************************************************************)
Inputs == {"bin", "bnew", "bold"}
Made   == {"doc", "n", "nnew", "nold", "ndiff", "ob"}

\* The value is given when the function will return success.
Given_up ==
  /\ live \subseteq Inputs \cup Made \cup {"rndr", "data"}
  /\ rc = IF "data" \in live THEN 1 ELSE 0

\* What is allocated is freed on the way out.
Owned ==
  /\ "rndr" \in live => pc \in {"html", "rndr failed", "dead"}
  /\ pc \in {"bufs", "putf", "read", "doc", "out", "returned"} => live \cap Made = {}
  /\ pc = "parse" /\ ~IsDiff => "n" \notin live
  /\ live \cap Inputs # {} => IsFile
  /\ pc \in {"bufs", "putf", "read", "out"} => IsFile
  /\ pc = "returned" => live \cap Inputs = {}
  /\ pc = "writer" => live = {}

\* The renderer and the template keep nothing between calls.
Kept_by_renderer == foots = <<>> /\ metaq = <<>> /\ headers_used = <<>>

Emptied ==
  /\ pc \notin {"html", "dead"} => Kept_by_renderer /\ ops = <<>>
  /\ pc = "html" /\ hphase = "idle" => Kept_by_renderer
  /\ hphase # "template" => ops = <<>>

LInv == Given_up /\ Owned /\ Emptied

LEMMA InitLInv == Init => LInv
<1> SUFFICES ASSUME Init PROVE LInv
  OBVIOUS
<1>1. live = {} /\ rc = 0
  BY DEF Init
<1>2. pc \in {"writer", "bufs", "doc"} /\ (pc = "bufs" => IsFile)
  BY DEF Init
<1>3. foots = <<>> /\ metaq = <<>> /\ headers_used = <<>> /\ ops = <<>>
  BY DEF Init, Html_idle, Idle
<1> QED
  BY <1>1, <1>2, <1>3 DEF LInv, Given_up, Owned, Emptied, Kept_by_renderer

-------------------------------------------------------------------------------
(***************************************************************************)
(* The renderer.                                                           *)
(***************************************************************************)

\* A step of the renderer is made while it renders, and goes on or ends.
LEMMA Renders ==
  ASSUME HNext \/ Rndr_no_tmp \/ Rndr_fails
  PROVE  hphase = "rendering" /\ hphase' # "idle"
<1>1. \A tokens : hphase = "rendering" /\ Rndr_returns(tokens) => hphase' # "idle"
  BY DEF Rndr_returns
<1>2. Crash => hphase' # "idle"
  BY DEF Crash
<1>3. CASE Rndr_child
  BY <1>3 DEF Rndr_child
<1>4. CASE Rndr_plain
  BY <1>1, <1>2, <1>4 DEF Rndr_plain, Rndr_writes
<1>5. CASE Rndr_id
  BY <1>1, <1>5 DEF Rndr_id, Rndr_at, Rndr_writes
<1>6. CASE Rndr_meta
  BY <1>1, <1>6 DEF Rndr_meta, Rndr_at
<1>7. CASE Rndr_footnote
  BY <1>1, <1>7 DEF Rndr_footnote, Rndr_at, Rndr_writes
<1>8. CASE Rndr_root
  <2>1. hphase = "rendering"
    BY <1>8 DEF Rndr_root, Rndr_at
  <2>2. Crash \/ \E tokens : Rndr_returns(tokens)
    BY <1>8 DEF Rndr_root
  <2> QED
    BY <1>1, <1>2, <2>1, <2>2
<1>9. CASE Rndr_root_template
  BY <1>9 DEF Rndr_root_template, Rndr_at
<1>10. CASE Rndr_no_tmp
  BY <1>1, <1>10 DEF Rndr_no_tmp
<1>11. CASE Rndr_fails
  <2>1. hphase = "rendering"
    BY <1>11 DEF Rndr_fails
  <2>2. \E tokens : Rndr_returns(tokens)
    BY <1>11 DEF Rndr_fails
  <2> QED
    BY <1>1, <2>1, <2>2
<1> QED
  BY <1>3, <1>4, <1>5, <1>6, <1>7, <1>8, <1>9, <1>10, <1>11 DEF HNext

-------------------------------------------------------------------------------
(***************************************************************************)
(* The steps of the functions.                                             *)
(***************************************************************************)
\* An object that the function frees is allocated, or memory runs out.
LEMMA Allocates ==
  ASSUME LInv, NEW obj \in Inputs \cup Made, NEW next, NEW err, Allocated(obj, next, err),
         pc \notin {"html", "dead"}, "rndr" \notin live,
         next \notin {"html", "dead", "rndr failed", "returned", "writer", "doc"},
         next = "parse" => pc = "doc" /\ obj = "doc",
         err \in {"err", "out"},
         obj \in Inputs => IsFile /\ live \cap Made = {},
         obj \in Made => next \notin {"bufs", "putf", "read", "out"},
         err = "out" => IsFile /\ live \cap Made = {}
  PROVE  LInv'
<1>1. UNCHANGED <<session, rc, foots, metaq, headers_used, ops, hphase>>
  BY DEF Allocated, To, hvars, evars
<1>2. \/ live' = live \cup {obj} /\ pc' = next
      \/ live' = live /\ pc' = err
  BY DEF Allocated, To
<1>3. Given_up'
  BY <1>1, <1>2 DEF LInv, Given_up, Inputs, Made
<1>4. Owned'
  BY <1>1, <1>2 DEF LInv, Owned, IsFile, IsDiff, Inputs, Made
<1>5. Emptied'
  BY <1>1, <1>2 DEF LInv, Emptied, Kept_by_renderer
<1> QED
  BY <1>3, <1>4, <1>5 DEF LInv

\* Nothing is allocated or freed, and the renderer does nothing.
LEMMA Moves ==
  ASSUME LInv, UNCHANGED <<session, live, rc, hvars, ops>>,
         pc \notin {"html", "dead", "returned"},
         pc' \notin {"html", "rndr failed", "returned", "writer", "parse"},
         pc = "rndr failed" => pc' = "rndr failed",
         pc' \in {"bufs", "putf", "read", "doc", "out"} => pc \in {"bufs", "putf", "read", "doc", "out"},
         pc' \in {"bufs", "putf", "read", "out"} => pc \in {"bufs", "putf", "read", "out"}
  PROVE  LInv'
<1>1. UNCHANGED <<foots, metaq, headers_used, hphase>>
  BY DEF hvars
<1>2. Given_up'
  BY DEF LInv, Given_up
<1>3. Owned'
  BY DEF LInv, Owned, IsFile, IsDiff
<1>4. Emptied'
  BY <1>1 DEF LInv, Emptied, Kept_by_renderer
<1> QED
  BY <1>2, <1>3, <1>4 DEF LInv

LEMMA ReadingInv ==
  ASSUME LInv, Lowdown_file \/ Read_file \/ Read_fails \/ Read_done
  PROVE  LInv'
<1>1. CASE Lowdown_file
  <2>1. pc = "bufs" /\ IsFile /\ live \cap Made = {} /\ "rndr" \notin live
    BY <1>1 DEF Lowdown_file, LInv, Owned
  <2>2. PICK k \in DOMAIN Bufs :
          New(Bufs[k], IF Bufs[k] = Bufs[Len(Bufs)] THEN "putf" ELSE "bufs", "out")
    BY <1>1 DEF Lowdown_file
  <2>3. Bufs[k] \in Inputs
    BY DEF Bufs, Inputs
  <2> DEFINE next == IF Bufs[k] = Bufs[Len(Bufs)] THEN "putf" ELSE "bufs"
  <2>4. Allocated(Bufs[k], next, "out") /\ next \in {"putf", "bufs"}
    BY <2>2 DEF New
  <2>5. Bufs[k] \notin Made
    BY <2>3 DEF Inputs, Made
  <2> HIDE DEF next
  <2> QED
    BY <2>1, <2>3, <2>4, <2>5, Allocates
<1>2. CASE Read_file
  BY <1>2, Moves DEF Read_file, evars
<1>3. CASE Read_fails
  BY <1>3, Moves DEF Read_fails, evars
<1>4. CASE Read_done
  <2>1. pc = "read" /\ pc' \in {"out", "putf", "doc"}
        /\ UNCHANGED <<session, live, rc, hvars, evars>>
    BY <1>4 DEF Read_done
  <2> QED
    BY <2>1, Moves DEF evars
<1> QED
  BY <1>1, <1>2, <1>3, <1>4

LEMMA BuildingInv ==
  ASSUME LInv, Lowdown_doc_new \/ Lowdown_doc_parse \/ Lowdown_diff \/ Lowdown_buf_new
  PROVE  LInv'
<1>1. CASE Lowdown_doc_new
  BY <1>1, Allocates DEF Lowdown_doc_new, New, LInv, Owned, Inputs, Made
<1>2. CASE Lowdown_buf_new
  BY <1>2, Allocates DEF Lowdown_buf_new, New, LInv, Owned, Inputs, Made
<1>3. CASE Lowdown_doc_parse
  <2>0. pc = "parse" /\ UNCHANGED <<session, rc, foots, metaq, headers_used, ops, hphase>>
    BY <1>3 DEF Lowdown_doc_parse, To, hvars, evars
  <2>1. \/ /\ live' \in {live \cup {"n"}, live \cup {"nnew"}, live \cup {"nold"}}
           /\ (pc' \in {"smarty", "diff"}) \/ (pc' = "parse" /\ IsDiff)
        \/ live' = live /\ pc' = "err"
    <3>1. CASE IsDiff
      <4> DEFINE tree == Trees[IF Trees[1] \in live THEN 2 ELSE 1]
      <4>1. tree \in {"nnew", "nold"}
        BY <3>1 DEF Trees
      <4>2. \/ /\ live' = live \cup {tree}
               /\ pc' = (IF "nnew" \in live THEN "diff" ELSE "parse")
            \/ live' = live /\ pc' = "err"
        BY <1>3, <3>1 DEF Lowdown_doc_parse, To
      <4> HIDE DEF tree
      <4>3. live' = live \cup {tree} => live' \in {live \cup {"nnew"}, live \cup {"nold"}}
        BY <4>1
      <4> QED
        BY <3>1, <4>2, <4>3
    <3>2. CASE ~IsDiff
      <4>1. Trees = <<"n">> /\ "n" \notin live
        BY <2>0, <3>2 DEF Trees, LInv, Owned
      <4>2. Trees[IF Trees[1] \in live THEN 2 ELSE 1] = "n"
        BY <4>1
      <4> QED
        BY <1>3, <3>2, <4>2 DEF Lowdown_doc_parse, To
    <3> QED
      BY <3>1, <3>2
  <2>2. Given_up'
    BY <2>0, <2>1 DEF LInv, Given_up, Inputs, Made
  <2>3. Owned'
    BY <2>0, <2>1 DEF LInv, Owned, IsFile, IsDiff, Inputs, Made
  <2>4. Emptied'
    BY <2>0, <2>1 DEF LInv, Emptied, Kept_by_renderer
  <2> QED
    BY <2>2, <2>3, <2>4 DEF LInv
<1>4. CASE Lowdown_diff
  <2>1. /\ pc = "diff" /\ UNCHANGED <<session, rc, foots, metaq, headers_used, ops, hphase>>
        /\ \/ live' = live \cup {"ndiff"} /\ pc' = "smarty"
           \/ live' = live /\ pc' = "dead"
    BY <1>4 DEF Lowdown_diff, To, hvars, evars
  <2>2. Given_up'
    BY <2>1 DEF LInv, Given_up, Inputs, Made
  <2>3. Owned'
    BY <2>1 DEF LInv, Owned, IsFile, IsDiff, Inputs, Made
  <2>4. Emptied'
    BY <2>1 DEF LInv, Emptied, Kept_by_renderer
  <2> QED
    BY <2>2, <2>3, <2>4 DEF LInv
<1> QED
  BY <1>1, <1>2, <1>3, <1>4

LEMMA SmartyInv == ASSUME LInv, Apply_smarty \/ No_smarty PROVE LInv'
<1>1. /\ pc = "smarty" /\ pc' \in {"smarty", "ob", "err"}
      /\ UNCHANGED <<session, live, rc, hvars, evars>>
  BY DEF Apply_smarty, No_smarty, Only, To, lvars
<1> QED
  BY <1>1, Moves DEF evars

LEMMA RenderingInv ==
  ASSUME LInv, \/ Lowdown_render_other \/ Lowdown_html_new \/ Run_html \/ Run_html_fails
               \/ Html_done \/ Html_failed \/ Dead
  PROVE  LInv'
<1>1. CASE Lowdown_render_other
  BY <1>1, Moves DEF Lowdown_render_other, Only, To, evars
<1>2. CASE Lowdown_html_new
  <2>1. /\ pc = "render" /\ UNCHANGED <<session, rc, foots, metaq, headers_used, ops, hphase>>
        /\ \/ live' = live \cup {"rndr"} /\ pc' = "html"
           \/ live' = live /\ pc' = "err"
    BY <1>2 DEF Lowdown_html_new, New, Allocated, To, hvars, evars
  <2>2. Given_up'
    BY <2>1 DEF LInv, Given_up
  <2>3. Owned'
    BY <2>1 DEF LInv, Owned, IsFile, IsDiff, Inputs, Made
  <2>4. Emptied'
    BY <2>1 DEF LInv, Emptied, Kept_by_renderer
  <2> QED
    BY <2>2, <2>3, <2>4 DEF LInv
<1>3. CASE Run_html
  <2>1. pc = "html" /\ UNCHANGED <<session, pc, live, rc, ops>>
    BY <1>3 DEF Run_html, lvars, evars
  <2>2. hphase # "template" /\ hphase' # "idle"
    <3>1. CASE HNext
      BY <3>1, Renders
    <3>2. CASE Lowdown_html_rndr(session.oflags, session.templ # <<>>)
      BY <3>2 DEF Lowdown_html_rndr
    <3> QED
      BY <1>3, <3>1, <3>2 DEF Run_html
  <2>3. Given_up' /\ Owned'
    BY <2>1 DEF LInv, Given_up, Owned, IsFile, IsDiff
  <2>4. Emptied'
    BY <2>1, <2>2 DEF LInv, Emptied
  <2> QED
    BY <2>3, <2>4 DEF LInv
<1>4. CASE Run_html_fails
  <2>1. pc = "html" /\ UNCHANGED <<session, live, rc, ops>>
    BY <1>4 DEF Run_html_fails, evars
  <2>2. CASE Rndr_no_tmp \/ Rndr_fails
    <3>1. hphase # "template" /\ hphase' # "idle"
      BY <2>2, Renders
    <3>2. pc' = pc
      BY <1>4, <3>1, <2>2, Renders DEF Run_html_fails, hvars
    <3>3. Given_up' /\ Owned'
      BY <2>1, <3>2 DEF LInv, Given_up, Owned, IsFile, IsDiff
    <3>4. Emptied'
      BY <2>1, <3>1, <3>2 DEF LInv, Emptied
    <3> QED
      BY <3>3, <3>4 DEF LInv
  <2>3. CASE hphase = "idle" /\ pc' = "rndr failed" /\ UNCHANGED hvars
    <3>1. UNCHANGED <<foots, metaq, headers_used, hphase>>
      BY <2>3 DEF hvars
    <3>2. Given_up'
      BY <2>1 DEF LInv, Given_up
    <3>3. Owned'
      BY <2>1, <2>3 DEF LInv, Owned, IsFile, IsDiff
    <3>4. Emptied'
      BY <2>1, <2>3, <3>1 DEF LInv, Emptied, Kept_by_renderer
    <3> QED
      BY <3>2, <3>3, <3>4 DEF LInv
  <2> QED
    BY <1>4, <2>2, <2>3 DEF Run_html_fails
<1>5. CASE Html_done
  <2>1. /\ pc = "html" /\ hphase = "done" /\ hphase' = hphase
        /\ foots' = <<>> /\ metaq' = <<>> /\ headers_used' = <<>>
        /\ live' = live \ {"rndr"} /\ pc' = "give"
        /\ UNCHANGED <<session, rc, ops>>
    BY <1>5 DEF Html_done, Lowdown_html_ends, Rndr_done, To, evars
  <2>2. Given_up'
    BY <2>1 DEF LInv, Given_up
  <2>3. Owned'
    BY <2>1 DEF LInv, Owned, IsFile, IsDiff
  <2>4. Emptied'
    BY <2>1 DEF LInv, Emptied, Kept_by_renderer
  <2> QED
    BY <2>2, <2>3, <2>4 DEF LInv
<1>6. CASE Html_failed
  <2>1. /\ pc = "rndr failed" /\ live' = live \ {"rndr"} /\ pc' = "err"
        /\ UNCHANGED <<session, rc, ops, foots, metaq, headers_used, hphase>>
    BY <1>6 DEF Html_failed, Rndr_done, To, evars, hvars
  <2>2. Given_up'
    BY <2>1 DEF LInv, Given_up
  <2>3. Owned'
    BY <2>1 DEF LInv, Owned, IsFile, IsDiff
  <2>4. Emptied'
    BY <2>1 DEF LInv, Emptied, Kept_by_renderer
  <2> QED
    BY <2>2, <2>3, <2>4 DEF LInv
<1>7. CASE Dead
  <2>1. /\ pc = "html" /\ pc' = "dead"
        /\ UNCHANGED <<session, live, rc, ops, foots, metaq, headers_used, hphase>>
    BY <1>7 DEF Dead, Only, To, evars, hvars
  <2> QED
    BY <2>1 DEF LInv, Given_up, Owned, Emptied, IsFile
<1> QED
  BY <1>1, <1>2, <1>3, <1>4, <1>5, <1>6, <1>7

LEMMA TemplatingInv ==
  ASSUME LInv, Run_template \/ Run_template_fails \/ Template_done
  PROVE  LInv'
<1>1. pc = "html" /\ hphase = "template" /\ UNCHANGED <<session, pc, live, rc>>
  BY DEF Run_template, Run_template_fails, Template_done, lvars
<1>2. Given_up' /\ Owned'
  BY <1>1 DEF LInv, Given_up, Owned, IsFile, IsDiff
<1>3. hphase' # "idle" /\ (hphase' # "template" => ops' = <<>>)
  <2>1. CASE Run_template \/ Run_template_fails
    BY <2>1, <1>1 DEF Run_template, Run_template_fails, hvars
  <2>2. CASE Template_done
    BY <2>2, <1>1 DEF Template_done, Rndr_returns
  <2> QED
    BY <2>1, <2>2
<1>4. Emptied'
  BY <1>1, <1>3 DEF LInv, Emptied
<1> QED
  BY <1>2, <1>4 DEF LInv

\* On the way out everything is freed but the value.
LEMMA ReturningInv ==
  ASSUME LInv, Give \/ Err \/ Out \/ Writer
  PROVE  LInv'
<1>1. UNCHANGED <<session, foots, metaq, headers_used, ops, hphase>>
  BY DEF Give, Err, Out, Writer, To, hvars, evars
<1>2. /\ pc \notin {"html", "dead"}
      /\ pc' \in {"err", "out", "returned", "writer"}
  BY DEF Give, Err, Out, Writer, To
<1>3. Emptied'
  BY <1>1, <1>2 DEF LInv, Emptied, Kept_by_renderer
<1>4. Given_up' /\ Owned'
  <2>1. CASE Give
    BY <2>1, <1>1 DEF Give, LInv, Given_up, Owned, IsFile, Inputs, Made
  <2>2. CASE Err
    BY <2>2, <1>1 DEF Err, To, LInv, Given_up, Owned, IsFile, Inputs, Made
  <2>3. CASE Out
    BY <2>3, <1>1 DEF Out, To, LInv, Given_up, Owned, IsFile, Inputs, Made
  <2>4. CASE Writer
    BY <2>4, <1>1 DEF Writer, LInv, Given_up, Owned, IsFile, Inputs, Made
  <2> QED
    BY <2>1, <2>2, <2>3, <2>4
<1> QED
  BY <1>3, <1>4 DEF LInv

LEMMA NextLInv == LInv /\ [Next]_vars => LInv'
<1> SUFFICES ASSUME LInv, [Next]_vars PROVE LInv'
  OBVIOUS
<1>1. CASE Step
  BY <1>1, ReadingInv, BuildingInv, SmartyInv, RenderingInv, TemplatingInv, ReturningInv DEF Step
<1>2. CASE UNCHANGED vars
  <2>1. UNCHANGED <<session, pc, live, rc, foots, metaq, headers_used, ops, hphase>>
    BY <1>2 DEF vars, lvars, hvars, evars
  <2> QED
    BY <2>1 DEF LInv, Given_up, Owned, Emptied, Kept_by_renderer, IsFile, IsDiff
<1> QED
  BY <1>1, <1>2 DEF Next, Rest

(***************************************************************************)
(* Every call returns with nothing allocated but the value, if it gives    *)
(* one, and the renderer and the template with nothing of the document     *)
(* (library.c:64-429).                                                     *)
(***************************************************************************)
THEOREM NothingLeft == Spec => []CleansUp
<1>1. LInv => CleansUp
  <2> SUFFICES ASSUME LInv, pc = "returned" PROVE CleansUp
    BY DEF CleansUp
  <2>1. live \subseteq {"data"}
    BY DEF LInv, Given_up, Owned, Inputs, Made
  <2>2. live = IF rc = 1 THEN {"data"} ELSE {}
    <3>1. CASE "data" \in live
      <4>1. live = {"data"} /\ rc = 1
        BY <2>1, <3>1 DEF LInv, Given_up
      <4> QED
        BY <4>1
    <3>2. CASE "data" \notin live
      <4>1. live = {} /\ rc = 0
        BY <2>1, <3>2 DEF LInv, Given_up
      <4> QED
        BY <4>1
    <3> QED
      BY <3>1, <3>2
  <2>3. Kept_by_renderer /\ ops = <<>>
    BY DEF LInv, Emptied
  <2> QED
    BY <2>2, <2>3 DEF CleansUp, Kept_by_renderer
<1>2. Init => LInv
  BY InitLInv
<1>3. LInv /\ [Next]_vars => LInv'
  BY NextLInv
<1> QED
  BY <1>1, <1>2, <1>3, PTL DEF Spec
-------------------------------------------------------------------------------
(***************************************************************************)
(* The buffer, as it is used.  A file is read with what is left of it.     *)
(***************************************************************************)
File == [bytes : Nat, error : BOOLEAN]

File_left ==
  /\ session \in Sessions /\ unit = session.unit
  /\ files \in Seq(File) /\ read \in Nat
  /\ pc \in {"bufs", "putf", "read"} => files # <<>>
  /\ pc = "bufs" => read = 0
  /\ pc = "putf" => read <= files[1].bytes

FInv == BInv /\ File_left

LEMMA FirstFile ==
  ASSUME NEW s \in Seq(File), s # <<>> PROVE s[1].bytes \in Nat
<1>1. Len(s) \in Nat /\ Len(s) # 0
  BY EmptySeq, LenProperties
<1>2. s[1] \in File
  BY <1>1, ElementOfSeq
<1> QED
  BY <1>2 DEF File

LEMMA InitFInv == Init => FInv
<1> SUFFICES ASSUME Init PROVE FInv
  OBVIOUS
<1>1. /\ session \in Sessions /\ files = session.files /\ read = 0
      /\ pc \in {"writer", "bufs", "doc"} /\ (pc = "bufs" => IsFile)
      /\ unit = session.unit /\ size = 0 /\ maxsize = 0 /\ wrote = 0
  BY DEF Init
<1>2. /\ session.unit \in Units /\ files \in Seq(File)
      /\ session.call \in {"file", "file_diff"} => files # <<>>
  BY <1>1, SessionsAssumption DEF File
<1>3. File_left
  BY <1>1, <1>2 DEF File_left, IsFile
<1>4. BInv
  BY <1>1, <1>2, BufferAssumption DEF BInv, BTypeOK, InBounds
<1> QED
  BY <1>3, <1>4 DEF FInv

\* Most steps leave the buffer and the files alone, and go on past reading.
LEMMA Elsewhere ==
  ASSUME FInv, UNCHANGED <<session, files, read, bvars>>,
         pc' \notin {"bufs", "putf", "read"}
  PROVE  FInv'
<1>1. BInv'
  BY DEF FInv, BInv, BTypeOK, InBounds, bvars
<1>2. File_left'
  BY DEF FInv, File_left, bvars
<1> QED
  BY <1>1, <1>2 DEF FInv

LEMMA FilesInv ==
  ASSUME FInv, Lowdown_file \/ Read_file \/ Read_fails \/ Read_done
  PROVE  FInv'
<1>1. CASE Lowdown_file
  <2>1. pc = "bufs" /\ UNCHANGED <<session, files, read, bvars>>
        /\ pc' \in {"bufs", "putf", "out"}
    BY <1>1 DEF Lowdown_file, New, Allocated, To
  <2>2. files[1].bytes \in Nat /\ files # <<>> /\ read = 0
    BY <2>1, FirstFile DEF FInv, File_left
  <2>3. BInv'
    BY <2>1 DEF FInv, BInv, BTypeOK, InBounds, bvars
  <2>4. File_left'
    BY <2>1, <2>2 DEF FInv, File_left, bvars
  <2> QED
    BY <2>3, <2>4 DEF FInv
<1>2. CASE Read_file
  <2>1. /\ pc = "putf" /\ read' = read + Chunk /\ pc' \in {"read", "putf"}
        /\ UNCHANGED <<session, files>> /\ Hbuf_putf(Chunk)
    BY <1>2 DEF Read_file
  <2>2. files \in Seq(File) /\ files # <<>> /\ read \in Nat /\ read <= files[1].bytes
        /\ unit \in Nat /\ unit = session.unit
    BY <2>1, BufferAssumption DEF FInv, BInv, BTypeOK, File_left
  <2>3. Chunk \in 0 .. unit /\ Chunk <= files[1].bytes - read
    BY <2>2, FirstFile DEF Chunk, Left
  <2>4. BInv'
    BY <2>1, <2>3, PutfInv DEF FInv
  <2>5. unit' = unit
    BY <2>1 DEF Hbuf_putf, Write
  <2>6. read' \in Nat /\ read' <= files[1].bytes
    BY <2>1, <2>2, <2>3, FirstFile
  <2>7. File_left'
    BY <2>1, <2>2, <2>5, <2>6 DEF FInv, File_left
  <2> QED
    BY <2>4, <2>7 DEF FInv
<1>3. CASE Read_fails
  BY <1>3, Elsewhere DEF Read_fails
<1>4. CASE Read_done
  <2>1. pc = "read" /\ read' = 0 /\ session' = session
    BY <1>4 DEF Read_done
  <2>2. files # <<>> /\ files \in Seq(File) /\ unit = session.unit /\ unit \in Units
    BY <2>1 DEF FInv, BInv, BTypeOK, File_left
  <2>3. CASE files[1].error
    <3>1. pc' = "out" /\ UNCHANGED <<files, bvars>>
      BY <1>4, <2>3 DEF Read_done
    <3>2. BInv'
      BY <3>1 DEF FInv, BInv, BTypeOK, InBounds, bvars
    <3>3. File_left'
      BY <2>1, <2>2, <3>1 DEF FInv, File_left, bvars
    <3> QED
      BY <3>2, <3>3 DEF FInv
  <2>4. CASE ~files[1].error
    <3>1. /\ files' = Tail(files) /\ Hbuf_init(unit)
          /\ pc' = IF Len(files) > 1 THEN "putf" ELSE "doc"
      BY <1>4, <2>4 DEF Read_done
    <3>2. /\ Tail(files) \in Seq(File) /\ Len(Tail(files)) = Len(files) - 1
          /\ Len(files) \in Nat
      BY <2>2, HeadTailProperties, LenProperties
    <3>3. files' \in Seq(File) /\ (pc' = "putf" => files' # <<>> /\ files'[1].bytes \in Nat)
      <4>1. files' \in Seq(File)
        BY <3>1, <3>2
      <4>2. ASSUME pc' = "putf" PROVE files' # <<>> /\ files'[1].bytes \in Nat
        <5>1. Len(files') > 0
          BY <3>1, <3>2, <4>2
        <5>2. files' # <<>>
          BY <5>1
        <5> QED
          BY <4>1, <5>2, FirstFile
      <4> QED
        BY <4>1, <4>2
    <3>4. BInv'
      BY <2>2, <3>1, BufferAssumption DEF Hbuf_init, BInv, BTypeOK, InBounds
    <3>5. File_left'
      BY <2>1, <2>2, <3>1, <3>3 DEF FInv, File_left, Hbuf_init
    <3> QED
      BY <3>4, <3>5 DEF FInv
  <2> QED
    BY <2>3, <2>4
<1> QED
  BY <1>1, <1>2, <1>3, <1>4

LEMMA WriterInv == ASSUME FInv, Writer PROVE FInv'
<1>1. pc = "writer" /\ pc' \in {"writer", "returned"} /\ UNCHANGED <<session, files, read>>
      /\ (Hbuf_call \/ UNCHANGED bvars)
  BY DEF Writer
<1>2. BInv' /\ unit' = unit
  <2>1. CASE \E n \in 1 .. Memory : Hbuf_put(n)
    BY <2>1, PutInv DEF FInv, Hbuf_put, Write
  <2>2. CASE Hbuf_putc
    BY <2>2, PutcInv DEF FInv, Hbuf_putc, Write
  <2>3. CASE \E n \in 0 .. Memory : Hbuf_printf(n)
    BY <2>3, PrintfInv DEF FInv, Hbuf_printf
  <2>4. CASE Hbuf_truncate
    BY <2>4, BufferAssumption DEF Hbuf_truncate, FInv, BInv, BTypeOK, InBounds
  <2>5. CASE UNCHANGED bvars
    BY <2>5 DEF bvars, FInv, BInv, BTypeOK, InBounds
  <2> QED
    BY <1>1, <2>1, <2>2, <2>3, <2>4, <2>5 DEF Hbuf_call
<1>3. File_left'
  BY <1>1, <1>2 DEF FInv, File_left
<1> QED
  BY <1>2, <1>3 DEF FInv

LEMMA OthersInv ==
  ASSUME FInv, Step, ~(Lowdown_file \/ Read_file \/ Read_fails \/ Read_done \/ Writer)
  PROVE  FInv'
<1>1. /\ UNCHANGED <<session, files, read, bvars>>
      /\ pc' \notin {"bufs", "putf", "read"}
  <2>1. CASE Lowdown_doc_new \/ Lowdown_doc_parse \/ Lowdown_diff \/ Lowdown_buf_new
    BY <2>1 DEF Lowdown_doc_new, Lowdown_doc_parse, Lowdown_diff, Lowdown_buf_new,
                New, Allocated, To
  <2>2. CASE Apply_smarty \/ No_smarty
    BY <2>2 DEF Apply_smarty, No_smarty, Only, To, lvars
  <2>3. CASE Lowdown_render_other \/ Lowdown_html_new \/ Dead
    BY <2>3 DEF Lowdown_render_other, Lowdown_html_new, Dead, New, Allocated, Only, To
  <2>4. CASE Run_html \/ Run_html_fails
    BY <2>4 DEF Run_html, Run_html_fails, lvars
  <2>5. CASE Run_template \/ Run_template_fails \/ Template_done
    BY <2>5 DEF Run_template, Run_template_fails, Template_done, lvars
  <2>6. CASE Html_done \/ Html_failed
    BY <2>6 DEF Html_done, Html_failed, Rndr_done, To
  <2>7. CASE Give \/ Err \/ Out
    BY <2>7 DEF Give, Err, Out, To
  <2> QED
    BY <2>1, <2>2, <2>3, <2>4, <2>5, <2>6, <2>7 DEF Step
<1> QED
  BY <1>1, Elsewhere

(***************************************************************************)
(* However many bytes a file has, wherever it ends in an error or memory   *)
(* runs out, and whatever a renderer writes, the buffers of a call are     *)
(* never written past what is allocated for them (library.c:92, 310).      *)
(***************************************************************************)
THEOREM CallsInBounds == Spec => []InBounds
<1>1. FInv /\ [Next]_vars => FInv'
  <2> SUFFICES ASSUME FInv, [Next]_vars PROVE FInv'
    OBVIOUS
  <2>1. CASE Step
    BY <2>1, FilesInv, WriterInv, OthersInv
  <2>2. CASE UNCHANGED vars
    BY <2>2 DEF vars, lvars, bvars, FInv, BInv, BTypeOK, InBounds, File_left
  <2> QED
    BY <2>1, <2>2 DEF Next, Rest
<1>2. FInv => InBounds
  BY DEF FInv, BInv
<1> QED
  BY <1>1, <1>2, InitFInv, PTL DEF Spec

-------------------------------------------------------------------------------
(***************************************************************************)
(* Operations in a row.                                                    *)
(***************************************************************************)
Kinds == {"ROOT", "STR", "EXPR", "IFDEF", "ELSE", "FOR"}

Typed(q) ==
  \E E : q \in Seq([type : Kinds, expr : E, parent : Nat, chain : Nat])

\* A sequence is one over any set that has its elements.
LEMMA Widened ==
  ASSUME NEW S, NEW T, NEW s \in Seq(S), \A i \in DOMAIN s : s[i] \in T
  PROVE  s \in Seq(T)
BY SeqDef

\* One more, by either of the ways the model has for it.
LEMMA OneMore ==
  ASSUME NEW q, Typed(q), NEW type \in Kinds, NEW expr, NEW parent \in Nat,
         NEW r, r = Append(q, Op(type, expr, parent)) \/ r = q \o <<Op(type, expr, parent)>>
  PROVE  /\ Typed(r) /\ Len(q) \in Nat /\ Len(r) = Len(q) + 1
         /\ DOMAIN q = 1 .. Len(q) /\ DOMAIN r = 1 .. Len(q) + 1
         /\ \A i \in 1 .. Len(q) : r[i] = q[i]
         /\ r[Len(q) + 1] = Op(type, expr, parent)
<1>1. PICK E : q \in Seq([type : Kinds, expr : E, parent : Nat, chain : Nat])
  BY DEF Typed
<1> DEFINE F == E \cup {expr}
           S == [type : Kinds, expr : F, parent : Nat, chain : Nat]
           op == Op(type, expr, parent)
<1>2. op \in S
  BY DEF Op
<1>3. q \in Seq(S)
  <2>1. [type : Kinds, expr : E, parent : Nat, chain : Nat] \subseteq S
    OBVIOUS
  <2> DEFINE R == [type : Kinds, expr : E, parent : Nat, chain : Nat]
  <2> HIDE DEF S, R
  <2>2. q \in Seq(R) /\ R \subseteq S
    BY <1>1, <2>1 DEF R
  <2>3. \A i \in DOMAIN q : q[i] \in S
    BY <2>2
  <2> QED
    BY <2>2, <2>3, Widened
<1> HIDE DEF S, op
<1>4. r \in Seq(S) /\ Len(r) = Len(q) + 1
      /\ (\A i \in 1 .. Len(q) : r[i] = q[i]) /\ r[Len(q) + 1] = op
  <2>1. CASE r = Append(q, op)
    BY <2>1, <1>2, <1>3, AppendProperties
  <2>2. CASE r = q \o <<op>>
    BY <2>2, <1>2, <1>3
  <2> QED
    BY <2>1, <2>2 DEF op
<1>5. Len(q) \in Nat /\ DOMAIN q = 1 .. Len(q) /\ DOMAIN r = 1 .. Len(q) + 1
  BY <1>3, <1>4, LenProperties
<1>6. Typed(r)
  BY <1>4 DEF Typed, S
<1> QED
  BY <1>4, <1>5, <1>6 DEF op

(***************************************************************************)
(* The operations q are a tree, with the block of c open: parents come     *)
(* before their children, an else comes after the ifdef that is chained to *)
(* it, both have the same parent, and no other is chained to it; and no    *)
(* block that is open is that of a chained ifdef, as nothing from it to    *)
(* its else is the parent of anything that comes later.                    *)
(***************************************************************************)
Chained(q, o) ==
  /\ q[o].chain \in o + 1 .. Len(q)
  /\ q[o].type = "IFDEF" /\ q[q[o].chain].type = "ELSE"
  /\ q[q[o].chain].parent = q[o].parent

Past(q, o, c) ==
  /\ c \notin o .. q[o].chain - 1
  /\ \A p \in q[o].chain .. Len(q) : q[p].parent \notin o .. q[o].chain - 1

InTree(q) ==
  /\ Typed(q) /\ Len(q) \in Nat \ {0} /\ DOMAIN q = 1 .. Len(q)
  /\ q[1].type = "ROOT" /\ q[1].parent = 0
  /\ \A p \in 2 .. Len(q) : q[p].parent \in 1 .. p - 1
  /\ \A o \in 1 .. Len(q) : q[o].chain # 0 => Chained(q, o)
  /\ \A o, p \in 1 .. Len(q) : q[o].chain # 0 /\ q[o].chain = q[p].chain => o = p

Open_at(q, c) ==
  /\ c \in 1 .. Len(q)
  /\ \A o \in 1 .. Len(q) : q[o].chain # 0 => Past(q, o, c)

\* The block that is open is left for that around it.
LEMMA Leaves_block ==
  ASSUME NEW q, NEW c, InTree(q), Open_at(q, c), c # 1
  PROVE  Open_at(q, q[c].parent)
<1>1. /\ c \in 2 .. Len(q) /\ Len(q) \in Nat /\ q[c].parent \in 1 .. c - 1
  BY DEF InTree, Open_at
<1>2. ASSUME NEW o \in 1 .. Len(q), q[o].chain # 0 PROVE Past(q, o, q[c].parent)
  <2>1. q[o].chain \in o + 1 .. Len(q) /\ Past(q, o, c)
    BY <1>2 DEF InTree, Open_at, Chained
  <2>2. CASE c < o
    BY <2>1, <2>2, <1>1 DEF Past
  <2>3. CASE c >= q[o].chain
    BY <2>1, <2>3, <1>1 DEF Past
  <2> QED
    BY <2>1, <2>2, <2>3, <1>1 DEF Past
<1> QED
  BY <1>1, <1>2 DEF Open_at

\* r is q with an operation in the block of c after it.
Comes(q, type, expr, c, r) ==
  r = Append(q, Op(type, expr, c)) \/ r = q \o <<Op(type, expr, c)>>

\* An operation comes into the block that is open, and may open its own.
LEMMA Comes_in ==
  ASSUME NEW q, NEW c, InTree(q), Open_at(q, c), NEW type \in Kinds, NEW expr,
         NEW r, Comes(q, type, expr, c, r)
  PROVE  /\ InTree(r) /\ Open_at(r, c) /\ Open_at(r, Len(q) + 1)
         /\ Len(r) = Len(q) + 1 /\ r[Len(q) + 1] = Op(type, expr, c)
         /\ \A i \in 1 .. Len(q) : r[i] = q[i]
         /\ \A o \in 1 .. Len(q) : q[o].chain # Len(q) + 1
<1> DEFINE n == Len(q) + 1
<1>1. /\ Len(q) \in Nat \ {0} /\ DOMAIN q = 1 .. Len(q) /\ c \in 1 .. Len(q)
      /\ c \in Nat
  BY DEF InTree, Open_at
<1>2. /\ Typed(r) /\ Len(r) = n /\ DOMAIN r = 1 .. n
      /\ \A i \in 1 .. Len(q) : r[i] = q[i]
      /\ r[n] = Op(type, expr, c)
  BY <1>1, OneMore DEF InTree, Comes
<1>3. r[n].parent = c /\ r[n].chain = 0 /\ r[n].type = type
  BY <1>2 DEF Op
<1>4. ASSUME NEW o \in 1 .. n, r[o].chain # 0
      PROVE  o \in 1 .. Len(q) /\ r[o] = q[o] /\ q[o].chain # 0 /\ Chained(q, o) /\ Past(q, o, c)
  <2>1. o # n
    BY <1>3, <1>4
  <2>2. o \in 1 .. Len(q)
    BY <1>1, <1>4, <2>1
  <2>3. r[o] = q[o] /\ q[o].chain # 0
    BY <1>2, <1>4, <2>2
  <2>4. Chained(q, o) /\ Past(q, o, c)
    BY <2>2, <2>3 DEF InTree, Open_at
  <2> QED
    BY <2>2, <2>3, <2>4
<1>5. ASSUME NEW o \in 1 .. n, r[o].chain # 0
      PROVE  /\ Chained(r, o) /\ Past(r, o, c) /\ Past(r, o, n)
  <2>1. /\ o \in 1 .. Len(q) /\ r[o] = q[o] /\ Chained(q, o) /\ Past(q, o, c)
    BY <1>4, <1>5
  <2>2. q[o].chain \in o + 1 .. Len(q) /\ r[q[o].chain] = q[q[o].chain]
    BY <2>1, <1>1, <1>2 DEF Chained
  <2>3. Chained(r, o)
    BY <1>1, <1>2, <2>1, <2>2 DEF Chained
  <2>4. ASSUME NEW p \in q[o].chain .. n PROVE r[p].parent \notin o .. q[o].chain - 1
    <3>1. CASE p = n
      BY <2>1, <3>1, <1>3 DEF Past
    <3>2. CASE p # n
      <4>1. p \in q[o].chain .. Len(q) /\ p \in 1 .. Len(q)
        BY <3>2, <2>1, <2>2, <1>1
      <4> QED
        BY <4>1, <2>1, <1>2 DEF Past
    <3> QED
      BY <3>1, <3>2
  <2>5. n \notin o .. q[o].chain - 1 /\ c \notin o .. q[o].chain - 1
    BY <2>1, <2>2, <1>1 DEF Past
  <2> QED
    BY <2>1, <2>3, <2>4, <2>5, <1>2 DEF Past
<1>6. ASSUME NEW p \in 2 .. n PROVE r[p].parent \in 1 .. p - 1
  <2>1. CASE p = n
    BY <2>1, <1>1, <1>3
  <2>2. CASE p \in 2 .. Len(q)
    BY <2>2, <1>2 DEF InTree
  <2> QED
    BY <2>1, <2>2, <1>1
<1>7. ASSUME NEW o \in 1 .. n, NEW p \in 1 .. n, r[o].chain # 0, r[o].chain = r[p].chain
      PROVE  o = p
  <2>1. /\ o \in 1 .. Len(q) /\ r[o] = q[o] /\ p \in 1 .. Len(q) /\ r[p] = q[p]
    BY <1>4, <1>7
  <2> QED
    BY <2>1, <1>7 DEF InTree
<1>8. r[1].type = "ROOT" /\ r[1].parent = 0
  BY <1>1, <1>2 DEF InTree
<1>9. InTree(r)
  BY <1>1, <1>2, <1>5, <1>6, <1>7, <1>8 DEF InTree
<1>10. Open_at(r, c) /\ Open_at(r, n)
  BY <1>1, <1>2, <1>5 DEF Open_at
<1>11. \A o \in 1 .. Len(q) : q[o].chain # n
  BY <1>1 DEF InTree, Chained
<1> QED
  BY <1>2, <1>9, <1>10, <1>11
\* The else that has come in last is chained to the ifdef whose block it left.
LEMMA Is_chained ==
  ASSUME NEW r, NEW c, InTree(r), Open_at(r, Len(r)), c \in 1 .. Len(r) - 1,
         r[c].type = "IFDEF", r[c].chain = 0,
         r[Len(r)].type = "ELSE", r[Len(r)].parent = r[c].parent, r[Len(r)].chain = 0,
         \A o \in 1 .. Len(r) : r[o].chain # Len(r),
         NEW s, s = [r EXCEPT ![c].chain = Len(r)]
  PROVE  InTree(s) /\ Open_at(s, Len(r))
<1> DEFINE n == Len(r)
<1>1. /\ n \in Nat \ {0} /\ DOMAIN r = 1 .. n /\ c \in 1 .. n /\ c # n /\ c < n
      /\ r[1].type = "ROOT" /\ c # 1
  BY DEF InTree
<1>2. PICK E : r \in Seq([type : Kinds, expr : E, parent : Nat, chain : Nat])
  BY DEF InTree, Typed
<1> DEFINE S == [type : Kinds, expr : E, parent : Nat, chain : Nat]
           op == [r[c] EXCEPT !.chain = n]
<1>3. op \in S /\ s = [r EXCEPT ![c] = op]
      /\ op.type = r[c].type /\ op.parent = r[c].parent /\ op.chain = n
  <2>1. r \in Seq(S)
    BY <1>2
  <2> HIDE DEF S
  <2>2. r[c] \in S
    BY <1>1, <2>1
  <2> QED
    BY <1>1, <2>2 DEF S
<1>4. r \in Seq(S)
  BY <1>2
<1> HIDE DEF S, op
<1>5. s \in Seq(S) /\ Len(s) = n /\ DOMAIN s = 1 .. n
      /\ s[c] = op /\ \A i \in 1 .. n : i # c => s[i] = r[i]
  BY <1>1, <1>3, <1>4, ExceptSeq
<1>6. Typed(s)
  BY <1>5 DEF Typed, S
<1>7. \A i \in 1 .. n : s[i].type = r[i].type /\ s[i].parent = r[i].parent
  BY <1>3, <1>5
<1>8. s[c].chain = n /\ \A i \in 1 .. n : i # c => s[i].chain = r[i].chain
  BY <1>3, <1>5
<1>9. r[c].parent \in 1 .. c - 1
  <2>1. c \in 2 .. n
    BY <1>1
  <2> QED
    BY <2>1 DEF InTree
<1>10. ASSUME NEW o \in 1 .. n, s[o].chain # 0 PROVE Chained(s, o) /\ Past(s, o, n)
  <2>1. CASE o = c
    <3>1. Chained(s, c)
      BY <1>1, <1>5, <1>7, <1>8 DEF Chained
    <3>2. Past(s, c, n)
      BY <1>1, <1>5, <1>7, <1>8, <1>9 DEF Past
    <3> QED
      BY <2>1, <3>1, <3>2
  <2>2. CASE o # c
    <3>1. r[o].chain # 0 /\ s[o].chain = r[o].chain
      BY <1>8, <1>10, <2>2
    <3>2. Chained(r, o) /\ Past(r, o, n)
      BY <3>1 DEF InTree, Open_at
    <3>3. r[o].chain \in o + 1 .. n /\ r[o].chain \in 1 .. n
      BY <1>1, <3>2 DEF Chained
    <3>4. Chained(s, o)
      BY <1>5, <1>7, <3>1, <3>2, <3>3 DEF Chained
    <3>5. ASSUME NEW p \in r[o].chain .. n PROVE s[p].parent \notin o .. r[o].chain - 1
      <4>1. p \in 1 .. n
        BY <3>3, <1>1
      <4> QED
        BY <4>1, <3>2, <1>7 DEF Past
    <3>6. Past(s, o, n)
      BY <3>1, <3>2, <3>5, <1>5 DEF Past
    <3> QED
      BY <3>4, <3>6
  <2> QED
    BY <2>1, <2>2
<1>11. ASSUME NEW o \in 1 .. n, NEW p \in 1 .. n, s[o].chain # 0, s[o].chain = s[p].chain
       PROVE  o = p
  <2>1. o # c => s[o].chain = r[o].chain /\ r[o].chain # n
    BY <1>8
  <2>2. p # c => s[p].chain = r[p].chain /\ r[p].chain # n
    BY <1>8
  <2> QED
    BY <2>1, <2>2, <1>8, <1>11 DEF InTree
<1>12. \A p \in 2 .. n : s[p].parent \in 1 .. p - 1
  <2> SUFFICES ASSUME NEW p \in 2 .. n PROVE s[p].parent \in 1 .. p - 1
    OBVIOUS
  <2>1. p \in 1 .. n /\ r[p].parent \in 1 .. p - 1
    BY <1>1 DEF InTree
  <2> QED
    BY <2>1, <1>7
<1>13. s[1].type = "ROOT" /\ s[1].parent = 0
  BY <1>1, <1>7 DEF InTree
<1> QED
  BY <1>1, <1>5, <1>6, <1>10, <1>11, <1>12, <1>13 DEF InTree, Open_at

-------------------------------------------------------------------------------
(***************************************************************************)
(* The invariant, and the steps.                                           *)
(***************************************************************************)
CInv ==
  /\ tphase \in {"reading", "running"} => InTree(ops)
  /\ tphase = "reading" => Open_at(ops, cop)

\* With the text before a statement.
LEMMA Texted ==
  ASSUME InTree(ops), Open_at(ops, cop)
  PROVE  /\ InTree(With_text) /\ Open_at(With_text, cop)
         /\ Len(With_text) = Len(ops) + 1 /\ Len(ops) \in Nat
         /\ \A i \in 1 .. Len(ops) : With_text[i] = ops[i]
<1>1. "STR" \in Kinds
  BY DEF Kinds
<1>2. Comes(ops, "STR", SubSeq(templ, cp, Dollar - 1), cop, With_text)
  BY DEF With_text, Comes
<1>3. Len(ops) \in Nat
  BY DEF InTree
<1> QED
  BY <1>1, <1>2, <1>3, Comes_in

LEMMA ReadInv == ASSUME CInv, Read PROVE CInv'
<1>1. tphase = "reading" /\ InTree(ops) /\ Open_at(ops, cop)
  <2>1. Reading
    BY DEF Read, Op_dollar, Op_queue_ifdef, Op_queue_for, Op_queue_block, Op_queue_else,
           Op_queue_endif, Op_queue_endfor, Op_queue_end, Op_queue_expr, Op_exec_root, Now
  <2> QED
    BY <2>1 DEF CInv, Reading
<1> DEFINE q == With_text
<1>2. /\ InTree(q) /\ Open_at(q, cop) /\ Len(q) = Len(ops) + 1 /\ Len(ops) \in Nat
      /\ \A i \in 1 .. Len(ops) : q[i] = ops[i]
      /\ cop \in 1 .. Len(ops)
  BY <1>1, Texted DEF Open_at
<1> HIDE DEF q
\* An operation comes after the text.
<1>3. ASSUME NEW type \in Kinds, NEW expr, NEW block,
             block = cop \/ block = Len(ops) + 2,
             Queue(<<Op(type, expr, cop)>>, block)
      PROVE  CInv'
  <2>1. tphase' = "reading" /\ ops' = q \o <<Op(type, expr, cop)>> /\ cop' = block
    BY <1>1, <1>3 DEF Queue, q
  <2>2. InTree(ops') /\ Open_at(ops', cop) /\ Open_at(ops', Len(q) + 1)
    <3>1. Comes(q, type, expr, cop, ops')
      BY <2>1 DEF Comes
    <3> QED
      BY <1>2, <3>1, Comes_in
  <2>3. Len(q) + 1 = Len(ops) + 2
    BY <1>2
  <2> QED
    BY <1>3, <2>1, <2>2, <2>3 DEF CInv
\* The text alone.
<1>4. ASSUME NEW block, Open_at(q, block), Queue(<<>>, block) PROVE CInv'
  <2>1. tphase' = "reading" /\ ops' = q \o <<>> /\ cop' = block
    BY <1>1, <1>4 DEF Queue, q
  <2>2. ops' = q
    BY <1>2, <2>1 DEF InTree, Typed
  <2> QED
    BY <1>2, <1>4, <2>1, <2>2 DEF CInv
<1>5. CASE Op_dollar
  BY <1>3, <1>5 DEF Op_dollar, Kinds
<1>6. CASE Op_queue_ifdef \/ Op_queue_for
  BY <1>3, <1>6 DEF Op_queue_ifdef, Op_queue_for, Op_queue_block, Kinds
<1>7. CASE Op_queue_expr
  BY <1>3, <1>7 DEF Op_queue_expr, Kinds
<1>8. CASE Op_queue_endif \/ Op_queue_endfor
  <2>1. PICK types \in SUBSET {"IFDEF", "ELSE", "FOR"} :
          Queue(<<>>, IF ops[cop].type \in types THEN ops[cop].parent ELSE cop)
    BY <1>8 DEF Op_queue_endif, Op_queue_endfor, Op_queue_end
  <2>2. CASE ops[cop].type \in types
    <3>1. cop # 1 /\ q[cop] = ops[cop]
      BY <1>1, <1>2, <2>2 DEF InTree
    <3>2. Open_at(q, ops[cop].parent)
      BY <3>1, <1>2, Leaves_block
    <3> QED
      BY <1>4, <2>1, <2>2, <3>2
  <2>3. CASE ops[cop].type \notin types
    BY <1>2, <1>4, <2>1, <2>3
  <2> QED
    BY <2>2, <2>3
<1>9. CASE Op_queue_else
  <2>1. CASE ops[cop].type # "IFDEF"
    BY <1>3, <1>9, <2>1 DEF Op_queue_else, Kinds
  <2>2. CASE ops[cop].type = "IFDEF"
    <3> DEFINE new == Len(ops) + 2
               up == ops[cop].parent
               r == Append(q, Op("ELSE", <<>>, up))
    <3>1. /\ ops' = [r EXCEPT ![cop].chain = new] /\ cop' = new /\ tphase' = "reading"
      BY <1>1, <1>9, <2>2 DEF Op_queue_else, q
    <3>2. cop # 1 /\ q[cop] = ops[cop]
      BY <1>1, <1>2, <2>2 DEF InTree
    <3>3. Open_at(q, up)
      BY <3>2, <1>2, Leaves_block
    <3>4. /\ InTree(r) /\ Open_at(r, Len(q) + 1) /\ Len(r) = Len(q) + 1
          /\ r[Len(q) + 1] = Op("ELSE", <<>>, up)
          /\ \A i \in 1 .. Len(q) : r[i] = q[i]
          /\ \A o \in 1 .. Len(q) : q[o].chain # Len(q) + 1
      <4>1. "ELSE" \in Kinds
        BY DEF Kinds
      <4>2. PICK nil : nil = <<>>
        OBVIOUS
      <4>3. Comes(q, "ELSE", nil, up, r)
        BY <4>2 DEF Comes
      <4> HIDE DEF r, up
      <4>4. /\ InTree(r) /\ Open_at(r, Len(q) + 1) /\ Len(r) = Len(q) + 1
            /\ r[Len(q) + 1] = Op("ELSE", nil, up)
            /\ \A i \in 1 .. Len(q) : r[i] = q[i]
            /\ \A o \in 1 .. Len(q) : q[o].chain # Len(q) + 1
        <5>1. InTree(q) /\ Open_at(q, up)
          BY <1>2, <3>3
        <5> QED
          BY <5>1, <4>1, <4>3, Comes_in
      <4> QED
        BY <4>2, <4>4
    <3> HIDE DEF r
    <3>5. Len(q) + 1 = new /\ Len(r) = new
      BY <1>2, <3>4
    <3>6. r[new].type = "ELSE" /\ r[new].parent = up /\ r[new].chain = 0
      BY <3>4, <3>5 DEF Op
    <3>7. cop \in 1 .. Len(r) - 1 /\ cop \in 1 .. Len(q) /\ r[cop] = ops[cop]
      BY <1>2, <3>2, <3>4, <3>5
    <3>8. ops[cop].chain = 0
      <4>1. ops[cop].chain # 0 => Chained(ops, cop) /\ Past(ops, cop, cop)
        BY <1>1, <1>2 DEF InTree, Open_at
      <4> QED
        BY <4>1, <1>2 DEF Chained, Past
    <3>9. \A o \in 1 .. Len(r) : r[o].chain # Len(r)
      <4> SUFFICES ASSUME NEW o \in 1 .. Len(r) PROVE r[o].chain # Len(r)
        OBVIOUS
      <4>1. CASE o = new
        BY <4>1, <3>5, <3>6, <1>2
      <4>2. CASE o # new
        <5>1. o \in 1 .. Len(q)
          BY <4>2, <3>5, <1>2
        <5> QED
          BY <5>1, <3>4, <3>5
      <4> QED
        BY <4>1, <4>2
    <3>10. InTree(ops') /\ Open_at(ops', new)
      <4>1. /\ InTree(r) /\ Open_at(r, Len(r)) /\ r[cop].type = "IFDEF" /\ r[cop].chain = 0
            /\ r[Len(r)].type = "ELSE" /\ r[Len(r)].parent = r[cop].parent /\ r[Len(r)].chain = 0
            /\ ops' = [r EXCEPT ![cop].chain = Len(r)]
        BY <2>2, <3>1, <3>4, <3>5, <3>6, <3>7, <3>8
      <4>2. InTree(ops') /\ Open_at(ops', Len(r))
        BY <4>1, <3>7, <3>9, Is_chained
      <4> QED
        BY <4>2, <3>5
    <3> QED
      BY <3>1, <3>10 DEF CInv
  <2> QED
    BY <2>1, <2>2
<1>10. CASE Op_exec_root
  <2>1. tphase' = "running"
    BY <1>10 DEF Op_exec_root
  <2>2. \/ ops' = ops \/ ops' = q
        \/ \E rest : ops' = Append(q, Op("STR", rest, cop))
    BY <1>10 DEF Op_exec_root, q
  <2>3. InTree(ops')
    <3>1. "STR" \in Kinds
      BY DEF Kinds
    <3>2. ASSUME NEW rest, ops' = Append(q, Op("STR", rest, cop)) PROVE InTree(ops')
      <4>1. Comes(q, "STR", rest, cop, ops')
        BY <3>2 DEF Comes
      <4> QED
        BY <3>1, <4>1, <1>2, Comes_in
    <3> QED
      BY <1>1, <1>2, <2>2, <3>2
  <2> QED
    BY <2>1, <2>3 DEF CInv
<1> QED
  BY <1>5, <1>6, <1>7, <1>8, <1>9, <1>10 DEF Read

\* Execution leaves the operations alone.
LEMMA ExecuteInv == ASSUME CInv, Execute \/ Fail \/ Go_wrong PROVE CInv'
<1>1. CASE Execute \/ Go_wrong
  <2>1. UNCHANGED ops /\ tphase = "running" /\ tphase' # "reading"
    BY <1>1 DEF Execute, Go_wrong, Op_exec_str, Op_exec_expr, Op_exec_ifdef, Op_exec_for,
                Op_exec_else, Op_exec_return, Op_exec_abort, Running, Running_on, Put_list,
                Branch, Loop
  <2> QED
    BY <2>1 DEF CInv
<1>2. CASE Fail
  BY <1>2 DEF Fail, CInv
<1> QED
  BY <1>1, <1>2

\* The first operation.
LEMMA BeginInv ==
  ASSUME NEW t, NEW content, NEW mq, Lowdown_template(t, content, mq)
  PROVE  CInv'
<1>1. tphase' = "reading" /\ ops' = <<Op("ROOT", <<>>, 0)>> /\ cop' = 1
  BY DEF Lowdown_template
<1>2. /\ Len(ops') = 1 /\ DOMAIN ops' = 1 .. 1 /\ ops'[1] = Op("ROOT", <<>>, 0)
      /\ ops' \in Seq([type : Kinds, expr : {<<>>}, parent : Nat, chain : Nat])
  <2> DEFINE op == Op("ROOT", <<>>, 0)
             S == [type : Kinds, expr : {<<>>}, parent : Nat, chain : Nat]
  <2>1. op \in S
    BY DEF Op, Kinds
  <2>2. ops' = <<op>>
    BY <1>1
  <2> HIDE DEF op, S
  <2>3. ops' \in Seq(S) /\ Len(ops') = 1 /\ DOMAIN ops' = 1 .. 1 /\ ops'[1] = op
    BY <2>1, <2>2
  <2> QED
    BY <2>3 DEF op, S
<1>3. ops'[1].type = "ROOT" /\ ops'[1].parent = 0 /\ ops'[1].chain = 0
  BY <1>2 DEF Op
<1>4. Typed(ops')
  BY <1>2 DEF Typed
<1> QED
  BY <1>1, <1>2, <1>3, <1>4 DEF CInv, InTree, Open_at
LEMMA NextCInv == CInv /\ [Next]_vars => CInv'
<1> SUFFICES ASSUME CInv, [Next]_vars PROVE CInv'
  OBVIOUS
<1>1. CASE UNCHANGED <<ops, cop, tphase>>
  BY <1>1 DEF CInv
<1>2. CASE Run_template
  BY <1>2, BeginInv, ReadInv, ExecuteInv DEF Run_template, ENext
<1>3. CASE Run_template_fails
  BY <1>3, ExecuteInv DEF Run_template_fails
<1>4. CASE Template_done
  BY <1>4 DEF Template_done, CInv
<1>5. CASE Lowdown_file \/ Read_file \/ Read_fails \/ Read_done \/ Lowdown_doc_new
           \/ Lowdown_doc_parse \/ Lowdown_diff \/ Lowdown_buf_new
  BY <1>1, <1>5 DEF Lowdown_file, Read_file, Read_fails, Read_done, Lowdown_doc_new,
       Lowdown_doc_parse, Lowdown_diff, Lowdown_buf_new, New, Allocated, evars
<1>6. CASE Apply_smarty \/ No_smarty \/ Lowdown_render_other \/ Lowdown_html_new \/ Run_html
           \/ Run_html_fails \/ Html_done \/ Html_failed \/ Dead
  BY <1>1, <1>6 DEF Apply_smarty, No_smarty, Lowdown_render_other, Lowdown_html_new, Run_html,
       Run_html_fails, Html_done, Html_failed, Dead, Only, New, Allocated, evars
<1>7. CASE Give \/ Err \/ Out \/ Writer
  BY <1>1, <1>7 DEF Give, Err, Out, Writer, evars
<1>8. CASE UNCHANGED vars
  BY <1>1, <1>8 DEF vars, evars
<1> QED
  BY <1>2, <1>3, <1>4, <1>5, <1>6, <1>7, <1>8 DEF Next, Step, Rest

LEMMA ChainInvariant == Spec => []CInv
<1>1. Init => CInv
  BY DEF Init, Idle, CInv
<1> QED
  BY <1>1, NextCInv, PTL DEF Spec

(***************************************************************************)
(* The operations of a template are a tree, and each else is chained to    *)
(* one ifdef at most, one that comes before it in the same block: however  *)
(* many else, endif and endfor there are, and wherever (template.c:235).   *)
(***************************************************************************)
OpsInTree == tphase \in {"reading", "running"} => InTree(ops)

THEOREM TreeOfOps == Spec => []OpsInTree
<1>1. CInv => OpsInTree
  BY DEF CInv, OpsInTree
<1> QED
  BY <1>1, ChainInvariant, PTL

(***************************************************************************)
(* The ifdef whose block an else leaves is chained to none yet: the        *)
(* assertion of op_queue_else() never fails (template.c:249).              *)
(***************************************************************************)
Unchained == Reading => ops[cop].chain = 0

THEOREM ElseOnce == Spec => []Unchained
<1>1. CInv => Unchained
  <2> SUFFICES ASSUME CInv, Reading PROVE ops[cop].chain = 0
    BY DEF Unchained
  <2>1. InTree(ops) /\ Open_at(ops, cop)
    BY DEF CInv, Reading
  <2>2. ops[cop].chain # 0 => Chained(ops, cop) /\ Past(ops, cop, cop)
    BY <2>1 DEF InTree, Open_at
  <2> QED
    BY <2>1, <2>2 DEF Chained, Past, InTree, Open_at
<1> QED
  BY <1>1, ChainInvariant, PTL
===============================================================================
