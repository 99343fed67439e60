----------------------------- MODULE GeminiProofs -----------------------------
(***************************************************************************)
(* Proof that the Gemini renderer puts back what tables and footnotes set, *)
(* for all documents, options and failures.                                *)
(***************************************************************************)
EXTENDS GeminiOutput, SequenceTheorems, TLAPS

-------------------------------------------------------------------------------
(***************************************************************************)
(* The renderer is a record, and what writes to it keeps its settings.     *)
(***************************************************************************)
IsSt(s) ==
  s = [flags |-> s.flags, last_blank |-> s.last_blank, linkq |-> s.linkq, linkqsz |-> s.linkqsz,
       nolinkqsz |-> s.nolinkqsz, nolinkflush |-> s.nolinkflush, headers_offs |-> s.headers_offs,
       foots |-> s.foots]

IsW(w) == w = [out |-> w.out, st |-> w.st] /\ IsSt(w.st)

\* From s to t no setting is changed, and links are recorded if they were.
Keeps(s, t) ==
  /\ t.flags = s.flags
  /\ t.nolinkflush = s.nolinkflush
  /\ s.nolinkqsz = 0 => t.nolinkqsz = 0

Follows(w, v) == IsW(v) /\ Keeps(w.st, v.st)

LEMMA FollowsItself == ASSUME NEW w, IsW(w) PROVE Follows(w, w)
BY DEF Follows, Keeps

LEMMA FollowsOn ==
  ASSUME NEW u, NEW v, NEW w, Follows(u, v), Follows(v, w)
  PROVE  Follows(u, w)
BY DEF Follows, Keeps

LEMMA Set_blank_follows ==
  ASSUME NEW w, IsW(w), NEW blank
  PROVE  Follows(w, Set_blank(w, blank))
BY DEF Follows, Keeps, IsW, IsSt, Set_blank

LEMMA Out_follows ==
  ASSUME NEW w, IsW(w), NEW out
  PROVE  Follows(w, [w EXCEPT !.out = out])
BY DEF Follows, Keeps, IsW, IsSt

LEMMA Vspace_follows ==
  ASSUME NEW w, IsW(w), NEW sz
  PROVE  Follows(w, Vspace(w, sz))
<1>1. CASE w.st.last_blank < 0 \/ w.st.last_blank >= sz
  BY <1>1, FollowsItself DEF Vspace
<1>2. CASE ~(w.st.last_blank < 0 \/ w.st.last_blank >= sz)
  <2> DEFINE out == w.out \o [k \in 1 .. sz - w.st.last_blank |-> Nl]
             s   == [w.st EXCEPT !.last_blank = sz]
  <2>1. Vspace(w, sz) = [out |-> out, st |-> s]
    BY <1>2 DEF Vspace
  <2>2. IsSt(s) /\ Keeps(w.st, s)
    BY DEF IsW, IsSt, Keeps
  <2> HIDE DEF out, s
  <2> QED
    BY <2>1, <2>2 DEF Follows, IsW
<1> QED
  BY <1>1, <1>2

LEMMA Rndr_buf_follows ==
  ASSUME NEW w, IsW(w), NEW n, NEW in
  PROVE  Follows(w, Rndr_buf(w, n, in))
<1>1. ASSUME NEW blank, NEW out
      PROVE  Follows(w, [out |-> out, st |-> [w.st EXCEPT !.last_blank = blank]])
  BY DEF Follows, IsW, IsSt, Keeps
<1>2. CASE Inside(n, Literal)
  BY <1>1, <1>2 DEF Rndr_buf
<1>3. CASE ~Inside(n, Literal)
  <2> DEFINE out == Esc(w.out, IF w.st.last_blank # 0 THEN Unled(in) ELSE in)
             blank == IF in # <<>> THEN 0 ELSE w.st.last_blank
  <2>1. Rndr_buf(w, n, in) = [out |-> out, st |-> [w.st EXCEPT !.last_blank = blank]]
    BY <1>3 DEF Rndr_buf
  <2> HIDE DEF out, blank
  <2> QED
    BY <1>1, <2>1
<1> QED
  BY <1>2, <1>3

LEMMA Flush_linkq_follows ==
  ASSUME NEW w, IsW(w)
  PROVE  Follows(w, Flush_linkq(w))
BY DEF Follows, IsW, IsSt, Keeps, Flush_linkq

LEMMA Flushed_follows ==
  ASSUME NEW w, IsW(w)
  PROVE  Follows(w, Flushed(w))
<1>1. CASE ~Flush_due(w.st)
  BY <1>1, FollowsItself DEF Flushed
<1>2. CASE Flush_due(w.st)
  <2> DEFINE all == Flush_linkq(w)
             ended == [all EXCEPT !.out = Append(@, Nl)]
  <2>1. Follows(w, all)
    BY Flush_linkq_follows
  <2>2. Flushed(w) = Set_blank(ended, 2)
    BY <1>2 DEF Flushed
  <2> HIDE DEF all
  <2>3. IsW(all)
    BY <2>1 DEF Follows
  <2>4. Follows(all, ended)
    BY <2>3, Out_follows
  <2> HIDE DEF ended
  <2>5. Follows(ended, Set_blank(ended, 2))
    BY <2>4, Set_blank_follows DEF Follows
  <2> QED
    BY <2>1, <2>2, <2>4, <2>5, FollowsOn
<1> QED
  BY <1>1, <1>2

-------------------------------------------------------------------------------
(***************************************************************************)
(* What is written before and after the children of a node.                *)
(***************************************************************************)
LEMMA Space_before_follows ==
  ASSUME NEW w, IsW(w), NEW n
  PROVE  Follows(w, Space_before(w, n))
<1> DEFINE spaced == Vspace(w, Lines_before(w.st, n))
           marked == [spaced EXCEPT !.out = @ \o Mark(n, ">")]
<1>1. Follows(w, spaced)
  BY Vspace_follows
<1>2. Space_before(w, n) \in {spaced, Set_blank(w, -1), Set_blank(marked, 0)}
  BY DEF Space_before
<1>3. Follows(w, Set_blank(w, -1))
  BY Set_blank_follows
<1>4. Follows(w, Set_blank(marked, 0))
  <2> HIDE DEF spaced
  <2>1. Follows(spaced, marked)
    BY <1>1, Out_follows DEF Follows
  <2> HIDE DEF marked
  <2>2. Follows(marked, Set_blank(marked, 0))
    BY <2>1, Set_blank_follows DEF Follows
  <2> QED
    BY <1>1, <2>1, <2>2, FollowsOn
<1> QED
  BY <1>1, <1>2, <1>3, <1>4

\* Text, and then vertical space as if there were a number of lines, or none.
LEMMA Written_follows ==
  ASSUME NEW w, IsW(w), NEW n, NEW in, NEW blank, NEW sz
  PROVE  /\ Follows(w, Set_blank(Rndr_buf(w, n, in), blank))
         /\ Follows(w, Vspace(Rndr_buf(w, n, in), sz))
         /\ Follows(w, Vspace(Set_blank(Rndr_buf(w, n, in), blank), sz))
<1> DEFINE written == Rndr_buf(w, n, in)
<1>1. Follows(w, written)
  BY Rndr_buf_follows
<1> HIDE DEF written
<1>2. Follows(written, Set_blank(written, blank)) /\ Follows(written, Vspace(written, sz))
  BY <1>1, Set_blank_follows, Vspace_follows DEF Follows
<1>3. Follows(w, Set_blank(written, blank)) /\ Follows(w, Vspace(written, sz))
  BY <1>1, <1>2, FollowsOn
<1>4. Follows(Set_blank(written, blank), Vspace(Set_blank(written, blank), sz))
  BY <1>2, Vspace_follows DEF Follows
<1> QED
  BY <1>3, <1>4, FollowsOn DEF written

LEMMA Leading_follows ==
  ASSUME NEW w, IsW(w), NEW n
  PROVE  Follows(w, Leading(w, n))
<1>1. \A in : Follows(w, Rndr_buf(w, n, in)) /\ Follows(w, Set_blank(Rndr_buf(w, n, in), -1))
              /\ Follows(w, Vspace(Rndr_buf(w, n, in), 1))
  BY Rndr_buf_follows, Written_follows
<1>2. Follows(w, w)
  BY FollowsItself
<1>3. CASE Type(n) \in Fenced
  BY <1>1, <1>3 DEF Leading
<1>4. CASE Type(n) \notin Fenced
  <2>1. \/ Leading(w, n) = w
        \/ \E in : Leading(w, n) \in {Rndr_buf(w, n, in), Set_blank(Rndr_buf(w, n, in), -1)}
    BY <1>4 DEF Leading
  <2> QED
    BY <1>1, <1>2, <2>1
<1> QED
  BY <1>3, <1>4

LEMMA Before_follows ==
  ASSUME NEW w, IsW(w), NEW n
  PROVE  Follows(w, Before(w, n))
<1> DEFINE spaced == Space_before(w, n)
<1>1. Follows(w, spaced)
  BY Space_before_follows
<1> HIDE DEF spaced
<1>2. Follows(spaced, Leading(spaced, n))
  BY <1>1, Leading_follows DEF Follows
<1> QED
  BY <1>1, <1>2, FollowsOn DEF Before, spaced

LEMMA Doc_header_follows ==
  ASSUME NEW w, IsW(w), NEW n
  PROVE  Follows(w, Doc_header(w, n))
<1>1. \A out : Follows(w, [out |-> out, st |-> [w.st EXCEPT !.last_blank = 1]])
  BY DEF Follows, IsW, IsSt, Keeps
<1>2. Doc_header(w, n) = w \/ \E out : Doc_header(w, n) = [out |-> out, st |-> [w.st EXCEPT !.last_blank = 1]]
  BY DEF Doc_header
<1> QED
  BY <1>1, <1>2, FollowsItself

LEMMA Trailing_follows ==
  ASSUME NEW w, IsW(w), NEW n
  PROVE  Follows(w, Trailing(w, n))
<1>1. Follows(w, w) /\ Follows(w, Doc_header(w, n)) /\ \A in : Follows(w, Rndr_buf(w, n, in))
  BY FollowsItself, Doc_header_follows, Rndr_buf_follows
<1>2. Trailing(w, n) \in {w, Doc_header(w, n)} \/ \E in : Trailing(w, n) = Rndr_buf(w, n, in)
  BY DEF Trailing
<1> QED
  BY <1>1, <1>2

LEMMA Space_after_follows ==
  ASSUME NEW w, IsW(w), NEW n
  PROVE  Follows(w, Space_after(w, n))
BY Vspace_follows, Written_follows DEF Space_after

\* A link that is counted or put into the queue: more may be recorded, not less.
LEMMA Label_follows ==
  ASSUME NEW w, IsW(w), NEW n
  PROVE  Follows(w, Label(w, n))
<1> DEFINE id   == IF w.st.nolinkqsz = 0 THEN w.st.linkqsz + 1 ELSE w.st.nolinkqsz
           ref  == Link_ref(w.st, id)
           said == Rndr_buf(w, n, IF ref = "" THEN <<>> ELSE <<Token("label", ref, n, id)>>)
<1>1. Follows(w, said)
  BY Rndr_buf_follows
<1>2. Label(w, n) = IF w.st.nolinkqsz = 0
                    THEN [out |-> said.out,
                          st  |-> [said.st EXCEPT !.linkqsz = id, !.linkq = Append(@, [n |-> n, id |-> id])]]
                    ELSE [said EXCEPT !.st.nolinkqsz = id + 1]
  BY DEF Label
<1> HIDE DEF said, id
<1>3. CASE w.st.nolinkqsz = 0
  <2>1. ASSUME NEW x, NEW y
        PROVE  LET s == [said.st EXCEPT !.linkqsz = x, !.linkq = y] IN IsSt(s) /\ Keeps(said.st, s)
    <3> DEFINE counted == [said.st EXCEPT !.linkqsz = x]
               queued  == [counted EXCEPT !.linkq = y]
    <3>1. IsSt(counted) /\ Keeps(said.st, counted)
      BY <1>1 DEF Follows, IsW, IsSt, Keeps
    <3> HIDE DEF counted
    <3>2. IsSt(queued) /\ Keeps(counted, queued)
      BY <3>1 DEF IsSt, Keeps
    <3>3. queued = [said.st EXCEPT !.linkqsz = x, !.linkq = y]
      BY DEF counted
    <3> QED
      BY <3>1, <3>2, <3>3 DEF Keeps
  <2>2. \A s : IsSt(s) /\ Keeps(said.st, s) => Follows(said, [out |-> said.out, st |-> s])
    BY <1>1 DEF Follows, IsW
  <2>3. Follows(said, Label(w, n))
    BY <1>2, <1>3, <2>1, <2>2
  <2> QED
    BY <1>1, <2>3, FollowsOn
<1>4. CASE w.st.nolinkqsz # 0
  <2>1. \A x : LET v == [said EXCEPT !.st.nolinkqsz = x] IN
               IsW(v) /\ v.st.flags = said.st.flags /\ v.st.nolinkflush = said.st.nolinkflush
    BY <1>1 DEF Follows, IsW, IsSt
  <2> QED
    BY <1>1, <1>2, <1>4, <2>1 DEF Follows, Keeps
<1> QED
  BY <1>3, <1>4

-------------------------------------------------------------------------------
(***************************************************************************)
(* The calls in progress, whatever else they hold.                         *)
(***************************************************************************)
IsFrame(f) ==
  f = [node |-> f.node, buf |-> f.buf, next |-> f.next, cell |-> f.cell, busy |-> f.busy,
       widths |-> f.widths, row |-> f.row, blank |-> f.blank, flags |-> f.flags]

IsStack(s) == (\E S : s \in Seq(S)) /\ \A k \in 1 .. Len(s) : IsFrame(s[k])

\* What the settings depend on is the same.
Same_call(f, g) == IsFrame(g) /\ g.node = f.node /\ g.flags = f.flags /\ g.cell = f.cell

Alike(s, t) ==
  /\ IsStack(t) /\ Len(t) = Len(s)
  /\ \A k \in 1 .. Len(s) : Same_call(s[k], t[k])

LEMMA Lengths ==
  ASSUME NEW s, IsStack(s)
  PROVE  /\ Len(s) \in Nat /\ DOMAIN s = 1 .. Len(s)
         /\ (s = <<>> <=> Len(s) = 0)
<1>1. PICK S : s \in Seq(S)
  BY DEF IsStack
<1> QED
  BY <1>1, LenProperties, EmptySeq

LEMMA Empty_stack == IsStack(<<>>) /\ Len(<<>>) = 0
<1>1. <<>> \in Seq({}) /\ Len(<<>>) = 0
  BY EmptySeq
<1> QED
  BY <1>1 DEF IsStack

LEMMA Exchanged ==
  ASSUME NEW s, IsStack(s), NEW i \in 1 .. Len(s), NEW f, IsFrame(f)
  PROVE  LET t == [s EXCEPT ![i] = f] IN
         /\ IsStack(t) /\ Len(t) = Len(s)
         /\ \A j \in 1 .. Len(s) : t[j] = IF j = i THEN f ELSE s[j]
<1>1. PICK S : s \in Seq(S)
  BY DEF IsStack
<1> DEFINE t == [s EXCEPT ![i] = f]
<1>2. s \in Seq(S \cup {f})
  BY <1>1, SeqMonotonic
<1>3. /\ t \in Seq(S \cup {f}) /\ Len(t) = Len(s)
      /\ \A j \in 1 .. Len(s) : t[j] = IF j = i THEN f ELSE s[j]
  BY <1>2, ExceptSeq
<1> HIDE DEF t
<1>4. IsStack(t)
  BY <1>3 DEF IsStack
<1> QED
  BY <1>3, <1>4 DEF t

LEMMA Changed ==
  ASSUME NEW s, IsStack(s), NEW i \in 1 .. Len(s), NEW f, Same_call(s[i], f)
  PROVE  Alike(s, [s EXCEPT ![i] = f])
<1> DEFINE t == [s EXCEPT ![i] = f]
<1>1. IsFrame(f)
  BY DEF Same_call
<1>2. /\ IsStack(t) /\ Len(t) = Len(s)
      /\ \A j \in 1 .. Len(s) : t[j] = IF j = i THEN f ELSE s[j]
  BY <1>1, Exchanged
<1> HIDE DEF t
<1>3. \A j \in 1 .. Len(s) : Same_call(s[j], t[j])
  BY <1>2 DEF IsStack, Same_call
<1> QED
  BY <1>2, <1>3 DEF Alike, t

\* The call f begins.
Onto(f, s) == <<f>> \o s

LEMMA Pushed ==
  ASSUME NEW s, IsStack(s), NEW f, IsFrame(f)
  PROVE  LET t == Onto(f, s) IN
         /\ IsStack(t) /\ Len(t) = Len(s) + 1 /\ t[1] = f
         /\ \A k \in 1 .. Len(s) : t[k + 1] = s[k]
         /\ \A k \in 1 .. Len(s) + 1 : k = 1 \/ (k - 1 \in 1 .. Len(s) /\ t[k] = s[k - 1])
<1>1. PICK S : s \in Seq(S)
  BY DEF IsStack
<1> DEFINE t == Onto(f, s)
<1>2. s \in Seq(S \cup {f}) /\ <<f>> \in Seq(S \cup {f}) /\ Len(<<f>>) = 1 /\ <<f>>[1] = f
  BY <1>1, SeqMonotonic
<1>3. Len(s) \in Nat
  BY Lengths
<1>4. /\ t \in Seq(S \cup {f}) /\ Len(t) = 1 + Len(s)
      /\ \A i \in 1 .. 1 + Len(s) : t[i] = IF i <= 1 THEN <<f>>[i] ELSE s[i - 1]
  BY <1>2, ConcatProperties DEF Onto
<1> HIDE DEF t
<1>5. t[1] = f /\ \A k \in 1 .. Len(s) + 1 : k = 1 \/ (k - 1 \in 1 .. Len(s) /\ t[k] = s[k - 1])
  BY <1>2, <1>3, <1>4
<1>6. \A k \in 1 .. Len(s) : t[k + 1] = s[k]
  BY <1>3, <1>4
<1>7. IsStack(t)
  BY <1>4, <1>5 DEF IsStack
<1> QED
  BY <1>3, <1>4, <1>5, <1>6, <1>7 DEF t

LEMMA Popped ==
  ASSUME NEW s, IsStack(s), s # <<>>
  PROVE  /\ IsStack(Tail(s)) /\ Len(Tail(s)) = Len(s) - 1 /\ Len(s) \in Nat \ {0}
         /\ \A k \in 1 .. Len(s) - 1 : Tail(s)[k] = s[k + 1] /\ k + 1 \in 2 .. Len(s)
         /\ \A k \in 2 .. Len(s) : k - 1 \in 1 .. Len(s) - 1 /\ Tail(s)[k - 1] = s[k]
<1>1. PICK S : s \in Seq(S)
  BY DEF IsStack
<1>2. Len(s) \in Nat \ {0}
  BY Lengths
<1>3. /\ Tail(s) \in Seq(S) /\ Len(Tail(s)) = Len(s) - 1
      /\ \A i \in 1 .. Len(Tail(s)) : Tail(s)[i] = s[i + 1]
  BY <1>1, HeadTailProperties
<1>4. \A k \in 1 .. Len(s) - 1 : Tail(s)[k] = s[k + 1] /\ k + 1 \in 2 .. Len(s)
  BY <1>2, <1>3
<1>5. \A k \in 2 .. Len(s) : k - 1 \in 1 .. Len(s) - 1 /\ Tail(s)[k - 1] = s[k]
  BY <1>2, <1>3
<1>6. IsStack(Tail(s))
  BY <1>2, <1>3, <1>4 DEF IsStack
<1> QED
  BY <1>2, <1>3, <1>4, <1>5, <1>6

LEMMA AlikeItself == ASSUME NEW s, IsStack(s) PROVE Alike(s, s)
BY DEF Alike, IsStack, Same_call

LEMMA AlikeOn ==
  ASSUME NEW s, NEW t, NEW u, Alike(s, t), Alike(t, u)
  PROVE  Alike(s, u)
BY DEF Alike, Same_call

LEMMA Buffered ==
  ASSUME NEW s, IsStack(s), NEW out
  PROVE  Alike(s, Stack_with(s, out))
<1>1. CASE Owner(s) \in DOMAIN s
  <2> DEFINE i == Owner(s)
             f == [s[i] EXCEPT !.buf = out]
  <2>1. i \in 1 .. Len(s)
    BY <1>1, Lengths
  <2>2. Stack_with(s, out) = [s EXCEPT ![i] = f]
    BY <1>1, Zenon DEF Stack_with
  <2>3. IsFrame(s[i])
    BY <2>1 DEF IsStack
  <2> HIDE DEF i
  <2>4. Same_call(s[i], f)
    BY <2>3 DEF IsFrame, Same_call
  <2> HIDE DEF f
  <2>5. Alike(s, [s EXCEPT ![i] = f])
    BY <2>1, <2>4, Changed
  <2> QED
    BY <2>2, <2>5, Zenon
<1>2. CASE Owner(s) \notin DOMAIN s
  BY <1>2, AlikeItself DEF Stack_with
<1> QED
  BY <1>1, <1>2

-------------------------------------------------------------------------------
(***************************************************************************)
(* What holds of the calls in progress and the settings: within a table    *)
(* LINK_IN is off, each table has the flags from outside of it, and a      *)
(* footnote is in progress when links are not to be flushed.               *)
(***************************************************************************)
New == New_flags(session.oflags)

Tabled(s, k) == Type(s[k].node) = "TABLE_BLOCK"
Held(s, i)   == \E j \in i .. Len(s) : Tabled(s, j)
Flags_in(s, i) == IF Held(s, i) THEN New \ {"LINK_IN"} ELSE New

Flags_kept(s, t) ==
  /\ t.flags = Flags_in(s, 1)
  /\ \A k \in 1 .. Len(s) : Tabled(s, k) => s[k].flags = Flags_in(s, k + 1)

Flush_kept(s, t) ==
  t.nolinkflush => fault = "had" \/ \E k \in 1 .. Len(s) : Type(s[k].node) = "FOOTNOTE"

Has_oldest(s) ==
  Held(s, 1) => \E k \in 1 .. Len(s) : Tabled(s, k) /\ \A j \in 1 .. Len(s) : Tabled(s, j) => j <= k

Bottom(s) == Len(s) # 0 => s[Len(s)].node = 0

Kept(s, t) ==
  IsStack(s) /\ IsSt(t) /\ Flags_kept(s, t) /\ Flush_kept(s, t) /\ Has_oldest(s) /\ Bottom(s)

\* Links are not recorded only while a table is measured.
Links_kept(s, t) == t.nolinkqsz # 0 => \E k \in 1 .. Len(s) : Tabled(s, k) /\ Measures(s[k])

LEMMA Same_kept ==
  ASSUME NEW s, NEW t, Kept(s, t), NEW u, IsStack(u), Len(u) = Len(s),
         \A k \in 1 .. Len(s) : u[k].node = s[k].node /\ u[k].flags = s[k].flags,
         NEW v, IsSt(v), Keeps(t, v)
  PROVE  Kept(u, v)
<1>1. Len(s) \in Nat
  BY Lengths DEF Kept
<1>2. \A k \in 1 .. Len(s) : Tabled(u, k) <=> Tabled(s, k)
  BY DEF Tabled
<1>3. \A i \in 1 .. Len(s) + 1 : Held(u, i) <=> Held(s, i)
  BY <1>1, <1>2 DEF Held
<1>4. \A i \in 1 .. Len(s) + 1 : Flags_in(u, i) = Flags_in(s, i)
  BY <1>3 DEF Flags_in
<1>5. Flags_kept(u, v)
  BY <1>1, <1>2, <1>4 DEF Kept, Flags_kept, Keeps
<1>6. Flush_kept(u, v)
  BY DEF Kept, Flush_kept, Keeps
<1>7. Has_oldest(u)
  <2>1. Held(u, 1) <=> Held(s, 1)
    BY <1>1, <1>3
  <2> QED
    BY <1>2, <2>1 DEF Kept, Has_oldest
<1>8. Bottom(u)
  BY <1>1 DEF Kept, Bottom
<1> QED
  BY <1>5, <1>6, <1>7, <1>8 DEF Kept

LEMMA Alike_kept ==
  ASSUME NEW s, NEW t, Kept(s, t), NEW u, Alike(s, u), NEW v, IsSt(v), Keeps(t, v)
  PROVE  Kept(u, v) /\ (Links_kept(s, t) => Links_kept(u, v))
<1>1. /\ IsStack(u) /\ Len(u) = Len(s)
      /\ \A k \in 1 .. Len(s) : u[k].node = s[k].node /\ u[k].flags = s[k].flags /\ u[k].cell = s[k].cell
  BY DEF Alike, Same_call
<1>2. \A k \in 1 .. Len(s) : (Tabled(u, k) <=> Tabled(s, k)) /\ (Measures(u[k]) <=> Measures(s[k]))
  BY <1>1 DEF Tabled, Measures
<1>3. Links_kept(s, t) => Links_kept(u, v)
  BY <1>1, <1>2 DEF Links_kept, Keeps
<1> QED
  BY <1>1, <1>3, Same_kept

\* The innermost call is done: a table has put the flags back.
LEMMA Pop ==
  ASSUME NEW s, NEW t, Kept(s, t), s # <<>>, NEW v, IsSt(v),
         v.flags = IF Tabled(s, 1) THEN s[1].flags ELSE t.flags,
         v.nolinkflush => t.nolinkflush /\ Type(s[1].node) # "FOOTNOTE"
  PROVE  /\ Kept(Tail(s), v)
         /\ Links_kept(s, t) /\ (Tabled(s, 1) => ~Measures(s[1])) /\ (t.nolinkqsz = 0 => v.nolinkqsz = 0)
              => Links_kept(Tail(s), v)
<1> DEFINE u == Tail(s)
<1>1. /\ IsStack(u) /\ Len(u) = Len(s) - 1 /\ Len(s) \in Nat \ {0}
      /\ \A k \in 1 .. Len(s) - 1 : u[k] = s[k + 1] /\ k + 1 \in 2 .. Len(s)
      /\ \A k \in 2 .. Len(s) : k - 1 \in 1 .. Len(s) - 1 /\ u[k - 1] = s[k]
  BY Popped DEF Kept
<1> HIDE DEF u
<1>2. \A k \in 1 .. Len(u) : Tabled(u, k) <=> Tabled(s, k + 1)
  BY <1>1 DEF Tabled
<1>3. ASSUME NEW i \in 1 .. Len(s) PROVE Held(u, i) <=> Held(s, i + 1)
  <2>1. ASSUME NEW j \in i .. Len(u), Tabled(u, j) PROVE Held(s, i + 1)
    <3>1. j + 1 \in i + 1 .. Len(s) /\ Tabled(s, j + 1)
      BY <1>1, <1>2, <2>1
    <3> QED
      BY <3>1 DEF Held
  <2>2. ASSUME NEW j \in i + 1 .. Len(s), Tabled(s, j) PROVE Held(u, i)
    <3>1. j - 1 \in i .. Len(u) /\ u[j - 1] = s[j]
      BY <1>1
    <3> QED
      BY <2>2, <3>1 DEF Held, Tabled
  <2> QED
    BY <2>1, <2>2 DEF Held
<1>4. \A i \in 1 .. Len(s) : Flags_in(u, i) = Flags_in(s, i + 1)
  BY <1>3 DEF Flags_in
<1>5. Flags_kept(u, v)
  <2>1. v.flags = Flags_in(s, 2)
    <3>1. CASE Tabled(s, 1)
      BY <1>1, <3>1 DEF Kept, Flags_kept
    <3>2. CASE ~Tabled(s, 1)
      <4>1. Held(s, 1) <=> Held(s, 2)
        <5>1. \A j \in 1 .. Len(s) : j = 1 \/ j \in 2 .. Len(s)
          BY <1>1
        <5> QED
          BY <1>1, <3>2, <5>1 DEF Held
      <4> QED
        BY <3>2, <4>1 DEF Kept, Flags_kept, Flags_in
    <3> QED
      BY <3>1, <3>2
  <2>2. v.flags = Flags_in(u, 1)
    BY <1>1, <1>4, <2>1
  <2>3. ASSUME NEW k \in 1 .. Len(u), Tabled(u, k) PROVE u[k].flags = Flags_in(u, k + 1)
    <3>1. k + 1 \in 1 .. Len(s) /\ u[k] = s[k + 1] /\ Tabled(s, k + 1)
      BY <1>1, <1>2, <2>3
    <3>2. s[k + 1].flags = Flags_in(s, (k + 1) + 1)
      BY <3>1 DEF Kept, Flags_kept
    <3> QED
      BY <1>4, <3>1, <3>2
  <2> QED
    BY <2>2, <2>3 DEF Flags_kept
<1>6. Flush_kept(u, v)
  <2>1. ASSUME NEW k \in 1 .. Len(s), Type(s[k].node) = "FOOTNOTE", k # 1
        PROVE  \E j \in 1 .. Len(u) : Type(u[j].node) = "FOOTNOTE"
    <3>1. k \in 2 .. Len(s)
      BY <1>1, <2>1
    <3>2. k - 1 \in 1 .. Len(u) /\ u[k - 1] = s[k]
      BY <1>1, <3>1
    <3> QED
      BY <2>1, <3>2
  <2> QED
    BY <2>1 DEF Kept, Flush_kept
<1>7. Has_oldest(u)
  <2>1. SUFFICES ASSUME NEW i \in 1 .. Len(u), Tabled(u, i)
                 PROVE  \E k \in 1 .. Len(u) : Tabled(u, k) /\ \A j \in 1 .. Len(u) : Tabled(u, j) => j <= k
    BY DEF Has_oldest, Held
  <2>2. i + 1 \in 1 .. Len(s) /\ i + 1 > 1 /\ Tabled(s, i + 1)
    BY <1>1, <1>2, <2>1
  <2>3. PICK k \in 1 .. Len(s) : Tabled(s, k) /\ \A j \in 1 .. Len(s) : Tabled(s, j) => j <= k
    BY <2>2 DEF Kept, Has_oldest, Held
  <2>4. k \in 2 .. Len(s)
    BY <1>1, <2>2, <2>3
  <2>5. k - 1 \in 1 .. Len(u) /\ Tabled(u, k - 1)
    BY <1>1, <2>3, <2>4 DEF Tabled
  <2>6. ASSUME NEW j \in 1 .. Len(u), Tabled(u, j) PROVE j <= k - 1
    <3>1. j + 1 \in 1 .. Len(s) /\ Tabled(s, j + 1)
      BY <1>1, <1>2, <2>6
    <3>2. j + 1 <= k
      BY <2>3, <3>1
    <3> QED
      BY <1>1, <2>4, <3>2
  <2> QED
    BY <2>5, <2>6
<1>8. Bottom(u)
  <2>1. ASSUME Len(u) # 0 PROVE u[Len(u)] = s[Len(s)]
    BY <1>1, <2>1
  <2> QED
    BY <1>1, <2>1 DEF Kept, Bottom
<1>9. ASSUME Links_kept(s, t), Tabled(s, 1) => ~Measures(s[1]), t.nolinkqsz = 0 => v.nolinkqsz = 0
      PROVE  Links_kept(u, v)
  <2>1. ASSUME NEW k \in 1 .. Len(s), Tabled(s, k), Measures(s[k])
        PROVE  \E j \in 1 .. Len(u) : Tabled(u, j) /\ Measures(u[j])
    <3>1. k \in 2 .. Len(s)
      BY <1>1, <1>9, <2>1
    <3>2. k - 1 \in 1 .. Len(u) /\ u[k - 1] = s[k]
      BY <1>1, <3>1
    <3> QED
      BY <2>1, <3>2 DEF Tabled
  <2> QED
    BY <1>9, <2>1 DEF Links_kept
<1> QED
  BY <1>1, <1>5, <1>6, <1>7, <1>8, <1>9 DEF Kept, u

\* A call begins, of any node but the root, unless it is the first.
LEMMA Push ==
  ASSUME NEW s, NEW t, Kept(s, t), Len(s) # 0, NEW f, IsFrame(f), NEW v, IsSt(v),
         LET table == Type(f.node) = "TABLE_BLOCK" IN
           /\ v.flags = IF table THEN t.flags \ {"LINK_IN"} ELSE t.flags
           /\ table => f.flags = t.flags,
         v.nolinkflush => t.nolinkflush \/ Type(f.node) = "FOOTNOTE"
  PROVE  /\ Kept(Onto(f, s), v)
         /\ /\ Links_kept(s, t)
            /\ v.nolinkqsz # 0 => t.nolinkqsz # 0 \/ (Type(f.node) = "TABLE_BLOCK" /\ Measures(f))
            => Links_kept(Onto(f, s), v)
<1> DEFINE u == Onto(f, s)
<1>1. /\ IsStack(u) /\ Len(u) = Len(s) + 1 /\ Len(s) \in Nat \ {0} /\ u[1] = f
      /\ \A k \in 1 .. Len(s) : u[k + 1] = s[k]
      /\ \A k \in 1 .. Len(s) + 1 : k = 1 \/ (k - 1 \in 1 .. Len(s) /\ u[k] = s[k - 1])
  <2>1. IsStack(s)
    BY DEF Kept
  <2>2. Len(s) \in Nat \ {0}
    BY <2>1, Lengths
  <2>3. /\ IsStack(u) /\ Len(u) = Len(s) + 1 /\ u[1] = f
        /\ \A k \in 1 .. Len(s) : u[k + 1] = s[k]
        /\ \A k \in 1 .. Len(s) + 1 : k = 1 \/ (k - 1 \in 1 .. Len(s) /\ u[k] = s[k - 1])
    BY <2>1, Pushed
  <2> HIDE DEF u
  <2> QED
    BY <2>2, <2>3
<1> HIDE DEF u
<1>2. /\ Tabled(u, 1) <=> Type(f.node) = "TABLE_BLOCK"
      /\ \A k \in 1 .. Len(s) : Tabled(u, k + 1) <=> Tabled(s, k)
  BY <1>1 DEF Tabled
<1>3. ASSUME NEW i \in 1 .. Len(s) + 1 PROVE Held(u, i + 1) <=> Held(s, i)
  <2>1. ASSUME NEW j \in i .. Len(s), Tabled(s, j) PROVE Held(u, i + 1)
    <3>1. j + 1 \in i + 1 .. Len(u) /\ Tabled(u, j + 1)
      BY <1>1, <1>2, <2>1
    <3> QED
      BY <3>1 DEF Held
  <2>2. ASSUME NEW j \in i + 1 .. Len(u), Tabled(u, j) PROVE Held(s, i)
    <3>1. j - 1 \in i .. Len(s) /\ u[j] = s[j - 1]
      BY <1>1
    <3> QED
      BY <2>2, <3>1 DEF Held, Tabled
  <2> QED
    BY <2>1, <2>2 DEF Held
<1>4. \A i \in 1 .. Len(s) + 1 : Flags_in(u, i + 1) = Flags_in(s, i)
  BY <1>3 DEF Flags_in
<1>5. Flags_kept(u, v)
  <2>1. v.flags = Flags_in(u, 1)
    <3>1. Flags_in(u, 2) = t.flags
      BY <1>1, <1>4 DEF Kept, Flags_kept
    <3>2. Held(u, 1) <=> Tabled(u, 1) \/ Held(u, 2)
      <4>1. \A j \in 1 .. Len(u) : j = 1 \/ j \in 2 .. Len(u)
        BY <1>1
      <4> QED
        BY <1>1, <4>1 DEF Held
    <3>3. CASE Tabled(u, 1)
      BY <1>2, <3>1, <3>2, <3>3 DEF Flags_in
    <3>4. CASE ~Tabled(u, 1)
      BY <1>2, <3>1, <3>2, <3>4 DEF Flags_in
    <3> QED
      BY <3>3, <3>4
  <2>2. ASSUME NEW k \in 1 .. Len(u), Tabled(u, k) PROVE u[k].flags = Flags_in(u, k + 1)
    <3>1. CASE k = 1
      <4>1. Flags_in(u, 2) = t.flags
        BY <1>1, <1>4 DEF Kept, Flags_kept
      <4> QED
        BY <1>1, <1>2, <2>2, <3>1, <4>1
    <3>2. CASE k # 1
      <4>1. k - 1 \in 1 .. Len(s) /\ u[k] = s[k - 1]
        BY <1>1, <3>2
      <4>2. Tabled(s, k - 1)
        BY <2>2, <4>1 DEF Tabled
      <4>3. s[k - 1].flags = Flags_in(s, (k - 1) + 1)
        BY <4>1, <4>2 DEF Kept, Flags_kept
      <4>4. (k - 1) + 1 = k /\ k \in 1 .. Len(s) + 1
        BY <1>1
      <4> QED
        BY <1>4, <4>1, <4>3, <4>4
    <3> QED
      BY <3>1, <3>2
  <2> QED
    BY <2>1, <2>2 DEF Flags_kept
<1>6. Flush_kept(u, v)
  <2>1. ASSUME NEW k \in 1 .. Len(s), Type(s[k].node) = "FOOTNOTE"
        PROVE  \E j \in 1 .. Len(u) : Type(u[j].node) = "FOOTNOTE"
    <3>1. k + 1 \in 1 .. Len(u) /\ u[k + 1] = s[k]
      BY <1>1
    <3> QED
      BY <2>1, <3>1
  <2>2. 1 \in 1 .. Len(u) /\ u[1].node = f.node
    BY <1>1
  <2> QED
    BY <2>1, <2>2 DEF Kept, Flush_kept
<1>7. Has_oldest(u)
  <2>1. SUFFICES ASSUME NEW i \in 1 .. Len(u), Tabled(u, i)
                 PROVE  \E k \in 1 .. Len(u) : Tabled(u, k) /\ \A j \in 1 .. Len(u) : Tabled(u, j) => j <= k
    BY DEF Has_oldest, Held
  <2>2. CASE Held(s, 1)
    <3>1. PICK k \in 1 .. Len(s) : Tabled(s, k) /\ \A j \in 1 .. Len(s) : Tabled(s, j) => j <= k
      BY <2>2 DEF Kept, Has_oldest
    <3>2. k + 1 \in 1 .. Len(u) /\ Tabled(u, k + 1)
      BY <1>1, <1>2, <3>1
    <3>3. ASSUME NEW j \in 1 .. Len(u), Tabled(u, j) PROVE j <= k + 1
      <4>1. CASE j = 1
        BY <1>1, <4>1
      <4>2. CASE j # 1
        <5>1. j - 1 \in 1 .. Len(s) /\ Tabled(s, j - 1)
          BY <1>1, <3>3, <4>2 DEF Tabled
        <5>2. j - 1 <= k
          BY <3>1, <5>1
        <5> QED
          BY <1>1, <5>2
      <4> QED
        BY <4>1, <4>2
    <3> QED
      BY <3>2, <3>3
  <2>3. CASE ~Held(s, 1)
    <3>1. ASSUME NEW j \in 1 .. Len(u), Tabled(u, j) PROVE j = 1
      <4>1. SUFFICES ASSUME j # 1 PROVE FALSE
        OBVIOUS
      <4>2. j - 1 \in 1 .. Len(s) /\ u[j] = s[j - 1]
        BY <1>1, <4>1
      <4> QED
        BY <2>3, <3>1, <4>2 DEF Tabled, Held
    <3>2. 1 \in 1 .. Len(u) /\ Tabled(u, 1)
      BY <1>1, <2>1, <3>1
    <3> QED
      BY <3>1, <3>2
  <2> QED
    BY <2>2, <2>3
<1>8. Bottom(u)
  <2>1. u[Len(u)] = s[Len(s)]
    BY <1>1
  <2> QED
    BY <2>1 DEF Kept, Bottom
<1>9. ASSUME Links_kept(s, t),
             v.nolinkqsz # 0 => t.nolinkqsz # 0 \/ (Type(f.node) = "TABLE_BLOCK" /\ Measures(f))
      PROVE  Links_kept(u, v)
  <2>1. ASSUME NEW k \in 1 .. Len(s), Tabled(s, k), Measures(s[k])
        PROVE  \E j \in 1 .. Len(u) : Tabled(u, j) /\ Measures(u[j])
    <3>1. k + 1 \in 1 .. Len(u) /\ u[k + 1] = s[k]
      BY <1>1
    <3> QED
      BY <1>2, <2>1, <3>1
  <2>2. 1 \in 1 .. Len(u) /\ u[1] = f
    BY <1>1
  <2> QED
    BY <1>2, <1>9, <2>1, <2>2 DEF Links_kept
<1> QED
  BY <1>1, <1>5, <1>6, <1>7, <1>8, <1>9 DEF Kept, u

-------------------------------------------------------------------------------
(***************************************************************************)
(* The invariant, and what a step keeps of it.                             *)
(***************************************************************************)
Forgotten ==
  st.linkq = <<>> /\ st.linkqsz = 0 /\ st.nolinkqsz = 0 /\ st.foots = <<>> /\ metaq = <<>>

GInv ==
  /\ session \in Sessions
  /\ calls # <<>> => turn \in 1 .. Len(session.docs)
  /\ turn \in 0 .. Len(session.docs)
  /\ Kept(calls, st)
  /\ gphase = "rendering" => Links_kept(calls, st)
  /\ gphase \notin {"rendering", "aborted"} => calls = <<>>
  /\ gphase = "idle" => Forgotten

LEMMA Same_documents ==
  ASSUME Quiet
  PROVE  /\ Kept(calls', st') => Kept(calls, st)'
         /\ Links_kept(calls', st') => Links_kept(calls, st)'
<1>1. session' = session /\ turn' = turn /\ fault' = fault
  BY DEF Quiet
<1>2. \A n : Type(n)' = Type(n)
  BY <1>1 DEF Type, Lab
<1>3. \A n : Cell_count(n)' = Cell_count(n)
  BY <1>1 DEF Cell_count, Cells, Kids
<1>4. ASSUME Kept(calls', st') PROVE Kept(calls, st)'
  <2>1. \A k : Tabled(calls, k)' <=> Tabled(calls', k)
    BY <1>2 DEF Tabled
  <2>2. \A i : Held(calls, i)' <=> Held(calls', i)
    BY <2>1 DEF Held
  <2>3. \A i : Flags_in(calls, i)' = Flags_in(calls', i)
    BY <1>1, <2>2 DEF Flags_in, New
  <2>4. Flags_kept(calls, st)'
    BY <1>4, <2>1, <2>3 DEF Kept, Flags_kept
  <2>5. Flush_kept(calls, st)'
    BY <1>1, <1>2, <1>4 DEF Kept, Flush_kept
  <2>6. Has_oldest(calls)'
    BY <1>4, <2>1, <2>2 DEF Kept, Has_oldest
  <2> QED
    BY <1>4, <2>4, <2>5, <2>6 DEF Kept, IsStack, IsSt, IsFrame, Bottom
<1>5. Links_kept(calls', st') => Links_kept(calls, st)'
  BY <1>2, <1>3 DEF Links_kept, Tabled, Measures
<1> QED
  BY <1>4, <1>5

\* A step of the document in hand.
LEMMA Step_kept ==
  ASSUME GInv, Quiet, calls # <<>>, Kept(calls', st'), Links_kept(calls', st'),
         gphase' \in {"rendering", "aborted"} \/ (gphase' \in {"template", "done"} /\ calls' = <<>>)
  PROVE  GInv'
<1>1. Kept(calls, st)' /\ Links_kept(calls, st)'
  BY Same_documents
<1> QED
  BY <1>1 DEF GInv, Quiet

LEMMA Viewed == ASSUME GInv, NEW s PROVE IsW(View(s)) /\ View(s).st = st
BY DEF GInv, Kept, View, IsW

\* The innermost call returns, with the settings as it found them.
LEMMA Returned ==
  ASSUME GInv, Quiet, Rendering_calls, NEW w, Gemini_returns(w), IsW(w),
         w.st.flags = IF Tabled(calls, 1) THEN calls[1].flags ELSE st.flags,
         w.st.nolinkflush => st.nolinkflush /\ Type(This) # "FOOTNOTE",
         Tabled(calls, 1) => ~Measures(calls[1]),
         st.nolinkqsz = 0 => w.st.nolinkqsz = 0
  PROVE  GInv'
<1> DEFINE end == Flushed(w)
<1>1. Follows(w, end)
  BY Flushed_follows
<1>2. st' = end.st /\ calls' = Stack_with(Tail(calls), end.out)
  BY DEF Gemini_returns
<1> HIDE DEF end
<1>3. /\ IsSt(end.st) /\ end.st.flags = w.st.flags /\ end.st.nolinkflush = w.st.nolinkflush
      /\ w.st.nolinkqsz = 0 => end.st.nolinkqsz = 0
  BY <1>1 DEF Follows, IsW, Keeps
<1>4. Kept(calls, st) /\ Links_kept(calls, st) /\ calls # <<>>
  BY DEF GInv, Rendering_calls
<1>5. Kept(Tail(calls), end.st) /\ Links_kept(Tail(calls), end.st)
  <2>1. end.st.nolinkflush => st.nolinkflush /\ Type(calls[1].node) # "FOOTNOTE"
    BY <1>3 DEF This
  <2>2. end.st.flags = IF Tabled(calls, 1) THEN calls[1].flags ELSE st.flags
    BY <1>3
  <2>3. st.nolinkqsz = 0 => end.st.nolinkqsz = 0
    BY <1>3
  <2> QED
    BY <1>3, <1>4, <2>1, <2>2, <2>3, Pop
<1>6. Alike(Tail(calls), calls')
  <2>1. IsStack(Tail(calls))
    BY <1>5 DEF Kept
  <2> QED
    BY <1>2, <2>1, Buffered
<1>7. Kept(calls', st') /\ Links_kept(calls', st')
  <2>1. Keeps(end.st, end.st)
    BY DEF Keeps
  <2> QED
    BY <1>2, <1>3, <1>5, <1>6, <2>1, Alike_kept
<1>8. gphase' = "rendering" \/ (gphase' \in {"template", "done"} /\ calls' = <<>>)
  <2>1. CASE Len(calls) > 1
    BY <2>1 DEF Gemini_returns, Rendering_calls
  <2>2. CASE ~(Len(calls) > 1)
    <3>1. IsStack(calls) /\ IsStack(calls')
      BY <1>4, <1>7 DEF Kept
    <3>2. Len(calls) \in Nat \ {0} /\ Len(Tail(calls)) = Len(calls) - 1
      BY <1>4, <3>1, Popped
    <3>3. Len(calls') = 0
      BY <1>6, <2>2, <3>2 DEF Alike
    <3>4. calls' = <<>>
      BY <3>1, <3>3, Lengths
    <3> QED
      BY <2>2, <3>4 DEF Gemini_returns
  <2> QED
    BY <2>1, <2>2
<1> QED
  BY <1>4, <1>7, <1>8, Step_kept

\* A call of another type than a table and a footnote leaves the settings.
LEMMA Plainly_returned ==
  ASSUME GInv, Quiet, Rendering_calls, NEW w, NEW v, v.st = st, Follows(v, w), Gemini_returns(w),
         Type(This) \notin Own_buffer
  PROVE  GInv'
<1>1. ~Tabled(calls, 1) /\ Type(This) # "FOOTNOTE"
  BY DEF Tabled, This, Own_buffer
<1>2. IsW(w) /\ Keeps(st, w.st)
  BY DEF Follows
<1> QED
  BY <1>1, <1>2, Returned DEF Keeps

LEMMA Plain_step == ASSUME GInv, Gemini_plain PROVE GInv'
<1> DEFINE v == View(Tail(calls))
           w == Trailing(v, This)
           x == Space_after(w, This)
<1>1. Quiet /\ Rendering_calls /\ Gemini_returns(x) /\ Type(This) \notin Own_buffer
  BY DEF Gemini_plain, Special, Own_buffer
<1>2. IsW(v) /\ v.st = st
  BY Viewed
<1> HIDE DEF v
<1>3. Follows(v, w)
  BY <1>2, Trailing_follows
<1> HIDE DEF w
<1>4. Follows(v, x)
  BY <1>3, Space_after_follows, FollowsOn DEF Follows
<1> HIDE DEF x
<1> QED
  BY <1>1, <1>2, <1>4, Plainly_returned

LEMMA Link_step == ASSUME GInv, Gemini_link PROVE GInv'
<1> DEFINE v == View(Tail(calls))
           w == Trailing(v, This)
           y == IF Alone(st, This) THEN w ELSE Label(w, This)
           x == Space_after(y, This)
<1>1. Quiet /\ Rendering_calls /\ Gemini_returns(x) /\ Type(This) \notin Own_buffer
  BY DEF Gemini_link, Gemini_at, Links, Own_buffer
<1>2. IsW(v) /\ v.st = st
  BY Viewed
<1> HIDE DEF v
<1>3. Follows(v, w)
  BY <1>2, Trailing_follows
<1> HIDE DEF w
<1>4. Follows(v, y)
  BY <1>3, Label_follows, FollowsOn DEF Follows
<1> HIDE DEF y
<1>5. Follows(v, x)
  BY <1>4, Space_after_follows, FollowsOn DEF Follows
<1> HIDE DEF x
<1> QED
  BY <1>1, <1>2, <1>5, Plainly_returned

LEMMA Meta_step == ASSUME GInv, Gemini_meta PROVE GInv'
<1> DEFINE v == View(Tail(calls))
           m == Meta_of(Lab(This).text, [k \in DOMAIN Kids(This) |-> Lab(Kids(This)[k]).text])
           w == IF Lab(This).chng = "DELETE" THEN v ELSE [v EXCEPT !.st.headers_offs = Header_offset(m, @)]
           x == Space_after(w, This)
<1>1. Quiet /\ Rendering_calls /\ Gemini_returns(x) /\ Type(This) \notin Own_buffer
  BY DEF Gemini_meta, Gemini_at, Own_buffer
<1>2. IsW(v) /\ v.st = st
  BY Viewed
<1> HIDE DEF v
<1>3. Follows(v, w)
  <2>1. \A offs : Follows(v, [v EXCEPT !.st.headers_offs = offs])
    BY <1>2 DEF Follows, IsW, IsSt, Keeps
  <2> QED
    BY <1>2, <2>1, FollowsItself
<1> HIDE DEF w
<1>4. Follows(v, x)
  BY <1>3, Space_after_follows, FollowsOn DEF Follows
<1> HIDE DEF x
<1> QED
  BY <1>1, <1>2, <1>4, Plainly_returned

LEMMA Footnote_step == ASSUME GInv, Gemini_footnote PROVE GInv'
<1> DEFINE v == View(Tail(calls))
           mark == <<Token("noted", "", This, Len(st.foots) + 1)>>
           w == [out |-> v.out,
                 st  |-> [v.st EXCEPT !.nolinkflush = FALSE, !.foots = Append(@, calls[1].buf)]]
           x == Rndr_buf(w, This, mark)
<1>1. Quiet /\ Rendering_calls /\ Gemini_returns(x) /\ ~Tabled(calls, 1)
  BY DEF Gemini_footnote, Gemini_at, Tabled, This
<1>2. IsW(v) /\ v.st = st
  BY Viewed
<1> HIDE DEF v
<1>3. IsW(w) /\ w.st.flags = st.flags /\ w.st.nolinkflush = FALSE /\ w.st.nolinkqsz = st.nolinkqsz
  <2> DEFINE foots == Append(v.st.foots, calls[1].buf)
             recorded == [v.st EXCEPT !.nolinkflush = FALSE]
             listed   == [recorded EXCEPT !.foots = foots]
  <2>1. w = [out |-> v.out, st |-> [v.st EXCEPT !.nolinkflush = FALSE, !.foots = foots]]
    OBVIOUS
  <2> HIDE DEF foots, w
  <2>2. /\ IsSt(recorded) /\ recorded.flags = st.flags /\ recorded.nolinkflush = FALSE
        /\ recorded.nolinkqsz = st.nolinkqsz
    <3>1. ASSUME NEW flush
          PROVE  LET s == [v.st EXCEPT !.nolinkflush = flush] IN
                 /\ IsSt(s) /\ s.flags = st.flags /\ s.nolinkflush = flush
                 /\ s.nolinkqsz = st.nolinkqsz
      BY <1>2 DEF IsW, IsSt
    <3> QED
      BY <3>1
  <2>3. w = [out |-> v.out, st |-> listed]
    BY <2>1
  <2> HIDE DEF recorded
  <2>4. /\ IsSt(listed) /\ listed.flags = st.flags /\ listed.nolinkflush = FALSE
        /\ listed.nolinkqsz = st.nolinkqsz
    BY <2>2 DEF IsSt
  <2> HIDE DEF listed
  <2> QED
    BY <2>3, <2>4 DEF IsW
<1> HIDE DEF w
<1>4. Follows(w, x)
  BY <1>3, Rndr_buf_follows
<1> HIDE DEF x
<1>5. IsW(x) /\ x.st.flags = st.flags /\ ~x.st.nolinkflush /\ (st.nolinkqsz = 0 => x.st.nolinkqsz = 0)
  BY <1>3, <1>4 DEF Follows, Keeps
<1> QED
  BY <1>1, <1>5, Returned

LEMMA Table_step == ASSUME GInv, Gemini_table PROVE GInv'
<1> DEFINE v == View(Tail(calls))
           w == [v EXCEPT !.st.flags = calls[1].flags]
           x == Space_after(w, This)
<1>1. /\ Quiet /\ Rendering_calls /\ Gemini_returns(x) /\ Tabled(calls, 1) /\ ~Measures(calls[1])
      /\ Type(This) # "FOOTNOTE"
  BY DEF Gemini_table, At_table, Gemini_at, Tabled, This, Table
<1>2. IsW(v) /\ v.st = st
  BY Viewed
<1> HIDE DEF v
<1>3. /\ IsW(w) /\ w.st.flags = calls[1].flags /\ w.st.nolinkflush = st.nolinkflush
      /\ w.st.nolinkqsz = st.nolinkqsz
  BY <1>2 DEF IsW, IsSt
<1> HIDE DEF w
<1>4. Follows(w, x)
  BY <1>3, Space_after_follows
<1> HIDE DEF x
<1>5. /\ IsW(x) /\ x.st.flags = calls[1].flags /\ (x.st.nolinkflush <=> st.nolinkflush)
      /\ st.nolinkqsz = 0 => x.st.nolinkqsz = 0
  BY <1>3, <1>4 DEF Follows, Keeps
<1> QED
  BY <1>1, <1>5, Returned

LEMMA Root_step == ASSUME GInv, Gemini_root PROVE GInv'
<1> DEFINE v == View(Tail(calls))
           listed == st.linkq # <<>> /\ "LINK_END" \in st.flags
           spaced == Vspace(v, 2)
           linked == IF listed THEN Flush_linkq(spaced) ELSE v
           w == [linked EXCEPT !.out = @ \o Notes(st.foots)]
           noted == Vspace(w, 1)
           x == [noted EXCEPT !.out = Snipped(@)]
<1>1. Quiet /\ Rendering_calls /\ Type(This) \notin Own_buffer
  BY DEF Gemini_root, Gemini_at, Own_buffer
<1>2. Gemini_returns(x) \/ (gphase' = "aborted" /\ UNCHANGED <<st, calls>>)
  BY DEF Gemini_root
<1>3. IsW(v) /\ v.st = st
  BY Viewed
<1> HIDE DEF v
<1>4. Follows(v, linked)
  <2>1. Follows(v, spaced) /\ Follows(v, v)
    BY <1>3, Vspace_follows, FollowsItself
  <2> HIDE DEF spaced
  <2>2. Follows(v, Flush_linkq(spaced))
    BY <2>1, Flush_linkq_follows, FollowsOn DEF Follows
  <2> QED
    BY <2>1, <2>2
<1> HIDE DEF linked
<1>5. Follows(v, w)
  BY <1>4, Out_follows, FollowsOn DEF Follows
<1> HIDE DEF w
<1>6. Follows(v, noted)
  BY <1>5, Vspace_follows, FollowsOn DEF Follows
<1> HIDE DEF noted
<1>7. Follows(v, x)
  BY <1>6, Out_follows, FollowsOn DEF Follows
<1> HIDE DEF x
<1>8. CASE Gemini_returns(x)
  BY <1>1, <1>3, <1>7, <1>8, Plainly_returned
<1>9. CASE gphase' = "aborted" /\ UNCHANGED <<st, calls>>
  BY <1>1, <1>9, Step_kept DEF GInv, Rendering_calls
<1> QED
  BY <1>2, <1>8, <1>9

LEMMA Called == ASSUME NEW n PROVE IsFrame(Call(n)) /\ Call(n).node = n
BY DEF Call, IsFrame

\* A call begins: of a table, a footnote, or another node.
LEMMA Calls_step ==
  ASSUME GInv, Quiet, Rendering_calls, gphase' = gphase, NEW stack, Alike(calls, stack),
         NEW s, IsSt(s), Keeps(st, s), NEW n, Gemini_calls(stack, s, n)
  PROVE  GInv'
<1> DEFINE v     == [View(stack) EXCEPT !.st = s]
           w     == Before(v, n)
           there == Stack_with(stack, w.out)
<1>1. IsW(v) /\ v.st = s
  BY DEF View, IsW
<1> HIDE DEF v
<1>2. IsW(w) /\ Keeps(s, w.st)
  BY <1>1, Before_follows DEF Follows
<1> HIDE DEF w
<1>3. Kept(calls, st) /\ Links_kept(calls, st) /\ calls # <<>> /\ gphase' = "rendering"
  BY DEF GInv, Rendering_calls
<1>4. Kept(stack, s) /\ Links_kept(stack, s)
  BY <1>3, Alike_kept
<1>5. Kept(there, s) /\ Links_kept(there, s) /\ Len(there) # 0
  <2>1. IsStack(stack) /\ IsStack(calls)
    BY <1>3, <1>4 DEF Kept
  <2>2. Alike(stack, there)
    BY <2>1, Buffered
  <2>3. Keeps(s, s)
    BY DEF Keeps
  <2>4. Len(there) = Len(calls) /\ Len(calls) # 0
    BY <1>3, <2>1, <2>2, Lengths DEF Alike
  <2> QED
    BY <1>4, <2>2, <2>3, <2>4, Alike_kept
<1> HIDE DEF there
<1>6. ASSUME NEW f, IsFrame(f), NEW x, IsSt(x), calls' = Onto(f, there), st' = x,
             Kept(Onto(f, there), x), Links_kept(Onto(f, there), x)
      PROVE  GInv'
  BY <1>3, <1>6, Step_kept
<1>7. CASE Type(n) = "FOOTNOTE"
  <2> DEFINE mark == <<Token("note", "", n, Len(s.foots) + 1)>>
             f == [Call(n) EXCEPT !.buf = mark]
             x == [w.st EXCEPT !.last_blank = -1, !.nolinkflush = TRUE]
  <2>1. calls' = Onto(f, there) /\ st' = x
    BY <1>7 DEF Gemini_calls, v, w, there, Onto
  <2> HIDE DEF mark
  <2>2. IsFrame(f) /\ f.node = n
    BY Called DEF IsFrame
  <2> HIDE DEF f
  <2>3. IsSt(x) /\ x.flags = w.st.flags /\ x.nolinkqsz = w.st.nolinkqsz
    <3>1. ASSUME NEW blank, NEW flush
          PROVE  LET y == [w.st EXCEPT !.last_blank = blank, !.nolinkflush = flush] IN
                 IsSt(y) /\ y.flags = w.st.flags /\ y.nolinkqsz = w.st.nolinkqsz
      <4> DEFINE begun == [w.st EXCEPT !.last_blank = blank]
                 kept  == [begun EXCEPT !.nolinkflush = flush]
      <4>1. kept = [w.st EXCEPT !.last_blank = blank, !.nolinkflush = flush]
        OBVIOUS
      <4>2. IsSt(begun) /\ begun.flags = w.st.flags /\ begun.nolinkqsz = w.st.nolinkqsz
        BY <1>2 DEF IsW, IsSt
      <4> HIDE DEF begun
      <4>3. IsSt(kept) /\ kept.flags = begun.flags /\ kept.nolinkqsz = begun.nolinkqsz
        BY <4>2 DEF IsSt
      <4> HIDE DEF kept
      <4> QED
        BY <4>1, <4>2, <4>3
    <3> QED
      BY <3>1
  <2> HIDE DEF x
  <2>4. Kept(Onto(f, there), x) /\ Links_kept(Onto(f, there), x)
    BY <1>2, <1>5, <1>7, <2>2, <2>3, Push DEF Keeps
  <2> QED
    BY <1>6, <2>1, <2>2, <2>3, <2>4
<1>8. CASE Type(n) = "TABLE_BLOCK"
  <2> DEFINE widths == [k \in 1 .. Lab(n).num |-> 0]
             counted == IF 0 < Cell_count(n) THEN s.linkqsz + 1 ELSE 0
             f == [Call(n) EXCEPT !.widths = widths, !.flags = s.flags]
             x == [w.st EXCEPT !.flags = s.flags \ {"LINK_IN"}, !.nolinkqsz = counted]
  <2>1. calls' = Onto(f, there) /\ st' = x
    BY <1>8 DEF Gemini_calls, v, w, there, Onto
  <2>2. counted # 0 => 0 < Cell_count(n)
    OBVIOUS
  <2> HIDE DEF widths, counted
  <2>3. IsFrame(f) /\ f.node = n /\ f.flags = s.flags /\ f.cell = 0
    <3> DEFINE c == Call(n)
               measured == [c EXCEPT !.widths = widths]
               kept     == [measured EXCEPT !.flags = s.flags]
    <3>1. kept = f
      OBVIOUS
    <3>2. IsFrame(c) /\ c.node = n /\ c.cell = 0
      BY DEF Call, IsFrame
    <3> HIDE DEF c, f
    <3>3. IsFrame(measured) /\ measured.node = n /\ measured.cell = 0
      BY <3>2 DEF IsFrame
    <3> HIDE DEF measured
    <3>4. IsFrame(kept) /\ kept.node = n /\ kept.cell = 0 /\ kept.flags = s.flags
      BY <3>3 DEF IsFrame
    <3> HIDE DEF kept
    <3> QED
      BY <3>1, <3>4
  <2> HIDE DEF f
  <2>4. IsSt(x) /\ x.flags = s.flags \ {"LINK_IN"} /\ x.nolinkqsz = counted /\ x.nolinkflush = w.st.nolinkflush
    <3>1. ASSUME NEW flags, NEW sz
          PROVE  LET y == [w.st EXCEPT !.flags = flags, !.nolinkqsz = sz] IN
                 /\ IsSt(y) /\ y.flags = flags /\ y.nolinkqsz = sz /\ y.nolinkflush = w.st.nolinkflush
      <4> DEFINE flagged == [w.st EXCEPT !.flags = flags]
                 kept    == [flagged EXCEPT !.nolinkqsz = sz]
      <4>1. kept = [w.st EXCEPT !.flags = flags, !.nolinkqsz = sz]
        OBVIOUS
      <4>2. IsSt(flagged) /\ flagged.flags = flags /\ flagged.nolinkflush = w.st.nolinkflush
        BY <1>2 DEF IsW, IsSt
      <4> HIDE DEF flagged
      <4>3. /\ IsSt(kept) /\ kept.flags = flagged.flags /\ kept.nolinkqsz = sz
            /\ kept.nolinkflush = flagged.nolinkflush
        BY <4>2 DEF IsSt
      <4> HIDE DEF kept
      <4> QED
        BY <4>1, <4>2, <4>3
    <3> QED
      BY <3>1
  <2> HIDE DEF x
  <2>5. x.nolinkqsz # 0 => Type(f.node) = "TABLE_BLOCK" /\ Measures(f)
    BY <1>8, <2>2, <2>3, <2>4 DEF Measures
  <2>6. x.nolinkflush => s.nolinkflush
    BY <1>2, <2>4 DEF Keeps
  <2>7. Kept(Onto(f, there), x) /\ Links_kept(Onto(f, there), x)
    BY <1>5, <1>8, <2>3, <2>4, <2>5, <2>6, Push
  <2> QED
    BY <1>6, <2>1, <2>3, <2>4, <2>7
<1>9. CASE Type(n) \notin {"FOOTNOTE", "TABLE_BLOCK"}
  <2> DEFINE f == Call(n)
  <2>1. calls' = Onto(f, there) /\ st' = w.st
    BY <1>9 DEF Gemini_calls, v, w, there, Onto
  <2>2. IsFrame(f) /\ f.node = n
    BY Called
  <2> HIDE DEF f
  <2>3. IsSt(w.st)
    BY <1>2 DEF IsW
  <2>4. Kept(Onto(f, there), w.st) /\ Links_kept(Onto(f, there), w.st)
    BY <1>2, <1>5, <1>9, <2>2, <2>3, Push DEF Keeps
  <2> QED
    BY <1>6, <2>1, <2>2, <2>3, <2>4
<1> QED
  BY <1>7, <1>8, <1>9

LEMMA Child_step == ASSUME GInv, Gemini_child PROVE GInv'
<1> DEFINE n     == calls[1].next
           begun == [calls[1] EXCEPT !.next = Next_of(n)]
           stack == [calls EXCEPT ![1] = begun]
<1>1. Quiet /\ Rendering_calls /\ gphase' = gphase /\ Gemini_calls(stack, st, n)
  BY DEF Gemini_child
<1>2. Alike(calls, stack) /\ IsSt(st) /\ Keeps(st, st)
  <2>1. IsStack(calls) /\ IsSt(st) /\ 1 \in 1 .. Len(calls) /\ IsFrame(calls[1])
    <3>1. IsStack(calls) /\ IsSt(st) /\ calls # <<>>
      BY <1>1 DEF GInv, Kept, Rendering_calls
    <3>2. 1 \in 1 .. Len(calls)
      BY <3>1, Lengths
    <3> QED
      BY <3>1, <3>2 DEF IsStack
  <2>2. Same_call(calls[1], begun)
    BY <2>1 DEF IsFrame, Same_call
  <2> HIDE DEF begun
  <2> QED
    BY <2>1, <2>2, Changed DEF Keeps
<1> HIDE DEF stack, n
<1> QED
  BY <1>1, <1>2, Calls_step

LEMMA Cell_step == ASSUME GInv, Gemini_cell PROVE GInv'
<1> DEFINE begun == [Table EXCEPT !.busy = TRUE, !.buf = <<>>, !.blank = st.last_blank]
           stack == [calls EXCEPT ![1] = begun]
           s     == [st EXCEPT !.last_blank = 0]
<1>1. Quiet /\ Rendering_calls /\ gphase' = gphase /\ Gemini_calls(stack, s, In_hand)
  BY DEF Gemini_cell, At_table, Gemini_at
<1>2. IsSt(s) /\ Keeps(st, s)
  BY DEF GInv, Kept, IsSt, Keeps
<1> HIDE DEF s
<1>3. Alike(calls, stack)
  <2>1. IsStack(calls) /\ 1 \in 1 .. Len(calls) /\ IsFrame(calls[1])
    <3>1. IsStack(calls) /\ calls # <<>>
      BY <1>1 DEF GInv, Kept, Rendering_calls
    <3>2. 1 \in 1 .. Len(calls)
      BY <3>1, Lengths
    <3> QED
      BY <3>1, <3>2 DEF IsStack
  <2>2. Same_call(calls[1], begun)
    <3>1. ASSUME NEW busy, NEW buf, NEW blank
          PROVE  Same_call(calls[1], [calls[1] EXCEPT !.busy = busy, !.buf = buf, !.blank = blank])
      <4> DEFINE f == [calls[1] EXCEPT !.busy = busy]
                 g == [f EXCEPT !.buf = buf]
                 h == [g EXCEPT !.blank = blank]
      <4>1. h = [calls[1] EXCEPT !.busy = busy, !.buf = buf, !.blank = blank]
        OBVIOUS
      <4>2. Same_call(calls[1], f)
        BY <2>1 DEF IsFrame, Same_call
      <4> HIDE DEF f
      <4>3. Same_call(f, g)
        BY <4>2 DEF IsFrame, Same_call
      <4> HIDE DEF g
      <4>4. Same_call(g, h)
        BY <4>3 DEF IsFrame, Same_call
      <4> HIDE DEF h
      <4> QED
        BY <4>1, <4>2, <4>3, <4>4 DEF Same_call
    <3> QED
      BY <3>1 DEF Table
  <2> HIDE DEF begun
  <2> QED
    BY <2>1, <2>2, Changed
<1> HIDE DEF stack
<1> QED
  BY <1>1, <1>2, <1>3, Calls_step

LEMMA Measure_step == ASSUME GInv, Gemini_measure PROVE GInv'
<1> DEFINE i  == Place(In_hand)
           sz == Mbswidth(Table.buf)
           s  == [st EXCEPT !.last_blank = Table.blank]
           widths   == [Table.widths EXCEPT ![i] = IF @ < sz THEN sz ELSE @]
           measured == [Table EXCEPT !.busy = FALSE, !.cell = @ + 1, !.widths = widths]
           stack    == [calls EXCEPT ![1] = measured]
           x == IF Table.cell + 1 < Cell_count(This) THEN s ELSE Measured(s)
<1>1. Quiet /\ Rendering_calls /\ gphase' = gphase /\ calls' = stack /\ st' = x
  BY DEF Gemini_measure, At_table, Gemini_at
<1>2. Kept(calls, st) /\ Links_kept(calls, st) /\ calls # <<>> /\ IsStack(calls) /\ 1 \in 1 .. Len(calls)
  <2>1. Kept(calls, st) /\ Links_kept(calls, st) /\ calls # <<>>
    BY <1>1 DEF GInv, Rendering_calls
  <2>2. IsStack(calls)
    BY <2>1 DEF Kept
  <2>3. 1 \in 1 .. Len(calls)
    BY <2>1, <2>2, Lengths
  <2> QED
    BY <2>1, <2>2, <2>3
<1>3. IsSt(s) /\ s.flags = st.flags /\ s.nolinkflush = st.nolinkflush /\ s.nolinkqsz = st.nolinkqsz
  BY <1>2 DEF Kept, IsSt
<1> HIDE DEF s
<1>4. IsSt(x) /\ Keeps(st, x)
  <2>1. IsSt(Measured(s)) /\ Keeps(st, Measured(s))
    BY <1>3 DEF Measured, IsSt, Keeps
  <2> QED
    BY <1>3, <2>1 DEF Keeps
<1> HIDE DEF widths
<1>5. /\ IsFrame(measured) /\ measured.node = This /\ measured.flags = calls[1].flags
      /\ measured.cell = Table.cell + 1
  <2> DEFINE cell == Table.cell + 1
  <2>1. measured = [Table EXCEPT !.busy = FALSE, !.cell = cell, !.widths = widths]
    OBVIOUS
  <2> HIDE DEF cell, measured
  <2>2. \A busy : LET f == [Table EXCEPT !.busy = busy] IN
                  IsFrame(f) /\ f.node = This /\ f.flags = calls[1].flags
    <3>1. IsFrame(calls[1])
      BY <1>2 DEF IsStack
    <3> QED
      BY <3>1 DEF IsFrame, Table, This
  <2> DEFINE f == [Table EXCEPT !.busy = FALSE]
             g == [f EXCEPT !.cell = cell]
             h == [g EXCEPT !.widths = widths]
  <2>3. h = measured
    BY <2>1
  <2>4. IsFrame(f) /\ f.node = This /\ f.flags = calls[1].flags
    BY <2>2
  <2> HIDE DEF f
  <2>5. IsFrame(g) /\ g.node = This /\ g.flags = calls[1].flags /\ g.cell = cell
    BY <2>4 DEF IsFrame
  <2> HIDE DEF g
  <2>6. IsFrame(h) /\ h.node = This /\ h.flags = calls[1].flags /\ h.cell = cell
    BY <2>5 DEF IsFrame
  <2> HIDE DEF h
  <2> QED
    BY <2>3, <2>6 DEF cell
<1> HIDE DEF measured
<1>6. /\ IsStack(stack) /\ Len(stack) = Len(calls)
      /\ \A k \in 1 .. Len(calls) : stack[k] = IF k = 1 THEN measured ELSE calls[k]
  BY <1>2, <1>5, Exchanged
<1> HIDE DEF stack
<1>7. Kept(stack, x)
  <2>1. \A k \in 1 .. Len(calls) : stack[k].node = calls[k].node /\ stack[k].flags = calls[k].flags
    BY <1>5, <1>6 DEF This
  <2> HIDE DEF x
  <2> QED
    BY <1>2, <1>4, <1>6, <2>1, Same_kept
<1>8. Links_kept(stack, x)
  <2>1. CASE Table.cell + 1 < Cell_count(This)
    <3>1. Measures(measured)
      BY <1>5, <2>1 DEF Measures
    <3>2. ASSUME NEW k \in 1 .. Len(calls), Tabled(calls, k), Measures(calls[k])
          PROVE  Tabled(stack, k) /\ Measures(stack[k])
      BY <1>5, <1>6, <3>1, <3>2 DEF Tabled, This
    <3> QED
      BY <1>2, <1>3, <1>6, <2>1, <3>2 DEF Links_kept
  <2>2. CASE ~(Table.cell + 1 < Cell_count(This))
    <3>1. x.nolinkqsz = 0
      BY <1>3, <2>2 DEF Measured, IsSt
    <3> QED
      BY <3>1 DEF Links_kept
  <2> QED
    BY <2>1, <2>2
<1> HIDE DEF x
<1> QED
  BY <1>1, <1>2, <1>7, <1>8, Step_kept DEF Rendering_calls

LEMMA Row_printed_follows ==
  ASSUME NEW w, IsW(w), NEW row, NEW cell
  PROVE  Follows(w, Row_printed(w, row, cell))
<1> DEFINE line(v, out) == Vspace(Set_blank([v EXCEPT !.out = @ \o out], 0), 1)
           rule == <<Token("rule", "-", Par(Par(Par(cell))), 0)>>
           one  == line(w, row)
           two  == line(one, rule)
<1>1. ASSUME NEW v, IsW(v), NEW out PROVE Follows(v, line(v, out))
  <2> DEFINE more == [v EXCEPT !.out = @ \o out]
             begun == Set_blank(more, 0)
  <2>1. Follows(v, more)
    BY <1>1, Out_follows
  <2> HIDE DEF more
  <2>2. Follows(v, begun)
    BY <2>1, Set_blank_follows, FollowsOn DEF Follows
  <2> HIDE DEF begun
  <2>3. Follows(v, Vspace(begun, 1))
    BY <2>2, Vspace_follows, FollowsOn DEF Follows
  <2> QED
    BY <2>3 DEF begun, more
<1>2. Row_printed(w, row, cell) \in {one, two}
  BY DEF Row_printed
<1> HIDE DEF line
<1>3. Follows(w, one)
  BY <1>1
<1>4. Follows(w, two)
  <2>1. Follows(one, two)
    BY <1>1, <1>3 DEF Follows
  <2> HIDE DEF one, two
  <2> QED
    BY <1>3, <2>1, FollowsOn
<1> QED
  BY <1>2, <1>3, <1>4

LEMMA Print_step == ASSUME GInv, Gemini_print PROVE GInv'
<1> DEFINE cell == In_hand
           sz  == Table.widths[Place(cell)] - Mbswidth(Table.buf)
           row == Table.row \o Padded(Lab(cell).fl, Table.buf, sz)
                    \o IF Next_of(cell) = None THEN <<>> ELSE Say(cell, <<" | ">>)
           v   == View(Tail(calls))
           w   == Set_blank(v, Table.blank)
           end == IF Next_of(cell) = None THEN Row_printed(w, row, cell) ELSE w
           left == IF Next_of(cell) = None THEN <<>> ELSE row
           printed == [Table EXCEPT !.busy = FALSE, !.cell = @ + 1, !.row = left]
           outer == Stack_with(Tail(calls), end.out)
<1>1. /\ Quiet /\ Rendering_calls /\ ~Measures(calls[1])
      /\ \/ gphase' = "aborted" /\ UNCHANGED <<calls, st>>
         \/ calls' = Onto(printed, outer) /\ st' = end.st /\ gphase' = gphase
  BY DEF Gemini_print, At_table, Gemini_at, Table, Onto
<1>2. Kept(calls, st) /\ Links_kept(calls, st) /\ calls # <<>> /\ IsStack(calls) /\ IsFrame(calls[1])
  <2>1. Kept(calls, st) /\ Links_kept(calls, st) /\ calls # <<>>
    BY <1>1 DEF GInv, Rendering_calls
  <2>2. IsStack(calls)
    BY <2>1 DEF Kept
  <2>3. 1 \in 1 .. Len(calls)
    BY <2>1, <2>2, Lengths
  <2> QED
    BY <2>1, <2>2, <2>3 DEF IsStack
<1>3. CASE gphase' = "aborted" /\ UNCHANGED <<calls, st>>
  BY <1>1, <1>2, <1>3, Step_kept DEF Rendering_calls
<1>4. CASE calls' = Onto(printed, outer) /\ st' = end.st /\ gphase' = gphase
  <2>1. IsSt(end.st) /\ Keeps(st, end.st)
    <3>1. IsW(v) /\ v.st = st
      BY Viewed
    <3> HIDE DEF v
    <3>2. Follows(v, w)
      BY <3>1, Set_blank_follows
    <3> HIDE DEF w, row
    <3>3. Follows(v, Row_printed(w, row, cell))
      BY <3>2, Row_printed_follows, FollowsOn DEF Follows
    <3>4. Follows(v, end)
      BY <3>2, <3>3
    <3> HIDE DEF end
    <3> QED
      BY <3>1, <3>4 DEF Follows, IsW
  <2> HIDE DEF end
  <2>2. IsFrame(printed) /\ printed.node = calls[1].node /\ printed.flags = calls[1].flags
    <3> HIDE DEF left
    <3> DEFINE next == Table.cell + 1
               f == [Table EXCEPT !.busy = FALSE]
               g == [f EXCEPT !.cell = next]
               h == [g EXCEPT !.row = left]
    <3>1. printed = [Table EXCEPT !.busy = FALSE, !.cell = next, !.row = left]
      OBVIOUS
    <3> HIDE DEF next, printed
    <3>2. h = printed
      BY <3>1
    <3>3. \A busy : LET c == [Table EXCEPT !.busy = busy] IN
                    IsFrame(c) /\ c.node = calls[1].node /\ c.flags = calls[1].flags
      BY <1>2 DEF IsFrame, Table
    <3>4. IsFrame(f) /\ f.node = calls[1].node /\ f.flags = calls[1].flags
      BY <3>3
    <3> HIDE DEF f
    <3>5. IsFrame(g) /\ g.node = calls[1].node /\ g.flags = calls[1].flags
      BY <3>4 DEF IsFrame
    <3> HIDE DEF g
    <3>6. IsFrame(h) /\ h.node = calls[1].node /\ h.flags = calls[1].flags
      BY <3>5 DEF IsFrame
    <3> QED
      BY <3>2, <3>6
  <2> HIDE DEF printed
  <2>3. /\ IsStack(outer) /\ Len(outer) = Len(calls) - 1 /\ Len(calls) \in Nat \ {0}
        /\ \A k \in 2 .. Len(calls) : k - 1 \in 1 .. Len(outer) /\ Same_call(calls[k], outer[k - 1])
    <3>1. /\ IsStack(Tail(calls)) /\ Len(Tail(calls)) = Len(calls) - 1 /\ Len(calls) \in Nat \ {0}
          /\ \A k \in 2 .. Len(calls) : k - 1 \in 1 .. Len(calls) - 1 /\ Tail(calls)[k - 1] = calls[k]
      BY <1>2, Popped
    <3>2. Alike(Tail(calls), outer)
      BY <3>1, Buffered
    <3> HIDE DEF outer
    <3> QED
      BY <3>1, <3>2 DEF Alike
  <2> HIDE DEF outer
  <2> DEFINE stack == Onto(printed, outer)
  <2>4. /\ IsStack(stack) /\ Len(stack) = Len(calls) /\ stack[1] = printed
        /\ \A k \in 2 .. Len(calls) : stack[k] = outer[k - 1]
    <3>1. /\ IsStack(stack) /\ Len(stack) = Len(outer) + 1 /\ stack[1] = printed
          /\ \A k \in 1 .. Len(outer) + 1 : k = 1 \/ (k - 1 \in 1 .. Len(outer) /\ stack[k] = outer[k - 1])
      BY <2>2, <2>3, Pushed
    <3> HIDE DEF stack
    <3> QED
      BY <2>3, <3>1
  <2> HIDE DEF stack
  <2>5. \A k \in 2 .. Len(calls) : Same_call(calls[k], stack[k])
    BY <2>3, <2>4
  <2>6. Kept(stack, end.st)
    <3>1. ASSUME NEW k \in 1 .. Len(calls)
          PROVE  stack[k].node = calls[k].node /\ stack[k].flags = calls[k].flags
      <4>1. k = 1 \/ k \in 2 .. Len(calls)
        BY <2>3
      <4> QED
        BY <2>2, <2>4, <2>5, <4>1 DEF Same_call
    <3> QED
      BY <1>2, <2>1, <2>4, <3>1, Same_kept
  <2>7. Links_kept(stack, end.st)
    <3>1. ASSUME NEW k \in 1 .. Len(calls), Tabled(calls, k), Measures(calls[k])
          PROVE  Tabled(stack, k) /\ Measures(stack[k])
      <4>1. k \in 2 .. Len(calls)
        BY <1>1, <2>3, <3>1
      <4> QED
        BY <2>5, <3>1, <4>1 DEF Same_call, Tabled, Measures
    <3> QED
      BY <1>2, <2>1, <2>4, <3>1 DEF Links_kept, Keeps
  <2> QED
    BY <1>1, <1>2, <1>4, <2>6, <2>7, Step_kept DEF stack, Rendering_calls
<1> QED
  BY <1>1, <1>3, <1>4

-------------------------------------------------------------------------------
(***************************************************************************)
(* The document begins and ends, or memory runs out.                       *)
(***************************************************************************)
LEMMA Nothing_kept ==
  ASSUME NEW t, IsSt(t), t.flags = New, t.nolinkflush => fault = "had"
  PROVE  Kept(<<>>, t)
<1>1. IsStack(<<>>) /\ Len(<<>>) = 0
  BY Empty_stack
<1>2. ~Held(<<>>, 1)
  BY <1>1 DEF Held
<1>3. Flags_kept(<<>>, t)
  BY <1>1, <1>2 DEF Flags_kept, Flags_in
<1> QED
  BY <1>1, <1>2, <1>3 DEF Kept, Flush_kept, Has_oldest, Bottom

LEMMA Init_keeps == ASSUME Init PROVE GInv
<1>1. IsSt(st) /\ st.flags = New /\ ~st.nolinkflush
  BY DEF Init, IsSt, New
<1>2. Kept(<<>>, st)
  BY <1>1, Nothing_kept
<1>3. Forgotten
  BY DEF Init, Forgotten
<1>4. Len(session.docs) \in Nat
  BY SessionsAssumption DEF Init
<1> QED
  BY <1>2, <1>3, <1>4 DEF Init, GInv

LEMMA One_call ==
  ASSUME NEW f, IsFrame(f)
  PROVE  IsStack(<<f>>) /\ Len(<<f>>) = 1 /\ <<f>>[1] = f
<1> DEFINE t == <<f>>
<1>1. t \in Seq({f}) /\ Len(t) = 1 /\ t[1] = f
  OBVIOUS
<1> HIDE DEF t
<1>2. \A k \in 1 .. Len(t) : IsFrame(t[k])
  <2>1. \A k \in 1 .. Len(t) : k = 1
    BY <1>1
  <2> QED
    BY <1>1, <2>1
<1>3. IsStack(t)
  BY <1>1, <1>2 DEF IsStack
<1> QED
  BY <1>1, <1>3 DEF t

LEMMA Begin_step == ASSUME GInv, Lowdown_gemini_rndr PROVE GInv'
<1> DEFINE f == Call(0)'
<1>1. /\ session' = session /\ metaq' = metaq /\ fault' = fault /\ turn' = turn + 1
      /\ calls' = <<f>> /\ gphase' = "rendering"
      /\ gphase = "idle" /\ turn < Len(session.docs)
  BY DEF Lowdown_gemini_rndr
<1>2. session \in Sessions /\ turn' \in 1 .. Len(session.docs)
  BY <1>1, SessionsAssumption DEF GInv
<1>3. Type(0)' = "ROOT"
  BY <1>1, <1>2, SessionsAssumption DEF Type, Lab, None
<1>4. calls = <<>> /\ Forgotten /\ Kept(calls, st)
  BY <1>1 DEF GInv
<1>5. st.flags = New /\ IsSt(st) /\ (st.nolinkflush => fault = "had") /\ st.nolinkqsz = 0
  <2>1. IsStack(<<>>) /\ Len(<<>>) = 0
    BY Empty_stack
  <2>2. ~Held(<<>>, 1)
    BY <2>1 DEF Held
  <2> QED
    BY <1>4, <2>1, <2>2 DEF Kept, Flags_kept, Flags_in, Flush_kept, Forgotten
<1>6. /\ IsSt(st') /\ st'.flags = New /\ (st'.nolinkflush => fault = "had") /\ st'.nolinkqsz = 0
  <2> DEFINE s == [st EXCEPT !.last_blank = -1]
             t == [s EXCEPT !.headers_offs = 1]
  <2>1. st' = t
    BY DEF Lowdown_gemini_rndr
  <2>2. IsSt(s) /\ s.flags = st.flags /\ s.nolinkflush = st.nolinkflush /\ s.nolinkqsz = st.nolinkqsz
    BY <1>5 DEF IsSt
  <2> HIDE DEF s
  <2>3. IsSt(t) /\ t.flags = s.flags /\ t.nolinkflush = s.nolinkflush /\ t.nolinkqsz = s.nolinkqsz
    BY <2>2 DEF IsSt
  <2> HIDE DEF t
  <2> QED
    BY <1>5, <2>1, <2>2, <2>3
<1>7. IsFrame(f) /\ f.node = 0
  BY DEF Call, IsFrame
<1> HIDE DEF f
<1>8. IsStack(calls') /\ Len(calls') = 1 /\ calls'[1] = f
  BY <1>1, <1>7, One_call
<1>9. ~Held(calls, 1)'
  BY <1>3, <1>7, <1>8 DEF Held, Tabled
<1>10. New' = New
  BY <1>1 DEF New
<1>11. Flags_kept(calls, st)'
  <2>1. \A k \in 1 .. Len(calls') : ~Tabled(calls, k)'
    BY <1>9 DEF Held
  <2> QED
    BY <1>6, <1>9, <1>10, <2>1 DEF Flags_kept, Flags_in
<1>12. Flush_kept(calls, st)'
  BY <1>1, <1>6 DEF Flush_kept
<1>13. Has_oldest(calls)' /\ Bottom(calls)'
  BY <1>7, <1>8, <1>9 DEF Has_oldest, Bottom
<1>14. IsStack(calls)' /\ IsSt(st)'
  BY <1>6, <1>8 DEF IsStack, IsFrame, IsSt
<1>15. Kept(calls, st)'
  BY <1>11, <1>12, <1>13, <1>14 DEF Kept
<1>16. Links_kept(calls, st)'
  BY <1>6 DEF Links_kept
<1>17. turn' \in 0 .. Len(session.docs)
  BY <1>2
<1> QED
  BY <1>1, <1>2, <1>15, <1>16, <1>17 DEF GInv

LEMMA Settled == ASSUME GInv, calls = <<>> PROVE IsSt(st) /\ st.flags = New /\ (st.nolinkflush => fault = "had")
<1>1. IsStack(<<>>) /\ Len(<<>>) = 0
  BY Empty_stack
<1>2. ~Held(<<>>, 1)
  BY <1>1 DEF Held
<1>3. Kept(<<>>, st)
  BY DEF GInv
<1> QED
  BY <1>1, <1>2, <1>3 DEF Kept, Flags_kept, Flags_in, Flush_kept

\* No call is in progress any more.
LEMMA Nothing_left ==
  ASSUME GInv, UNCHANGED <<session, turn>>, calls' = <<>>,
         IsSt(st'), st'.flags = New, st'.nolinkflush => fault' = "had",
         gphase' # "rendering", gphase' = "idle" => Forgotten'
  PROVE  GInv'
<1>1. IsStack(<<>>) /\ Len(<<>>) = 0
  BY Empty_stack
<1>2. IsStack(calls)' /\ IsSt(st)' /\ Len(calls') = 0 /\ Len(calls)' = 0
  BY <1>1 DEF IsStack, IsFrame, IsSt
<1>3. ~Held(calls, 1)'
  BY <1>2 DEF Held
<1>4. New' = New
  BY DEF New
<1>5. Flags_kept(calls, st)'
  BY <1>2, <1>3, <1>4 DEF Flags_kept, Flags_in
<1>6. Flush_kept(calls, st)' /\ Has_oldest(calls)' /\ Bottom(calls)'
  BY <1>2, <1>3 DEF Flush_kept, Has_oldest, Bottom
<1>7. Kept(calls, st)'
  BY <1>2, <1>5, <1>6 DEF Kept
<1> QED
  BY <1>7 DEF GInv

LEMMA Fail_step == ASSUME GInv, Gemini_fails PROVE GInv'
<1>1. /\ UNCHANGED <<session, turn>> /\ calls' = <<>> /\ fault' = "had" /\ gphase' = "failed"
      /\ st' = IF Tables = {} THEN st ELSE [st EXCEPT !.flags = calls[Oldest_table].flags]
  BY DEF Gemini_fails
<1>2. Kept(calls, st) /\ IsStack(calls) /\ IsSt(st) /\ Len(calls) \in Nat /\ DOMAIN calls = 1 .. Len(calls)
  <2>1. Kept(calls, st) /\ IsStack(calls) /\ IsSt(st)
    BY DEF GInv, Kept
  <2> QED
    BY <2>1, Lengths
<1>3. \A k : k \in Tables <=> k \in 1 .. Len(calls) /\ Tabled(calls, k)
  BY <1>2 DEF Tables, Tabled
<1>4. CASE Tables = {}
  <2>1. ~Held(calls, 1)
    BY <1>3, <1>4 DEF Held
  <2>2. st.flags = New
    BY <1>2, <2>1 DEF Kept, Flags_kept, Flags_in
  <2> QED
    BY <1>1, <1>2, <1>4, <2>2, Nothing_left
<1>5. CASE Tables # {}
  <2> DEFINE k == Oldest_table
             s == [st EXCEPT !.flags = calls[k].flags]
  <2>1. \E i \in Tables : \A j \in Tables : j <= i
    <3>1. Held(calls, 1)
      BY <1>3, <1>5 DEF Held
    <3>2. PICK i \in 1 .. Len(calls) : Tabled(calls, i) /\ \A j \in 1 .. Len(calls) : Tabled(calls, j) => j <= i
      BY <1>2, <3>1 DEF Kept, Has_oldest
    <3> QED
      BY <1>3, <3>2
  <2>2. k \in Tables /\ \A j \in Tables : j <= k
    BY <2>1 DEF Oldest_table
  <2>3. st' = s
    BY <1>1, <1>5
  <2> HIDE DEF k
  <2>4. ~Held(calls, k + 1)
    <3>1. k \in 1 .. Len(calls)
      BY <1>3, <2>2
    <3>2. \A j \in k + 1 .. Len(calls) : j \in 1 .. Len(calls) /\ ~(j <= k)
      BY <1>2, <3>1
    <3> QED
      BY <1>3, <2>2, <3>2 DEF Held
  <2>5. calls[k].flags = New
    BY <1>2, <1>3, <2>2, <2>4 DEF Kept, Flags_kept, Flags_in
  <2>6. IsSt(s) /\ s.flags = New
    BY <1>2, <2>5 DEF IsSt
  <2> HIDE DEF s
  <2> QED
    BY <1>1, <2>3, <2>6, Nothing_left
<1> QED
  BY <1>4, <1>5

LEMMA Template_step == ASSUME GInv, Gemini_template PROVE GInv'
<1>1. Quiet /\ st' = st /\ calls' = calls /\ gphase' = "done" /\ gphase = "template"
  BY DEF Gemini_template
<1>2. calls = <<>>
  BY <1>1 DEF GInv
<1> QED
  BY <1>1, <1>2, Settled, Nothing_left DEF Quiet

LEMMA End_step == ASSUME GInv, Lowdown_gemini_ends PROVE GInv'
<1> DEFINE a == [st EXCEPT !.linkq = <<>>]
           b == [a EXCEPT !.linkqsz = 0]
           c == [b EXCEPT !.nolinkqsz = 0]
           d == [c EXCEPT !.foots = <<>>]
<1>1. Quiet /\ calls' = calls /\ gphase' = "idle" /\ gphase \in {"done", "failed"} /\ st' = d /\ metaq' = <<>>
  BY DEF Lowdown_gemini_ends
<1>2. calls = <<>>
  BY <1>1 DEF GInv
<1>3. IsSt(st) /\ st.flags = New /\ (st.nolinkflush => fault = "had")
  BY <1>2, Settled
<1>4. IsSt(a) /\ a.flags = st.flags /\ a.nolinkflush = st.nolinkflush /\ a.linkq = <<>>
  BY <1>3 DEF IsSt
<1> HIDE DEF a
<1>5. IsSt(b) /\ b.flags = st.flags /\ b.nolinkflush = st.nolinkflush /\ b.linkq = <<>> /\ b.linkqsz = 0
  BY <1>4 DEF IsSt
<1> HIDE DEF b
<1>6. /\ IsSt(c) /\ c.flags = st.flags /\ c.nolinkflush = st.nolinkflush /\ c.linkq = <<>>
      /\ c.linkqsz = 0 /\ c.nolinkqsz = 0
  BY <1>5 DEF IsSt
<1> HIDE DEF c
<1>7. /\ IsSt(d) /\ d.flags = st.flags /\ d.nolinkflush = st.nolinkflush /\ d.linkq = <<>>
      /\ d.linkqsz = 0 /\ d.nolinkqsz = 0 /\ d.foots = <<>>
  BY <1>6 DEF IsSt
<1> HIDE DEF d
<1>8. Forgotten'
  BY <1>1, <1>7 DEF Forgotten
<1> QED
  BY <1>1, <1>2, <1>3, <1>7, <1>8, Nothing_left DEF Quiet

LEMMA Stutter_step == ASSUME GInv, UNCHANGED vars PROVE GInv'
<1>1. Quiet /\ calls' = calls /\ st' = st /\ metaq' = metaq /\ gphase' = gphase
  BY DEF vars, Quiet
<1>2. Kept(calls', st')
  BY <1>1 DEF GInv
<1>3. Kept(calls, st)'
  BY <1>1, <1>2, Same_documents
<1>4. gphase = "rendering" => Links_kept(calls, st)'
  BY <1>1, Same_documents DEF GInv
<1> QED
  BY <1>1, <1>3, <1>4 DEF GInv, Quiet, Forgotten

-------------------------------------------------------------------------------
(***************************************************************************)
(* The invariant is inductive, and what it says of no more than the call   *)
(* of the root is what the renderer promises.                              *)
(***************************************************************************)
LEMMA Next_keeps == ASSUME GInv, [Next]_vars PROVE GInv'
<1>1. CASE Next
  BY <1>1, Begin_step, Child_step, Plain_step, Link_step, Footnote_step, Meta_step, Root_step, Cell_step,
     Measure_step, Print_step, Table_step, Fail_step, Template_step, End_step, Stutter_step
     DEF Next, Rest
<1>2. CASE UNCHANGED vars
  BY <1>2, Stutter_step
<1> QED
  BY <1>1, <1>2

LEMMA GInv_restores == ASSUME GInv PROVE Restored
<1>1. Kept(calls, st) /\ IsStack(calls) /\ Len(calls) \in Nat
  <2>1. Kept(calls, st) /\ IsStack(calls)
    BY DEF GInv, Kept
  <2> QED
    BY <2>1, Lengths
<1>2. ASSUME Len(calls) <= 1
      PROVE  \A k \in 1 .. Len(calls) : Type(calls[k].node) = "ROOT"
  <2>1. SUFFICES ASSUME NEW k \in 1 .. Len(calls) PROVE Type(calls[k].node) = "ROOT"
    OBVIOUS
  <2>2. k = 1 /\ Len(calls) = 1 /\ calls # <<>>
    <3> DEFINE n == Len(calls)
    <3>1. n \in Nat /\ n <= 1 /\ k \in 1 .. n
      BY <1>1, <1>2, <2>1
    <3> HIDE DEF n
    <3>2. k = 1 /\ n = 1
      BY <3>1
    <3>3. calls = <<>> <=> n = 0
      BY <1>1, Lengths DEF n
    <3> QED
      BY <3>2, <3>3 DEF n
  <2>3. calls[k].node = 0
    BY <1>1, <2>2 DEF Kept, Bottom
  <2>4. session \in Sessions /\ turn \in 1 .. Len(session.docs)
    BY <2>2 DEF GInv
  <2> QED
    BY <2>3, <2>4, SessionsAssumption DEF Type, Lab, None
<1>3. ASSUME Len(calls) <= 1
      PROVE  /\ st.flags = New_flags(session.oflags)
             /\ st.nolinkflush => fault = "had"
             /\ gphase = "rendering" => st.nolinkqsz = 0
  <2>1. \A k \in 1 .. Len(calls) : ~Tabled(calls, k) /\ Type(calls[k].node) # "FOOTNOTE"
    BY <1>2, <1>3 DEF Tabled
  <2>2. ~Held(calls, 1)
    BY <2>1 DEF Held
  <2>3. st.flags = New_flags(session.oflags)
    BY <1>1, <2>2 DEF Kept, Flags_kept, Flags_in, New
  <2>4. st.nolinkflush => fault = "had"
    BY <1>1, <2>1 DEF Kept, Flush_kept
  <2>5. gphase = "rendering" => st.nolinkqsz = 0
    BY <2>1 DEF GInv, Links_kept
  <2> QED
    BY <2>3, <2>4, <2>5
<1> QED
  BY <1>3 DEF Restored, GInv, Forgotten

\* For all documents, options and failures of memory: when no call but that
\* of the root is in progress the flags are those of lowdown_gemini_new(),
\* links are recorded and flushed again, and nothing is left of a document.
THEOREM RestoredCorrect == Spec => []Restored
<1>1. Init => GInv
  BY Init_keeps
<1>2. GInv /\ [Next]_vars => GInv'
  BY Next_keeps
<1>3. GInv => Restored
  BY GInv_restores
<1> QED
  BY <1>1, <1>2, <1>3, PTL DEF Spec
===============================================================================
