------------------------------ MODULE ParseProofs ------------------------------
(***************************************************************************)
(* Proofs about the parser as it goes through a document: that every step  *)
(* of it is one of ParseTree, from the metadata on, and what is true of    *)
(* the tree besides: what is in what, how deep, with which numbers, texts  *)
(* and metadata.                                                           *)
(***************************************************************************)
EXTENDS ParseTreeProofs, FiniteSetTheorems

-------------------------------------------------------------------------------
(***************************************************************************)
(* The beginning, up to the first pass.                                    *)
(***************************************************************************)
Keeps == [TNext]_tvars /\ PInv' /\ phase' # "aborted" /\ Bodywise

LEMMA ParseBegins == PInv /\ Lowdown_doc_parse => Keeps
<1> SUFFICES ASSUME PInv, Lowdown_doc_parse PROVE [TNext]_tvars /\ PInv' /\ phase' # "aborted" /\ Bodywise
  BY DEF Keeps
<1>1. /\ Pushroot /\ work' = <<<<Do("header")>>>> /\ in_link_body' = FALSE
      /\ in_footnote' = in_footnote
  BY DEF Lowdown_doc_parse
<1>2. /\ kids' = [n \in {Root} |-> <<>>] /\ lab' = [n \in {Root} |-> Node("ROOT")]
      /\ held' = <<Root>> /\ phase' = "parsing"
  BY <1>1 DEF Pushroot
<1>3. IInv'
  BY <1>1, NextInv DEF PInv, TNext
<1>4. Heading'
  BY <1>1, <1>2 DEF Heading, Do
<1>5. Labelled'
  <2>1. \A n \in DOMAIN lab' : Fields \subseteq DOMAIN lab'[n]
    BY <1>2, NodeIs
  <2> QED
    BY <2>1 DEF Labelled, Fields
<1>6. Bodywise
  <2>1. \A n \in DOMAIN lab' : lab'[n].type \notin Bodies
    BY <1>2, NodeIs DEF Bodies
  <2>2. foots' = 0 /\ used' = {}
    BY DEF Lowdown_doc_parse
  <2> QED
    BY <2>1, <2>2 DEF Bodywise, Reset
<1> QED
  BY <1>1, <1>2, <1>3, <1>4, <1>5, <1>6 DEF PInv, Inside_is, TNext

\* A step after which the header is still made.
LEMMA AddingKept ==
  ASSUME PInv, phase = "parsing", TNext, Labelled', UNCHANGED marks, phase' = "parsing", ~in_link_body,
         NEW g, g.do = "gather",
         NEW entries, work' = <<<<g>>, Entries(entries)>>,
         Len(held') = 2, lab'[current'].type = "DOC_HEADER",
         \A k \in DOMAIN kids'[current'] : lab'[kids'[current'][k]].type = "META"
  PROVE  PInv' /\ Adding'
<1>1. IInv'
  BY NextInv DEF PInv
<1>2. \/ work' = <<<<g>>, <<>>>>
      \/ \E x : x.do = "add_metadata" /\ work' = <<<<g>>, <<x>>>>
  <2> DEFINE x == [do |-> "add_metadata", entries |-> entries]
  <2>1. x.do = "add_metadata"
    OBVIOUS
  <2>2. Entries(entries) = <<>> \/ Entries(entries) = <<x>>
    BY DEF Entries
  <2> HIDE DEF x
  <2> QED
    BY <2>1, <2>2
<1>3. \E f : /\ f.do = "gather"
             /\ \/ work' = <<<<f>>, <<>>>>
                \/ \E x : x.do = "add_metadata" /\ work' = <<<<f>>, <<x>>>>
  BY <1>2
<1>4. Adding'
  BY <1>3 DEF Adding, inside, marks, queues
<1>5. Inside_is'
  BY DEF PInv, Inside_is, inside, marks, queues
<1> QED
  BY <1>1, <1>4, <1>5 DEF PInv

LEMMA FailsKeeps ==
  ASSUME PInv, NEW why, Fails(why)
  PROVE  [TNext]_tvars /\ PInv' /\ phase' # "aborted" /\ Bodywise
<1>1. Good /\ phase = "parsing"
  BY FailsGood DEF Fails, Failed
<1> QED
  BY <1>1, GoodKeeps DEF Good

\* Instead as a function: the last list of the items changes.
LEMMA InsteadIs ==
  ASSUME NEW items
  PROVE  Instead(items) = [i \in DOMAIN work |-> IF i = Len(work) THEN items \o Tail(work[i]) ELSE work[i]]
  BY DEF Instead

LEMMA PairIs == ASSUME NEW a, NEW b PROVE Append(<<a>>, b) = <<a, b>>
<1> DEFINE s == <<a>>
           r == Append(s, b)
<1>1. s \in Seq({a, b}) /\ Len(s) = 1 /\ s[1] = a
  OBVIOUS
<1> HIDE DEF s
<1>2. r \in Seq({a, b}) /\ Len(r) = 2 /\ r[1] = a /\ r[2] = b
  <2>1. s \in Seq({a}) /\ {a} \subseteq {a, b} /\ b \in {a, b}
    BY <1>1 DEF s
  <2>2. /\ Append(s, b) \in Seq({a, b}) /\ Len(Append(s, b)) = Len(s) + 1
        /\ \A i \in 1 .. Len(s) : Append(s, b)[i] = s[i]
        /\ Append(s, b)[Len(s) + 1] = b
    BY <2>1, Appended
  <2> QED
    BY <1>1, <2>2
<1> HIDE DEF r
<1>3. r = [i \in 1 .. 2 |-> IF i = 1 THEN a ELSE b]
  BY <1>2
<1>4. <<a, b>> = [i \in 1 .. 2 |-> IF i = 1 THEN a ELSE b]
  OBVIOUS
<1>5. r = <<a, b>>
  BY <1>3, <1>4
<1> QED
  BY <1>5 DEF r, s

\* The header, which nothing is in yet, is the first node below the root.
Header_put ==
  /\ current = Root /\ NewNode(lab, Root, Node("DOC_HEADER")) /\ current' = nodes
  /\ metaq' = metaq /\ Adding'

LEMMA HeaderBegins == PInv /\ Doc_header => Keeps /\ Heading /\ (phase' = "failed" \/ Header_put)
<1> SUFFICES ASSUME PInv, Doc_header
             PROVE  /\ [TNext]_tvars /\ PInv' /\ phase' # "aborted" /\ Bodywise /\ Heading
                    /\ phase' = "failed" \/ Header_put
  BY DEF Keeps
<1>1. /\ phase = "parsing" /\ work # <<>> /\ work[Len(work)] # <<>>
      /\ work[Len(work)][1].do = "header"
  BY ItemIs DEF Doc_header
<1>2. Heading
  <2>1. ~Adding
    <3>1. ASSUME NEW g, work = <<<<g>>, <<>>>> PROVE FALSE
      BY <1>1, <3>1
    <3>2. ASSUME NEW g, NEW x, x.do = "add_metadata", work = <<<<g>>, <<x>>>> PROVE FALSE
      BY <1>1, <3>2
    <3> QED
      BY <3>1, <3>2 DEF Adding
  <2>2. ~Working
    <3> SUFFICES ASSUME Working PROVE FALSE
      OBVIOUS
    <3> DEFINE n == Len(work)
    <3>1. PICK S : work \in Seq(Seq(S))
      BY DEF Working, Ordered
    <3>2. n \in 1 .. n /\ work[n] \in Seq(S)
      BY <1>1, <3>1, EmptySeq, LenProperties, ElementOfSeq
    <3>3. 1 \in 1 .. Len(work[n])
      BY <1>1, <3>2, EmptySeq, LenProperties
    <3>4. Doing(work, n, 1, Text_last)
      BY <3>2, <3>3 DEF Working, Ordered
    <3> QED
      BY <1>1, <3>4 DEF Doing
  <2> QED
    BY <1>1, <2>1, <2>2 DEF PInv
<1>3. PICK entries, rest :
        Open(Node("DOC_HEADER"), Entries(entries), <<[do |-> "gather", ls |-> rest, text |-> <<>>]>>)
  BY Zenon DEF Doc_header
<1> DEFINE g == [do |-> "gather", ls |-> rest, text |-> <<>>]
           h == Do("header")
           l == Node("DOC_HEADER")
<1>4. g.do = "gather"
  OBVIOUS
<1>5. l.type = "DOC_HEADER" /\ Fields \subseteq DOMAIN l
  BY NodeIs
<1>6. Open_in(lab, l, Entries(entries), <<g>>)
  BY <1>3 DEF Open
<1>7. work = <<<<h>>>>
  BY <1>2 DEF Heading
<1> HIDE DEF g, l, h
<1>8. CASE TooDeep(depth)
  BY <1>2, <1>6, <1>8, FailsKeeps DEF Open_in, Fails, Failed
<1>9. CASE ~TooDeep(depth)
  <2>0. metaq' = metaq
    BY <1>6, <1>9 DEF Open_in, queues
  <2>1. /\ Pushnode(lab, l) /\ work' = Append(Instead(<<g>>), Entries(entries))
        /\ UNCHANGED marks
    BY <1>6, <1>9 DEF Open_in, Opens, inside, marks, queues
  <2>2. /\ NewNode(lab, current, l)
        /\ current' = nodes /\ depth' = depth + 1 /\ held' = Append(held, nodes)
        /\ UNCHANGED <<maxdepth, phase>>
    BY <2>1 DEF Pushnode
  <2>3. NewLast /\ lab'[nodes] = l
    BY <1>1, <1>5, <2>2, NewIs, LabelsAsTheyAre
  <2>4. /\ held = <<Root>> /\ kids[Root] = <<>> /\ ~in_link_body
    BY <1>2 DEF Heading
  <2>5. current = Root
    BY <1>1, <2>4 DEF PInv, IInv, StackIsPath
  <2>6. Push
    <3>1. Pushnode(lab', lab'[nodes])
      BY <1>1, <1>9, <2>2, <2>3 DEF Pushnode, NewLast
    <3> QED
      BY <1>5, <2>3, <2>4, <2>5, <3>1 DEF Push, NewLast, Leaves
  <2>7. work' = <<<<g>>, Entries(entries)>>
    <3> DEFINE e == Entries(entries)
               s == <<h>>
               w == <<s>>
    <3>1. Instead(<<g>>) = <<<<g>>>>
      <4>1. Len(w) = 1 /\ DOMAIN w = {1} /\ w[1] = s /\ work = w
        BY <1>7
      <4>2. Tail(s) = <<>> /\ <<g>> \o <<>> = <<g>>
        OBVIOUS
      <4> HIDE DEF s, w
      <4>3. Instead(<<g>>) = [i \in {1} |-> <<g>> \o Tail(s)]
        BY <4>1, InsteadIs
      <4>4. <<<<g>>>> = [i \in {1} |-> <<g>>]
        OBVIOUS
      <4> QED
        BY <4>2, <4>3, <4>4
    <3>2. work' = Append(Instead(<<g>>), e)
      BY <2>1 DEF e
    <3> HIDE DEF e
    <3>3. Append(<<<<g>>>>, e) = <<<<g>>, e>>
      BY PairIs
    <3>4. work' = <<<<g>>, e>>
      BY <3>1, <3>2, <3>3
    <3> QED
      BY <3>4 DEF e
  <2>8. Len(held') = 2
    BY <2>2, <2>4
  <2>9. kids'[nodes] = <<>>
    BY <2>2 DEF NewNode
  <2>10. \A k \in DOMAIN kids'[current'] : lab'[kids'[current'][k]].type = "META"
    BY <2>2, <2>9
  <2>11. TNext /\ Labelled' /\ phase' = "parsing" /\ lab'[current'].type = "DOC_HEADER"
    BY <1>1, <1>5, <2>2, <2>3, <2>6 DEF TNext, NewLast
  <2>12. Bodywise
    <3>1. /\ UNCHANGED <<used, foots>> /\ lab'[nodes].type \notin Bodies
          /\ DOMAIN lab' = DOMAIN lab \cup {nodes}
          /\ \A n \in DOMAIN lab : lab'[n].type = lab[n].type /\ lab'[n].num = lab[n].num
      BY <1>5, <2>1, <2>3 DEF marks, Bodies, NewLast, Sametypes
    <3> QED
      BY <1>1, <3>1, SteadyIf
  <2>13. PInv' /\ Adding'
    BY <1>1, <1>4, <2>1, <2>4, <2>7, <2>8, <2>10, <2>11, AddingKept
  <2>14. Header_put
    BY <2>0, <2>2, <2>5, <2>13 DEF Header_put, l
  <2> QED
    BY <1>2, <2>11, <2>12, <2>13, <2>14
<1> QED
  BY <1>8, <1>9

\* A metadata node is put below the header.
LEMMA PutmetaKeeps ==
  ASSUME PInv, phase = "parsing", lab[current].type = "DOC_HEADER",
         \A j \in DOMAIN kids[current] : lab[kids[current][j]].type = "META",
         NEW k, NEW l, NEW text, l.type = "META", Fields \subseteq DOMAIN l, Putmeta(k, l, text)
  PROVE  /\ TNext /\ Labelled' /\ phase' = "parsing" /\ held' = held
         /\ lab'[current'].type = "DOC_HEADER"
         /\ \A j \in DOMAIN kids'[current'] : lab'[kids'[current'][j]].type = "META"
         /\ \A n \in DOMAIN lab : lab[n].type \notin Bodies \/ (n \in DOMAIN lab' /\ lab'[n] = lab[n])
         /\ \A n \in DOMAIN lab' : lab'[n].type \notin Bodies \/ (n \in DOMAIN lab /\ lab'[n] = lab[n])
<1> DEFINE K == DOMAIN lab
           c == current
           cs == kids[c]
           old == IF k = 0 THEN {} ELSE {cs[k]}
           gone == old \cup UNION {{kids[o][j] : j \in DOMAIN kids[o]} : o \in old}
           kept == K \ gone
           new == Metadata_ids(l, text)
           left == IF k = 0 THEN cs
                   ELSE [j \in 1 .. Len(cs) - 1 |-> cs[IF j < k THEN j ELSE j + 1]]
           t == Text({}, text)
<1>1. /\ k \in 0 .. Len(cs)
      /\ kids' = [n \in kept \cup new |-> IF n = c THEN Append(left, nodes)
                                         ELSE IF n \in kept THEN kids[n]
                                         ELSE IF n = nodes /\ text # <<>> THEN <<nodes + 1>> ELSE <<>>]
      /\ lab' = [n \in kept \cup new |-> IF n \in kept THEN lab[n] ELSE IF n = nodes THEN l ELSE t]
      /\ nodes' = nodes + (IF text = <<>> THEN 1 ELSE 2)
      /\ UNCHANGED <<current, depth, held, maxdepth, phase>>
  BY DEF Putmeta
<1>2. /\ DOMAIN kids = K /\ c \in K /\ cs \in Seq(K) /\ nodes \in Nat
      /\ nodes \notin K /\ nodes + 1 \notin K
  BY Facts, HeldNodes DEF PInv, IInv, TTypeOK
<1>3. /\ new \subseteq {nodes, nodes + 1} /\ nodes \in new
      /\ text # <<>> => nodes + 1 \in new
  BY DEF Metadata_ids
<1>4. t.text = text /\ Fields \subseteq DOMAIN t /\ t.type = "NORMAL_TEXT"
  BY DEF Text, Label, Fields
<1>16. ASSUME NEW n \in gone PROVE n \in K => lab[n].type \notin Bodies
  <2>1. \A o \in old : lab[o].type = "META" /\ o \in K
    <3>1. k # 0 => k \in DOMAIN cs
      BY <1>1, <1>2, LenProperties
    <3>2. k # 0 => cs[k] \in K
      BY <1>2, <3>1, LenProperties, ElementOfSeq
    <3> QED
      BY <3>1, <3>2
  <2>2. \A o \in old : \A j \in DOMAIN kids[o] : lab[kids[o][j]].type = "NORMAL_TEXT"
    BY <1>2, <2>1 DEF PInv, IInv, TreeWhole, LeavesBare
  <2> QED
    BY <1>16, <2>1, <2>2 DEF Bodies
<1> HIDE DEF gone, old, left, t, new
<1>5. /\ DOMAIN lab' = kept \cup new /\ lab'[nodes] = l
      /\ \A n \in kept : lab'[n] = lab[n]
      /\ \A n \in new : lab'[n] \in {l, t}
      /\ text # <<>> => lab'[nodes + 1] = t
  BY <1>1, <1>2, <1>3
<1>6. text = (IF nodes' = nodes + 2 THEN lab'[nodes + 1].text ELSE <<>>)
  BY <1>1, <1>2, <1>4, <1>5
<1>7. Meta
  <2>1. Putmeta(k, lab'[nodes], IF nodes' = nodes + 2 THEN lab'[nodes + 1].text ELSE <<>>)
    BY <1>5, <1>6
  <2>2. nodes \in DOMAIN lab'
    BY <1>3, <1>5
  <2> QED
    BY <1>1, <2>1, <2>2 DEF Meta
<1>8. TNext
  BY <1>7 DEF TNext
<1>9. IInv'
  BY <1>8, NextInv DEF PInv
<1>10. Labelled'
  <2>1. \A n \in DOMAIN lab' : Fields \subseteq DOMAIN lab'[n]
    BY <1>4, <1>5 DEF PInv, Labelled
  <2> QED
    BY <2>1 DEF Labelled, Fields
<1>11. c \in kept
  <2>1. current' \in DOMAIN kids' /\ DOMAIN lab' = DOMAIN kids'
    <3>1. /\ held' # <<>> /\ current' = held'[Len(held')] /\ held' \in Seq(DOMAIN kids')
          /\ DOMAIN lab' = DOMAIN kids'
      BY <1>1, <1>9 DEF IInv, StackIsPath, TTypeOK
    <3>2. Len(held') \in 1 .. Len(held')
      BY <3>1, EmptySeq, LenProperties
    <3> QED
      BY <3>1, <3>2, ElementOfSeq
  <2> QED
    BY <1>1, <1>2, <1>3, <1>5, <2>1
<1>12. /\ left \in Seq(K) /\ \A j \in 1 .. Len(left) : \E i \in DOMAIN cs : left[j] = cs[i]
  <2>1. CASE k = 0
    <3>1. left = cs /\ DOMAIN cs = 1 .. Len(cs)
      BY <1>2, <2>1, LenProperties DEF left
    <3> QED
      BY <1>2, <3>1
  <2>2. CASE k # 0
    <3>1. k \in 1 .. Len(cs) /\ left = Without(cs, k)
      BY <1>1, <1>2, <2>2, LenProperties DEF left, Without
    <3>2. Without(cs, k) \in Seq(K) /\ \A j \in DOMAIN Without(cs, k) : \E i \in DOMAIN cs : Without(cs, k)[j] = cs[i]
      BY <1>2, <3>1, Dropped
    <3>3. DOMAIN left = 1 .. Len(left)
      BY <3>1, <3>2, LenProperties
    <3> QED
      BY <3>1, <3>2, <3>3
  <2> QED
    BY <2>1, <2>2
<1>13. kids'[c] = Append(left, nodes)
  BY <1>1, <1>11
<1>14. /\ DOMAIN kids'[c] = 1 .. Len(left) + 1 /\ Len(left) \in Nat
       /\ \A j \in 1 .. Len(left) : kids'[c][j] = left[j]
       /\ kids'[c][Len(left) + 1] = nodes
  <2>1. left \in Seq(K \cup {nodes}) /\ Len(left) \in Nat
    BY <1>12, SeqMonotonic, LenProperties
  <2> QED
    BY <1>12, <1>13, <2>1, Appended
<1>15. ASSUME NEW j \in DOMAIN kids'[c] PROVE lab'[kids'[c][j]].type = "META"
  <2>1. CASE j = Len(left) + 1
    BY <1>5, <1>14, <2>1
  <2>2. CASE j \in 1 .. Len(left)
    <3>1. PICK i \in DOMAIN cs : kids'[c][j] = cs[i]
      BY <1>12, <1>14, <2>2
    <3>2. lab[cs[i]].type = "META" /\ cs[i] \in K
      BY <1>2, <3>1, LenProperties, ElementOfSeq
    <3>3. kids'[c][j] \in DOMAIN lab'
      <4>1. kids'[c] \in Seq(DOMAIN kids') /\ DOMAIN lab' = DOMAIN kids'
        BY <1>1, <1>5, <1>9, <1>11 DEF IInv, TTypeOK
      <4> QED
        BY <1>15, <4>1, LenProperties, ElementOfSeq
    <3> QED
      BY <1>2, <1>3, <1>5, <3>1, <3>2, <3>3
  <2> QED
    BY <1>14, <2>1, <2>2
<1>17. /\ \A n \in K : lab[n].type \notin Bodies \/ (n \in DOMAIN lab' /\ lab'[n] = lab[n])
       /\ \A n \in DOMAIN lab' : lab'[n].type \notin Bodies \/ (n \in K /\ lab'[n] = lab[n])
  BY <1>4, <1>5, <1>16 DEF Bodies
<1>18. phase' = "parsing" /\ held' = held /\ current' = c
  BY <1>1
<1>19. lab'[c] = lab[c]
  BY <1>5, <1>11
<1>20. \A j \in DOMAIN kids'[current'] : lab'[kids'[current'][j]].type = "META"
  BY <1>15, <1>18
<1>21. lab'[current'].type = "DOC_HEADER"
  BY <1>18, <1>19
<1> QED
  BY <1>8, <1>10, <1>17, <1>18, <1>20, <1>21

LEMMA MetadataAdded == PInv /\ Add_metadata => Keeps /\ Adding /\ (phase' = "failed" \/ Adding')
<1> SUFFICES ASSUME PInv, Add_metadata
             PROVE  /\ [TNext]_tvars /\ PInv' /\ phase' # "aborted" /\ Bodywise /\ Adding
                    /\ phase' = "failed" \/ Adding'
  BY DEF Keeps
<1>1. /\ phase = "parsing" /\ work # <<>> /\ work[Len(work)] # <<>>
      /\ work[Len(work)][1].do = "add_metadata"
  BY ItemIs DEF Add_metadata
<1>2. Adding
  <2>1. ~Heading
    BY <1>1 DEF Heading, Do
  <2>2. ~Working
    <3> SUFFICES ASSUME Working PROVE FALSE
      OBVIOUS
    <3> DEFINE n == Len(work)
    <3>1. PICK S : work \in Seq(Seq(S))
      BY DEF Working, Ordered
    <3>2. n \in 1 .. n /\ work[n] \in Seq(S)
      BY <1>1, <3>1, EmptySeq, LenProperties, ElementOfSeq
    <3>3. 1 \in 1 .. Len(work[n])
      BY <1>1, <3>2, EmptySeq, LenProperties
    <3>4. Doing(work, n, 1, Text_last)
      BY <3>2, <3>3 DEF Working, Ordered
    <3> QED
      BY <1>1, <3>4 DEF Doing
  <2> QED
    BY <1>1, <2>1, <2>2 DEF PInv
<1>3. PICK g, x : g.do = "gather" /\ x.do = "add_metadata" /\ work = <<<<g>>, <<x>>>>
  <2>1. ASSUME NEW g, work = <<<<g>>, <<>>>> PROVE FALSE
    BY <1>1, <2>1
  <2> QED
    BY <1>2, <2>1 DEF Adding
<1>4. /\ Len(held) = 2 /\ lab[current].type = "DOC_HEADER" /\ ~in_link_body
      /\ \A k \in DOMAIN kids[current] : lab[kids[current][k]].type = "META"
  BY <1>2 DEF Adding
<1>5. PICK k, key, text, entries, why :
        \/ Fails(why)
        \/ /\ Putmeta(k, Label("META", key, {}, 0, <<>>), text)
           /\ Go(Entries(entries)) /\ UNCHANGED marks
  BY <1>4, Zenon DEF Add_metadata, Asserting, inside, marks
<1>6. CASE Fails(why)
  BY <1>2, <1>6, FailsKeeps DEF Fails, Failed
<1>7. CASE /\ Putmeta(k, Label("META", key, {}, 0, <<>>), text)
           /\ Go(Entries(entries)) /\ UNCHANGED marks
  <2> DEFINE l == Label("META", key, {}, 0, <<>>)
  <2>1. l.type = "META" /\ Fields \subseteq DOMAIN l
    BY LabelIs
  <2>2. Putmeta(k, l, text)
    BY <1>7
  <2> HIDE DEF l
  <2>3. /\ TNext /\ Labelled' /\ phase' = "parsing" /\ held' = held
        /\ lab'[current'].type = "DOC_HEADER"
        /\ \A j \in DOMAIN kids'[current'] : lab'[kids'[current'][j]].type = "META"
        /\ \A n \in DOMAIN lab : lab[n].type \notin Bodies \/ (n \in DOMAIN lab' /\ lab'[n] = lab[n])
        /\ \A n \in DOMAIN lab' : lab'[n].type \notin Bodies \/ (n \in DOMAIN lab /\ lab'[n] = lab[n])
    BY <1>1, <1>4, <2>1, <2>2, PutmetaKeeps
  <2>4. work' = <<<<g>>, Entries(entries)>>
    <3> DEFINE e == Entries(entries)
               a == <<g>>
               s == <<x>>
               w == <<a, s>>
    <3>0. PICK S : e \in Seq(S)
      <4> DEFINE y == [do |-> "add_metadata", entries |-> entries]
      <4>1. e = <<>> \/ e = <<y>>
        BY DEF Entries
      <4> HIDE DEF y, e
      <4>2. <<y>> \in Seq({y}) /\ <<>> \in Seq({y})
        BY EmptySeq
      <4> QED
        BY <4>1, <4>2
    <3>1. Tail(s) = <<>>
      OBVIOUS
    <3>2. e \o <<>> = e
      BY <3>0
    <3>3. Len(w) = 2 /\ DOMAIN w = {1, 2} /\ w[1] = a /\ w[2] = s
      OBVIOUS
    <3>6. work = w /\ work' = Instead(e)
      BY <1>3, <1>7 DEF Go
    <3> HIDE DEF a, s, e, w
    <3>4. work' = [i \in {1, 2} |-> IF i = 2 THEN e \o Tail(s) ELSE w[i]]
      BY <3>3, <3>6, InsteadIs
    <3>5. work' = <<a, e>>
      <4>1. work' = [i \in {1, 2} |-> IF i = 2 THEN e ELSE a]
        BY <3>1, <3>2, <3>3, <3>4
      <4>2. <<a, e>> = [i \in {1, 2} |-> IF i = 2 THEN e ELSE a]
        OBVIOUS
      <4> QED
        BY <4>1, <4>2
    <3> QED
      BY <3>5 DEF a, e
  <2>5. Bodywise
    <3>1. UNCHANGED <<used, foots>>
      BY <1>7 DEF marks
    <3> QED
      BY <1>1, <2>3, <3>1, SteadyIf
  <2>6. PInv' /\ Adding'
    BY <1>1, <1>3, <1>4, <1>7, <2>3, <2>4, AddingKept
  <2> QED
    BY <1>2, <2>3, <2>5, <2>6
<1> QED
  BY <1>5, <1>6, <1>7

-------------------------------------------------------------------------------
(***************************************************************************)
(* Every step of the parser.                                               *)
(***************************************************************************)
LEMMA InitPInv == Init => PInv
<1> SUFFICES ASSUME Init PROVE PInv
  OBVIOUS
<1>1. TInit /\ in_link_body = FALSE /\ in_footnote = FALSE
  BY DEF Init
<1>2. Labelled
  BY <1>1 DEF TInit, Labelled, Nothing
<1> QED
  BY <1>1, <1>2, InitInv DEF PInv, Inside_is, TInit

LEMMA StuttersKeep == PInv /\ UNCHANGED vars => PInv'
<1> SUFFICES ASSUME PInv, UNCHANGED vars PROVE PInv'
  OBVIOUS
<1>1. UNCHANGED tvars /\ UNCHANGED <<work, in_link_body, in_footnote>>
  BY DEF vars, pvars
<1>2. IInv'
  BY <1>1, NextInv DEF PInv
<1>3. UNCHANGED <<kids, par, lab, nodes, current, depth, held, maxdepth, phase>>
  BY <1>1 DEF tvars
<1>4. Labelled' /\ Inside_is'
  BY <1>1, <1>3 DEF PInv, Labelled, Inside_is, Fields
<1>5. Heading => Heading'
  BY <1>1, <1>3 DEF Heading, Do
<1>6. Adding => Adding'
  BY <1>1, <1>3 DEF Adding
<1>7. Working => Working'
  BY <1>1, <1>3 DEF Working, Ordered, Closed, Doing, Closes, Formed, Text_last, Last_child
<1> QED
  BY <1>2, <1>3, <1>4, <1>5, <1>6, <1>7 DEF PInv

LEMMA NextPInv ==
  PInv /\ [Next]_vars =>
    [TNext]_tvars /\ PInv' /\ (phase' = "aborted" => phase = "aborted") /\ Bodywise
<1> SUFFICES ASSUME PInv, [Next]_vars
             PROVE  /\ [TNext]_tvars /\ PInv' /\ (phase' = "aborted" => phase = "aborted")
                    /\ Bodywise
  OBVIOUS
<1>1. ASSUME Good
      PROVE  [TNext]_tvars /\ PInv' /\ (phase' = "aborted" => phase = "aborted") /\ Bodywise
  BY <1>1, GoodKeeps DEF Good
<1>2. CASE Begin
  BY <1>2, ParseBegins, HeaderBegins, MetadataAdded DEF Begin, Keeps
<1>3. CASE Gather_next
  BY <1>1, <1>3, GatherGood
<1>4. CASE Block_next
  BY <1>1, <1>4, BlockGood
<1>5. CASE List_next
  BY <1>1, <1>5, ListsGood
<1>6. CASE Table_next
  BY <1>1, <1>6, TablesGood
<1>7. CASE Inline_next
  BY <1>1, <1>7, InlinesGood
<1>8. CASE Span_next
  BY <1>1, <1>8, SpansGood
<1>9. CASE Link_next
  BY <1>1, <1>9, LinksGood
<1>10. CASE Pop
  BY <1>1, <1>10, PopGood
<1>11. CASE Out_of_memory
  BY <1>1, <1>11, FailsGood DEF Out_of_memory
<1>12. CASE UNCHANGED vars
  BY <1>12, StuttersKeep DEF vars, tvars, pvars, Bodywise
<1> QED
  BY <1>2, <1>3, <1>4, <1>5, <1>6, <1>7, <1>8, <1>9, <1>10, <1>11, <1>12 DEF Next, Step, Rest

(***************************************************************************)
(* What is left to do is, at every level of nesting, as it is described    *)
(* above: what ends the body of a link or a footnote is last where the     *)
(* node held is one, and nowhere else.                                     *)
(***************************************************************************)
LEMMA WorkInvariant == Spec => []PInv
<1>1. PInv /\ [Next]_vars => PInv'
  BY NextPInv
<1> QED
  BY <1>1, InitPInv, PTL DEF Spec

(***************************************************************************)
(* The parser implements ParseTree: whatever the document, whatever of the *)
(* syntax is recognised and however deep it nests, each of its functions   *)
(* changes the tree by one of the steps of the tree, or not at all         *)
(* (document.c:169-287, 560-613, 3140-3250, 4470-4620).                    *)
(***************************************************************************)
THEOREM Implements == Spec => TSpec
<1>1. Init => TInit
  BY DEF Init
<1>2. PInv /\ [Next]_vars => [TNext]_tvars
  BY NextPInv
<1> QED
  BY <1>1, <1>2, WorkInvariant, PTL DEF Spec, TSpec

(***************************************************************************)
(* None of the parser's assertions fails, for any document: popnode() is   *)
(* always given the node that is current, and leaves none at the end; what *)
(* a line break takes spaces from is text; entries of the metadata go to   *)
(* the header, below which is nothing else; in_footnote is clear when a    *)
(* footnote begins and set when it ends (document.c:283, 1089, 1644, 4534, *)
(* 5163).                                                                  *)
(***************************************************************************)
THEOREM NeverAborts == Spec => []NoAbort
<1>1. Init => NoAbort
  BY DEF Init, TInit, NoAbort
<1>2. PInv /\ NoAbort /\ [Next]_vars => NoAbort'
  BY NextPInv DEF NoAbort
<1> QED
  BY <1>1, <1>2, WorkInvariant, PTL DEF Spec

(***************************************************************************)
(* So the parser has what is proved of ParseTree: its variables have their *)
(* types, the nodes in progress are the path to the current node, and what *)
(* it builds is a tree.                                                    *)
(***************************************************************************)
THEOREM ParserTyped == Spec => []TTypeOK
  BY Implements, TypeCorrect, PTL

\* Popping goes up the path of the nodes in progress, from any document (document.c:271-288).
THEOREM ParserPath == Spec => []StackIsPath
  BY Implements, PathHeld, PTL

\* Whatever it is given, the parser builds one tree (document.c:169-287, 3217-3232).
THEOREM ParserTree == Spec => []TreeWhole
  BY Implements, AlwaysTree, PTL

\* The flags of the parser say where it is.
LEMMA FlagsHold == PInv => LinkFlag /\ FootnoteFlag
<1> SUFFICES ASSUME PInv, phase = "parsing"
             PROVE  /\ in_link_body <=> Within("LINK")
                    /\ Within("FOOTNOTE") => in_footnote
  BY DEF LinkFlag, FootnoteFlag
<1>1. /\ held \in Seq(DOMAIN kids) /\ held # <<>> /\ held[1] = Root /\ current = held[Len(held)]
      /\ lab[Root].type = "ROOT"
  BY DEF PInv, IInv, TTypeOK, StackIsPath, TreeWhole, Whole
<1>2. DOMAIN held = 1 .. Len(held)
  BY <1>1, LenProperties
<1>3. CASE Heading
  <2>1. ~in_link_body /\ Len(held) = 1
    BY <1>3 DEF Heading
  <2>2. \A k \in DOMAIN held : lab[held[k]].type = "ROOT"
    BY <1>1, <1>2, <2>1
  <2> QED
    BY <2>1, <2>2 DEF Within
<1>4. CASE Adding
  <2>1. ~in_link_body /\ Len(held) = 2 /\ lab[current].type = "DOC_HEADER"
    BY <1>4 DEF Adding
  <2>2. \A k \in DOMAIN held : lab[held[k]].type \in {"ROOT", "DOC_HEADER"}
    BY <1>1, <1>2, <2>1
  <2> QED
    BY <2>1, <2>2 DEF Within
<1>5. CASE Working
  <2>1. /\ Closed(work, held, lab, "link_end", "LINK") /\ Closed(work, held, lab, "foot_end", "FOOTNOTE")
        /\ in_link_body <=> \E i \in 1 .. Len(work) : Closes(work[i], "link_end")
        /\ (\E i \in 1 .. Len(work) : Closes(work[i], "foot_end")) => in_footnote
        /\ DOMAIN held = 1 .. Len(work)
    BY <1>2, <1>5 DEF Working, Ordered
  <2> QED
    BY <2>1 DEF Within, Closed
<1> QED
  BY <1>3, <1>4, <1>5 DEF PInv

\* in_link_body is set while and only while something of the body of a link is
\* left to do, however links, images and footnotes nest (document.c:1545, 1585).
THEOREM LinkFlagRight == Spec => []LinkFlag
  BY FlagsHold, WorkInvariant, PTL

\* in_footnote is set while anything of a footnote is left (document.c:1630-1652).
THEOREM FootnoteFlagRight == Spec => []FootnoteFlag
  BY FlagsHold, WorkInvariant, PTL
-------------------------------------------------------------------------------
(***************************************************************************)
(* Links and footnotes are not nested, and footnotes are numbered.         *)
(***************************************************************************)
LEMMA BodywiseApart ==
  ASSUME Bodywise, NEW type \in Bodies
  PROVE  Apart(type)
<1> SUFFICES ASSUME NEW n \in DOMAIN lab' \ DOMAIN lab, lab'[n].type = type
             PROVE  \A k \in DOMAIN held : lab[held[k]].type # type
  BY DEF Apart
<1>1. lab' # Nothing
  BY DEF Nothing
<1>2. ~Steady
  BY DEF Steady, Same_bodies
<1>3. ~Reset
  BY DEF Reset
<1>4. ASSUME NEW t \in Bodies, Fresh(t) PROVE None_held(type)
  <2>1. n = nodes
    BY <1>4 DEF Fresh, Same_bodies
  <2> QED
    BY <1>4, <2>1 DEF Fresh
<1> QED
  BY <1>1, <1>2, <1>3, <1>4 DEF Bodywise, None_held

(***************************************************************************)
(* Going up from a node: what the recursive function of Ancestors is.      *)
(***************************************************************************)
LEMMA AncestorsAre ==
  ASSUME \A m \in DOMAIN par : par[m] # None => par[m] \in DOMAIN par
  PROVE  \E up : /\ up = [m \in DOMAIN par |-> IF par[m] = None THEN {} ELSE {par[m]} \cup up[par[m]]]
                 /\ \A n : Ancestors(n) = up[n]
<1> DEFINE F(g) == [m \in DOMAIN par |-> IF par[m] = None THEN {} ELSE {par[m]} \cup g[par[m]]]
           above == [m \in DOMAIN par |-> Above(m)]
           up == CHOOSE g : g = F(g)
<1>1. above = F(above)
  <2>1. \A m \in DOMAIN par :
          above[m] = IF par[m] = None THEN {} ELSE {par[m]} \cup above[par[m]]
    <3> SUFFICES ASSUME NEW m \in DOMAIN par
                 PROVE  above[m] = IF par[m] = None THEN {} ELSE {par[m]} \cup above[par[m]]
      OBVIOUS
    <3>1. above[m] = Above(m) /\ (par[m] # None => above[par[m]] = Above(par[m]))
      OBVIOUS
    <3>2. Above(m) = IF par[m] = None THEN {} ELSE {par[m]} \cup Above(par[m])
      BY AboveStep
    <3> QED
      BY <3>1, <3>2
  <2> QED
    BY <2>1
<1> HIDE DEF above
<1>2. up = F(up)
  BY <1>1
<1>3. \A n : Ancestors(n) = up[n]
  BY DEF Ancestors
<1> HIDE DEF up
<1> QED
  BY <1>2, <1>3

LEMMA NoAncestor ==
  ASSUME IInv, Whole, NEW type, Unnested(type), NEW n \in DOMAIN lab, lab[n].type = type,
         NEW m \in Ancestors(n)
  PROVE  lab[m].type # type
<1>1. DOMAIN par = DOMAIN lab /\ \A x \in DOMAIN par : par[x] # None => par[x] \in DOMAIN par
  BY DEF IInv, TTypeOK
<1>2. PICK up : /\ up = [x \in DOMAIN par |-> IF par[x] = None THEN {} ELSE {par[x]} \cup up[par[x]]]
                /\ \A x : Ancestors(x) = up[x]
  BY <1>1, AncestorsAre
<1>3. \A x \in DOMAIN lab : up[x] = IF par[x] = None THEN {} ELSE {par[x]} \cup up[par[x]]
  BY <1>1, <1>2
<1>4. m \in up[n]
  BY <1>2
<1> QED
  BY <1>3, <1>4, NoneNested

(***************************************************************************)
(* The footnotes are as many as there are numbers given and definitions    *)
(* used, and have the numbers from 1 on in the order in which they came.   *)
(***************************************************************************)
Notes == {n \in DOMAIN lab : lab[n].type = "FOOTNOTE"}

Numbering ==
  /\ foots \in Nat
  /\ IsFiniteSet(used) /\ Cardinality(used) = foots
  /\ IsFiniteSet(Notes) /\ Cardinality(Notes) = foots
  /\ {lab[n].num : n \in Notes} = 1 .. foots
  /\ \A m, n \in Notes : m < n => lab[m].num < lab[n].num

LEMMA NotesStay ==
  ASSUME Numbering, Kept_bodies, NEW new, Same_bodies(new), UNCHANGED <<used, foots>>,
         \A n \in new : n \in DOMAIN lab' => n \notin DOMAIN lab /\ lab'[n].type # "FOOTNOTE"
  PROVE  Numbering'
<1>1. Notes' = Notes /\ \A n \in Notes : lab'[n].num = lab[n].num
  <2>1. ASSUME NEW n \in Notes PROVE n \in Notes' /\ lab'[n].num = lab[n].num
    BY <2>1 DEF Notes, Kept_bodies, Bodies
  <2>2. ASSUME NEW n \in Notes' PROVE n \in Notes
    BY <2>2 DEF Notes, Same_bodies, Bodies
  <2> QED
    BY <2>1, <2>2
<1>2. /\ foots \in Nat
      /\ IsFiniteSet(used) /\ Cardinality(used) = foots
      /\ IsFiniteSet(Notes) /\ Cardinality(Notes) = foots
      /\ {lab[n].num : n \in Notes} = 1 .. foots
      /\ \A m, n \in Notes : m < n => lab[m].num < lab[n].num
  BY DEF Numbering
<1>3. {lab'[n].num : n \in Notes'} = {lab[n].num : n \in Notes}
  BY <1>1
<1>4. \A m, n \in Notes' : m < n => lab'[m].num < lab'[n].num
  BY <1>1, <1>2
<1>5. IsFiniteSet(Notes') /\ Cardinality(Notes') = foots' /\ {lab'[n].num : n \in Notes'} = 1 .. foots'
  BY <1>1, <1>2, <1>3
<1>6. foots' \in Nat /\ IsFiniteSet(used') /\ Cardinality(used') = foots'
  BY <1>2
<1> QED
  BY <1>4, <1>5, <1>6 DEF Numbering

LEMMA NotesGrow ==
  ASSUME IInv, Numbering, Fresh("FOOTNOTE")
  PROVE  Numbering'
<1>1. /\ Kept_bodies /\ Same_bodies({nodes}) /\ nodes \in DOMAIN lab' \ DOMAIN lab
      /\ lab'[nodes].type = "FOOTNOTE" /\ lab'[nodes].num = foots + 1 /\ foots' = foots + 1
  BY DEF Fresh, Numbered
<1>2. PICK x : x \notin used /\ used' = used \cup {x}
  BY DEF Fresh, Numbered
<1>3. /\ foots \in Nat
      /\ IsFiniteSet(used) /\ Cardinality(used) = foots
      /\ IsFiniteSet(Notes) /\ Cardinality(Notes) = foots
      /\ {lab[n].num : n \in Notes} = 1 .. foots
      /\ \A m, n \in Notes : m < n => lab[m].num < lab[n].num
  BY DEF Numbering
<1>4. nodes \in Nat /\ DOMAIN lab \subseteq 0 .. nodes - 1
  BY DEF IInv, TTypeOK
<1>5. Notes' = Notes \cup {nodes} /\ nodes \notin Notes
      /\ \A n \in Notes : lab'[n].num = lab[n].num
  <2>1. ASSUME NEW n \in Notes PROVE n \in Notes' /\ lab'[n].num = lab[n].num
    BY <1>1, <2>1 DEF Notes, Kept_bodies, Bodies
  <2>2. ASSUME NEW n \in Notes', n # nodes PROVE n \in Notes
    BY <1>1, <2>2 DEF Notes, Same_bodies, Bodies
  <2>3. nodes \in Notes' /\ nodes \notin Notes
    BY <1>1 DEF Notes
  <2> QED
    BY <2>1, <2>2, <2>3
<1>6. IsFiniteSet(used') /\ Cardinality(used') = foots'
  BY <1>1, <1>2, <1>3, FS_AddElement
<1>7. IsFiniteSet(Notes') /\ Cardinality(Notes') = foots'
  BY <1>1, <1>3, <1>5, FS_AddElement
<1>8. \A n \in Notes : lab[n].num \in 1 .. foots
  BY <1>3
<1>9. {lab'[n].num : n \in Notes'} = 1 .. foots'
  <2>1. {lab'[n].num : n \in Notes'} = {lab[n].num : n \in Notes} \cup {foots + 1}
    BY <1>1, <1>5
  <2> QED
    BY <1>1, <1>3, <2>1
<1>10. ASSUME NEW m \in Notes', NEW n \in Notes', m < n PROVE lab'[m].num < lab'[n].num
  <2>1. \A k \in Notes : k \in 0 .. nodes - 1
    BY <1>4 DEF Notes
  <2>2. m \in Notes
    BY <1>4, <1>5, <1>10, <2>1
  <2>3. CASE n = nodes
    BY <1>1, <1>3, <1>5, <1>8, <2>2, <2>3
  <2>4. CASE n \in Notes
    BY <1>3, <1>5, <1>10, <2>2, <2>4
  <2> QED
    BY <1>5, <2>3, <2>4
<1>11. foots' \in Nat
  BY <1>1, <1>3
<1> QED
  BY <1>6, <1>7, <1>9, <1>10, <1>11 DEF Numbering

LEMMA NumberingNext ==
  ASSUME IInv, Whole => Numbering, Bodywise, Whole'
  PROVE  Numbering'
<1>1. ~(phase' = "failed")
  BY DEF Whole
<1>2. CASE phase = "parsing" /\ Steady
  <2>1. Numbering
    BY <1>2 DEF Whole
  <2>2. Kept_bodies /\ Same_bodies({}) /\ UNCHANGED <<used, foots>>
    BY <1>2 DEF Steady
  <2> QED
    BY <2>1, <2>2, NotesStay
<1>3. CASE Reset
  <2>1. Notes' = {} /\ foots' = 0 /\ used' = {}
    BY <1>3 DEF Reset, Notes, Bodies
  <2>2. {lab'[n].num : n \in Notes'} = 1 .. foots'
    BY <2>1
  <2> QED
    BY <2>1, <2>2, FS_EmptySet DEF Numbering
<1>4. CASE phase = "parsing" /\ Fresh("FOOTNOTE")
  BY <1>4, NotesGrow DEF Whole
<1>5. CASE phase = "parsing" /\ Fresh("LINK")
  <2>1. Numbering
    BY <1>5 DEF Whole
  <2>2. /\ Kept_bodies /\ Same_bodies({nodes}) /\ UNCHANGED <<used, foots>>
        /\ nodes \notin DOMAIN lab /\ lab'[nodes].type # "FOOTNOTE"
    BY <1>5 DEF Fresh
  <2> QED
    BY <2>1, <2>2, NotesStay
<1>6. CASE UNCHANGED <<lab, phase, used, foots>>
  BY <1>6 DEF Whole, Numbering, Notes
<1> QED
  BY <1>1, <1>2, <1>3, <1>4, <1>5, <1>6 DEF Bodywise, Bodies

Nesting == Unnested("LINK") /\ Unnested("FOOTNOTE") /\ (Whole => Numbering)

LEMMA NestingInvariant == Spec => []Nesting
<1>1. Init => Nesting
  BY UnderInit DEF Init, TInit, Nesting, Whole
<1>2. PInv /\ Nesting /\ [Next]_vars => Nesting'
  <2> SUFFICES ASSUME PInv, Nesting, [Next]_vars PROVE Nesting'
    OBVIOUS
  <2>1. IInv /\ [TNext]_tvars /\ Bodywise
    BY NextPInv DEF PInv
  <2>2. ASSUME NEW type \in Bodies, Unnested(type) PROVE Unnested(type)'
    BY <2>1, <2>2, BodywiseApart, UnderNext
  <2>3. Unnested("LINK")' /\ Unnested("FOOTNOTE")'
    BY <2>2 DEF Nesting, Bodies
  <2>4. Whole' => Numbering'
    BY <2>1, NumberingNext DEF Nesting
  <2> QED
    BY <2>3, <2>4 DEF Nesting
<1> QED
  BY <1>1, <1>2, WorkInvariant, PTL DEF Spec

(***************************************************************************)
(* No link is in the body of another, at any depth, be there images,       *)
(* emphasis or footnotes between them: in_link_body is set while one is    *)
(* parsed, and what is moved or removed later brings none below another    *)
(* (document.c:1545, 1585, 1931-1936, 3217).                               *)
(***************************************************************************)
THEOREM LinksApart == Spec => []LinkBodies
<1>1. PInv /\ Nesting => LinkBodies
  <2> SUFFICES ASSUME PInv, Nesting PROVE LinkBodies
    OBVIOUS
  <2>1. IInv /\ LinkFlag
    BY FlagsHold DEF PInv
  <2>2. Whole => \A n \in DOMAIN lab : lab[n].type = "LINK" =>
                   \A m \in Ancestors(n) : lab[m].type # "LINK"
    BY <2>1, NoAncestor DEF Nesting
  <2> QED
    BY <2>1, <2>2 DEF LinkBodies
<1> QED
  BY <1>1, WorkInvariant, NestingInvariant, PTL

(***************************************************************************)
(* Each definition of a footnote is used once at most; footnotes have the  *)
(* numbers from 1 on, in the order in which they come up, as many as       *)
(* definitions are used; and none is inside another, however deep          *)
(* (document.c:1607-1660).                                                 *)
(***************************************************************************)
THEOREM NotesOnce == Spec => []FootnotesOnce
<1>1. PInv /\ Nesting => FootnotesOnce
  <2> SUFFICES ASSUME PInv, Nesting PROVE FootnotesOnce
    OBVIOUS
  <2>1. IInv /\ FootnoteFlag
    BY FlagsHold DEF PInv
  <2>2. Whole => \A n \in Notes : \A m \in Ancestors(n) : lab[m].type # "FOOTNOTE"
    BY <2>1, NoAncestor DEF Nesting, Notes
  <2>3. Whole => /\ {lab[n].num : n \in Notes} = 1 .. foots
                 /\ Cardinality(Notes) = foots /\ Cardinality(used) = foots
                 /\ \A m, n \in Notes : m < n => lab[m].num < lab[n].num
    BY DEF Nesting, Numbering
  <2> QED
    BY <2>1, <2>2, <2>3 DEF FootnotesOnce, Notes
<1> QED
  BY <1>1, WorkInvariant, NestingInvariant, PTL
-------------------------------------------------------------------------------
(***************************************************************************)
(* What is put where.  Blocks come in containers only, and a list, a       *)
(* definition list and a table have nothing but their parts.               *)
(***************************************************************************)
Containers == {"ROOT", "BLOCKQUOTE", "LISTITEM", "FOOTNOTE"}

Below(t, p) ==
  /\ t \in Wholes => p \in Containers
  /\ t = "LISTITEM" => p \in {"LIST", "DEFINITION_DATA"}
  /\ t = "DEFINITION_DATA" => p = "DEFINITION"
  /\ p = "LIST" => t = "LISTITEM"
  /\ p = "DEFINITION" => t \in {"DEFINITION_TITLE", "DEFINITION_DATA"}
  /\ p = "TABLE_BLOCK" => t \in {"TABLE_HEADER", "TABLE_BODY"}
  /\ p \in {"TABLE_HEADER", "TABLE_BODY"} => t = "TABLE_ROW"
  /\ p = "TABLE_ROW" => t = "TABLE_CELL"

Placed == Whole => \A n \in DOMAIN lab : n # Root => Below(lab[n].type, lab[par[n]].type)

(***************************************************************************)
(* What is to be done for a node of a type.                                *)
(***************************************************************************)
Block_do == {"header", "gather", "parse_block", "header_line", "parse_header_ext_attrs", "admonition"}
Loose_do == {"parse_inline", "link_end", "foot_end"}

Parted == {"DOC_HEADER", "LIST", "DEFINITION", "DEFINITION_DATA", "TABLE_BLOCK", "TABLE_HEADER",
           "TABLE_BODY", "TABLE_ROW"}

Fits(x, type) ==
  \/ type \in Containers /\ x.do \in Block_do
  \/ type \notin Parted /\ x.do \in Loose_do
  \/ type = "LIST" /\ x.do \in {"parse_listitem", "list_end"}
  \/ type = "DEFINITION" /\ x.do \in {"data", "list_end"}
  \/ type = "DEFINITION_DATA" /\ x.do = "parse_listitem"
  \/ type = "TABLE_BLOCK" /\ x.do = "table_part"
  \/ type \in {"TABLE_HEADER", "TABLE_BODY"} /\ x.do = "parse_table_row"
  \/ type = "TABLE_ROW" /\ x.do = "table_cell"
  \/ type = "DOC_HEADER" /\ x.do = "add_metadata"

\* What is done to a node that was parsed is done to one of its type.
Refers(x, labels) ==
  /\ x.do = "parse_header_ext_attrs" => x.n \in DOMAIN labels /\ labels[x.n].type = "HEADER"
  /\ x.do = "admonition" => x.n \in DOMAIN labels /\ labels[x.n].type = "BLOCKQUOTE"

Fitting ==
  phase = "parsing" =>
    \A i \in 1 .. Len(work) : \A j \in 1 .. Len(work[i]) :
      Fits(work[i][j], lab[held[i]].type) /\ Refers(work[i][j], lab)

Sane(items, type, labels) ==
  \E T : /\ items \in Seq(T)
         /\ \A j \in 1 .. Len(items) : Fits(items[j], type) /\ Refers(items[j], labels)

(***************************************************************************)
(* Labels change after the fact, but not what nodes are, nor what metadata *)
(* is, nor the flags of texts and items; a list only while it is current.  *)
(***************************************************************************)
Alike(n, l) ==
  /\ l.type = lab[n].type /\ l.num = lab[n].num
  /\ lab[n].type \in {"NORMAL_TEXT", "LISTITEM"} => l.fl = lab[n].fl
  /\ n # current /\ lab[n].type \in {"LIST", "DEFINITION"} => l = lab[n]
  /\ lab[n].type = "META" => l = lab[n]
  /\ n # Root /\ lab[par[n]].type = "META" => l = lab[n]

Mild(labels) == \A n \in DOMAIN lab : Alike(n, labels[n])

(***************************************************************************)
(* What a step does, seen from the tree and what is left to do: labels     *)
(* change, a node is put, a node is put and held, a text is cut from a     *)
(* header, a paragraph is made a title, or all goes.                       *)
(***************************************************************************)
Alters(items) ==
  /\ DOMAIN lab' = DOMAIN lab /\ Mild(lab')
  /\ UNCHANGED <<kids, par, nodes, current, held, phase>>
  /\ work' = Instead(items) /\ Sane(items, lab[current].type, lab')

\* Texts one after the other have other flags.
Parts(s, t) == s.type = "NORMAL_TEXT" /\ t.type = "NORMAL_TEXT" => s.fl # t.fl

Puts ==
  /\ phase' = phase /\ nodes \in DOMAIN lab' /\ Mild(lab')
  /\ NewNode(lab', current, lab'[nodes])
  /\ Below(lab'[nodes].type, lab[current].type)
  /\ lab'[nodes].type \notin {"ROOT", "META", "DOC_HEADER", "DEFINITION_TITLE"}
  /\ Last_child(current) # None => Parts(lab[Last_child(current)], lab'[nodes])

Puts_leaf(items) ==
  /\ Puts /\ UNCHANGED <<current, held>>
  /\ work' = Instead(items) /\ Sane(items, lab[current].type, lab')

Puts_held(inner, items) ==
  /\ Puts /\ current' = nodes /\ held' = Append(held, nodes)
  /\ work' = Append(Instead(items), inner)
  /\ Sane(items, lab[current].type, lab') /\ Sane(inner, lab'[nodes].type, lab')

Cuts(n) ==
  /\ phase' = phase /\ Removelast(lab', n) /\ lab[n].type = "HEADER"
  /\ \A m \in DOMAIN lab' : Alike(m, lab'[m])
  /\ work' = Instead(<<>>)

Lists(inner, items) ==
  /\ phase' = phase /\ Enlist /\ lab[current].type \in Containers
  /\ work' = Append(Instead(items), inner)
  /\ Sane(items, lab[current].type, lab') /\ Sane(inner, "DEFINITION", lab')

Gone == phase' \in {"failed", "aborted"}

Fine ==
  /\ phase = "parsing" /\ metaq' = metaq
  /\ \/ \E items : Alters(items) \/ Puts_leaf(items)
     \/ \E inner, items : Puts_held(inner, items) \/ Lists(inner, items)
     \/ \E n \in DOMAIN lab : Cuts(n)

Sorted == Fine \/ Gone
-------------------------------------------------------------------------------
LEMMA ItemFits ==
  ASSUME PInv, Fitting, Working, phase = "parsing", work # <<>>, work[Len(work)] # <<>>,
         Item = work[Len(work)][1]
  PROVE  Fits(Item, lab[current].type) /\ Refers(Item, lab)
<1>1. Len(work) = Len(held) /\ \E S : work \in Seq(Seq(S))
  BY DEF Working, Ordered
<1>2. Len(work) \in 1 .. Len(work) /\ 1 \in 1 .. Len(work[Len(work)])
  <2>1. PICK S : work \in Seq(Seq(S))
    BY <1>1
  <2>2. Len(work) \in 1 .. Len(work)
    BY <2>1, EmptySeq, LenProperties
  <2>3. work[Len(work)] \in Seq(S)
    BY <2>1, <2>2, ElementOfSeq
  <2> QED
    BY <2>2, <2>3, EmptySeq, LenProperties
<1>3. held[Len(held)] = current
  BY DEF PInv, IInv, StackIsPath
<1> QED
  BY <1>1, <1>2, <1>3 DEF Fitting

LEMMA HereFits ==
  ASSUME PInv, Fitting, Here
  PROVE  /\ Fits(Item, lab[current].type) /\ Refers(Item, lab)
         /\ current \in DOMAIN lab /\ current # None
         /\ phase = "parsing" /\ nodes \notin DOMAIN lab
         /\ lab[current].type \notin Leaves
  BY ItemFits, Facts DEF Here, PInv, IInv, TTypeOK, None

\* Where a block is parsed, or text.
LEMMA InContainer ==
  ASSUME NEW x, NEW type, Fits(x, type), x.do \in Block_do
  PROVE  type \in Containers
BY DEF Fits, Block_do, Loose_do

LEMMA InLoose ==
  ASSUME NEW x, NEW type, Fits(x, type), x.do \in Loose_do
  PROVE  type \notin Parted
BY DEF Fits, Block_do, Loose_do, Containers

LEMMA SaneNothing == ASSUME NEW type, NEW labels PROVE Sane(<<>>, type, labels)
<1>1. <<>> \in Seq({}) /\ Len(<<>>) = 0
  OBVIOUS
<1> QED
  BY <1>1 DEF Sane

LEMMA SaneOne ==
  ASSUME NEW x, NEW type, NEW labels, Fits(x, type), Refers(x, labels)
  PROVE  Sane(<<x>>, type, labels)
<1> DEFINE s == <<x>>
<1>1. s \in Seq({x}) /\ Len(s) = 1 /\ s[1] = x
  OBVIOUS
<1> HIDE DEF s
<1>2. \A j \in 1 .. Len(s) : s[j] = x
  BY <1>1
<1>3. \A j \in 1 .. Len(s) : Fits(s[j], type) /\ Refers(s[j], labels)
  BY <1>2
<1>4. Sane(s, type, labels)
  BY <1>1, <1>3 DEF Sane
<1> QED
  BY <1>4 DEF s

LEMMA SaneBoth ==
  ASSUME NEW s, NEW t, NEW type, NEW labels, Sane(s, type, labels), Sane(t, type, labels)
  PROVE  Sane(s \o t, type, labels)
<1>1. PICK S : /\ s \in Seq(S)
               /\ \A j \in 1 .. Len(s) : Fits(s[j], type) /\ Refers(s[j], labels)
  BY DEF Sane
<1>2. PICK T : /\ t \in Seq(T)
               /\ \A j \in 1 .. Len(t) : Fits(t[j], type) /\ Refers(t[j], labels)
  BY DEF Sane
<1>3. s \in Seq(S \cup T) /\ t \in Seq(S \cup T)
  BY <1>1, <1>2, SeqMonotonic
<1>4. /\ s \o t \in Seq(S \cup T) /\ Len(s \o t) = Len(s) + Len(t)
      /\ \A j \in 1 .. Len(s) + Len(t) :
           (s \o t)[j] = IF j <= Len(s) THEN s[j] ELSE t[j - Len(s)]
  BY <1>3, ConcatProperties
<1>5. Len(s) \in Nat /\ Len(t) \in Nat
  BY <1>1, <1>2, LenProperties
<1> DEFINE u == s \o t
<1> HIDE DEF u
<1>6. ASSUME NEW j \in 1 .. Len(u) PROVE Fits(u[j], type) /\ Refers(u[j], labels)
  <2>1. CASE j <= Len(s)
    <3>1. u[j] = s[j] /\ j \in 1 .. Len(s)
      BY <1>4, <1>5, <1>6, <2>1 DEF u
    <3> QED
      BY <1>1, <3>1
  <2>2. CASE ~(j <= Len(s))
    <3>1. u[j] = t[j - Len(s)] /\ j - Len(s) \in 1 .. Len(t)
      BY <1>4, <1>5, <1>6, <2>2 DEF u
    <3> QED
      BY <1>2, <3>1
  <2> QED
    BY <2>1, <2>2
<1>7. Sane(u, type, labels)
  BY <1>4, <1>6 DEF Sane, u
<1> QED
  BY <1>7 DEF u

LEMMA MildSame == PInv => Mild(lab)
BY DEF Mild, Alike


\* Things to do that refer to no node.
Sure(items, type) == \A labels : Sane(items, type, labels)

LEMMA SureNothing == ASSUME NEW type PROVE Sure(<<>>, type)
BY SaneNothing DEF Sure

LEMMA SureOne ==
  ASSUME NEW x, NEW type, Fits(x, type), x.do \notin {"parse_header_ext_attrs", "admonition"}
  PROVE  Sure(<<x>>, type)
<1>1. ASSUME NEW labels PROVE Sane(<<x>>, type, labels)
  <2>1. Refers(x, labels)
    BY DEF Refers
  <2> QED
    BY <2>1, SaneOne
<1> QED
  BY <1>1 DEF Sure

LEMMA SureBoth ==
  ASSUME NEW s, NEW t, NEW type, Sure(s, type), Sure(t, type)
  PROVE  Sure(s \o t, type)
BY SaneBoth DEF Sure

\* The first thing to do of all, done instead of itself.
LEMMA AltersFine ==
  ASSUME PInv, phase = "parsing", NEW labels, Mild(labels), DOMAIN labels = DOMAIN lab,
         lab' = labels, UNCHANGED <<kids, par, nodes, current, held, phase, metaq>>,
         NEW items, Sane(items, lab[current].type, lab'), Go(items)
  PROVE  Sorted
<1>1. Mild(lab') /\ DOMAIN lab' = DOMAIN lab
  BY DEF Mild
<1>2. Alters(items)
  BY <1>1 DEF Alters, Go
<1> QED
  BY <1>2 DEF Fine, Sorted

LEMMA StaysFine ==
  ASSUME PInv, phase = "parsing", UNCHANGED <<kids, par, lab, nodes, current, held, phase, metaq>>,
         NEW items, Sure(items, lab[current].type), Go(items)
  PROVE  Sorted
<1>1. Sane(items, lab[current].type, lab')
  BY DEF Sure
<1> QED
  BY <1>1, AltersFine, MildSame

LEMMA SkipFine ==
  ASSUME PInv, phase = "parsing", NEW items, Sure(items, lab[current].type), Skip(items)
  PROVE  Sorted
BY StaysFine DEF Skip, tvars, queues

LEMMA FailsFine == ASSUME NEW why, Fails(why) PROVE Sorted
BY DEF Fails, Failed, Sorted, Gone

NewAs(l) ==
  /\ nodes \in DOMAIN lab' /\ lab'[nodes] = l /\ Mild(lab') /\ DOMAIN lab \subseteq DOMAIN lab'

Placeable(l) ==
  /\ Below(l.type, lab[current].type)
  /\ l.type \notin {"ROOT", "META", "DOC_HEADER", "DEFINITION_TITLE"}
  /\ Last_child(current) # None => Parts(lab[Last_child(current)], l)

LEMMA NewPuts ==
  ASSUME PInv, Here, NEW labels, Mild(labels), NEW l, Placeable(l),
         NewNode(labels, current, l), phase' = phase
  PROVE  Puts /\ NewAs(l)
<1>1. nodes \notin DOMAIN lab
  BY HeldNodes DEF Here
<1>2. lab' = [n \in DOMAIN lab \cup {nodes} |-> IF n = nodes THEN l ELSE labels[n]]
  BY DEF NewNode
<1>3. /\ DOMAIN lab' = DOMAIN lab \cup {nodes} /\ lab'[nodes] = l
      /\ \A n \in DOMAIN lab : lab'[n] = labels[n]
  BY <1>1, <1>2
<1>4. Mild(lab')
  BY <1>3 DEF Mild
<1>5. lab' = [n \in DOMAIN lab \cup {nodes} |-> IF n = nodes THEN lab'[nodes] ELSE lab'[n]]
  BY <1>2, <1>3
<1>6. NewNode(lab', current, lab'[nodes])
  BY <1>5 DEF NewNode
<1> QED
  BY <1>3, <1>4, <1>6 DEF Puts, NewAs, Placeable

LEMMA LeafFine ==
  ASSUME PInv, Here, NEW labels, Mild(labels), NEW l, Placeable(l),
         NEW follow, Sure(follow, lab[current].type), Leaf_in(labels, l, follow)
  PROVE  Sorted
<1>1. CASE TooDeep(depth)
  BY <1>1, FailsFine DEF Leaf_in
<1>2. CASE ~TooDeep(depth)
  <2>1. Pushleaf(labels, l) /\ Go(follow) /\ UNCHANGED <<queues>>
    BY <1>2 DEF Leaf_in
  <2>2. Puts
    BY <2>1, NewPuts DEF Pushleaf
  <2>3. Puts_leaf(follow)
    BY <2>1, <2>2 DEF Puts_leaf, Pushleaf, Go, Sure
  <2> QED
    BY <2>1, <2>3 DEF Sorted, Fine, Here, queues
<1> QED
  BY <1>1, <1>2

LEMMA OpensFine ==
  ASSUME PInv, Here, NEW labels, Mild(labels), NEW l, Placeable(l),
         NEW inner, Sure(inner, l.type),
         NEW follow, NewAs(l) => Sane(follow, lab[current].type, lab'),
         Opens(labels, l, inner, follow), metaq' = metaq
  PROVE  Sorted
<1>1. Puts /\ NewAs(l)
  BY NewPuts DEF Opens, Pushnode
<1>2. Sane(follow, lab[current].type, lab') /\ Sane(inner, lab'[nodes].type, lab')
  BY <1>1 DEF NewAs, Sure
<1>3. Puts_held(inner, follow)
  BY <1>1, <1>2 DEF Puts_held, Opens, Pushnode
<1> QED
  BY <1>3 DEF Sorted, Fine, Here

LEMMA OpenFine ==
  ASSUME PInv, Here, NEW labels, Mild(labels), NEW l, Placeable(l),
         NEW inner, Sure(inner, l.type),
         NEW follow, NewAs(l) => Sane(follow, lab[current].type, lab'),
         Open_in(labels, l, inner, follow)
  PROVE  Sorted
<1>1. CASE TooDeep(depth)
  BY <1>1, FailsFine DEF Open_in
<1>2. CASE ~TooDeep(depth)
  <2>1. Opens(labels, l, inner, follow) /\ metaq' = metaq
    BY <1>2 DEF Open_in, queues
  <2> QED
    BY <2>1, OpensFine
<1> QED
  BY <1>1, <1>2

\* A node that is no text may come after anything.
LEMMA PlaceableIf ==
  ASSUME NEW l, l.type \notin {"ROOT", "META", "DOC_HEADER", "DEFINITION_TITLE", "NORMAL_TEXT"},
         Below(l.type, lab[current].type)
  PROVE  Placeable(l)
BY DEF Placeable, Parts

\* The label of a child of the current node that is a text.
LEMMA LastText ==
  ASSUME PInv, Here, Fitting, NEW n, n = Last_child(current), n # None, lab[n].type = "NORMAL_TEXT"
  PROVE  n \in DOMAIN lab /\ par[n] = current /\ lab[par[n]].type # "META" /\ n # Root
<1>1. IInv /\ phase = "parsing" /\ current \in DOMAIN kids /\ DOMAIN kids = DOMAIN lab
  BY Facts DEF PInv, Here, IInv, TTypeOK
<1>2. /\ Len(kids[current]) \in DOMAIN kids[current] /\ n = kids[current][Len(kids[current])]
      /\ n \in DOMAIN kids
  BY <1>1, LastChild
<1>3. par[n] = current /\ lab[Root].type = "ROOT"
  BY <1>1, <1>2, Facts DEF Shaped, Linked
<1>4. lab[current].type \notin Leaves
  BY HereFits
<1> QED
  BY <1>1, <1>2, <1>3, <1>4 DEF Leaves

\* Only the text of the last text changes.
LEMMA MildText ==
  ASSUME PInv, Here, Fitting, NEW n, n = Last_child(current), n # None, lab[n].type = "NORMAL_TEXT",
         NEW text
  PROVE  Mild([lab EXCEPT ![n] = [lab[n] EXCEPT !.text = text]])
<1> DEFINE l == [lab[n] EXCEPT !.text = text]
           labels == [lab EXCEPT ![n] = l]
<1>1. n \in DOMAIN lab /\ lab[par[n]].type # "META" /\ n # Root
  BY LastText
<1>2. l.type = lab[n].type /\ l.num = lab[n].num /\ l.fl = lab[n].fl
  BY <1>1 DEF PInv, Labelled, Fields
<1> HIDE DEF l
<1>3. \A m \in DOMAIN lab : labels[m] = IF m = n THEN l ELSE lab[m]
  BY <1>1
<1> HIDE DEF labels
<1>4. Alike(n, l)
  BY <1>1, <1>2 DEF Alike
<1>5. \A m \in DOMAIN lab : Alike(m, lab[m])
  BY DEF Alike
<1>6. Mild(labels)
  BY <1>3, <1>4, <1>5 DEF Mild
<1> QED
  BY <1>6 DEF labels, l

\* Text is added to the text before it, or put.
LEMMA SayFine ==
  ASSUME PInv, Here, Fitting, NEW fl, NEW text, NEW follow, Sure(follow, lab[current].type),
         lab[current].type \notin Parted, Say(fl, text, follow)
  PROVE  Sorted
<1> DEFINE n == Last_child(current)
<1>1. CASE Merge_into(fl) = None
  <2>1. Leaf_in(lab, Text(fl, text), follow)
    BY <1>1 DEF Say, Put
  <2>2. Text(fl, text).type = "NORMAL_TEXT" /\ Text(fl, text).fl = fl
    BY DEF Text, Label
  <2>3. ASSUME n # None PROVE Parts(lab[n], Text(fl, text))
    <3>1. n # -1
      BY <2>3 DEF None
    <3> QED
      BY <1>1, <2>2, <2>3 DEF Parts, Merge_into
  <2>4. Below("NORMAL_TEXT", lab[current].type)
    BY DEF Below, Wholes, Parted
  <2>5. Placeable(Text(fl, text))
    BY <2>2, <2>3, <2>4 DEF Placeable
  <2> QED
    BY <2>1, <2>5, LeafFine, MildSame
<1>2. CASE Merge_into(fl) # None
  <2>1. Addtext(fl, text) /\ Go(follow) /\ UNCHANGED <<queues>>
    BY <1>2 DEF Say
  <2>2. n # None /\ lab[n].type = "NORMAL_TEXT" /\ Merge_into(fl) = n
    BY <1>2 DEF Merge_into
  <2> HIDE DEF n
  <2>3. /\ lab' = [lab EXCEPT ![n] = [lab[n] EXCEPT !.text = lab[n].text \o text]]
        /\ UNCHANGED <<kids, par, nodes, current, depth, held, maxdepth, phase>>
    BY <2>1, <2>2 DEF Addtext
  <2>4. Mild([lab EXCEPT ![n] = [lab[n] EXCEPT !.text = lab[n].text \o text]])
    BY <2>2, MildText DEF n
  <2>5. Sane(follow, lab[current].type, lab')
    BY DEF Sure
  <2> DEFINE labels == [lab EXCEPT ![n] = [lab[n] EXCEPT !.text = lab[n].text \o text]]
  <2>6. DOMAIN labels = DOMAIN lab /\ lab' = labels /\ Mild(labels)
    BY <2>3, <2>4
  <2>7. phase = "parsing" /\ metaq' = metaq
    BY <2>1 DEF Here, queues
  <2> HIDE DEF labels
  <2> QED
    BY <2>1, <2>3, <2>5, <2>6, <2>7, AltersFine
<1> QED
  BY <1>1, <1>2

-------------------------------------------------------------------------------
(***************************************************************************)
(* Blocks.                                                                 *)
(***************************************************************************)
LEMMA SureBlocks ==
  ASSUME NEW ls, NEW type \in Containers
  PROVE  Sure(<<Blocks(ls)>>, type)
<1> DEFINE x == Blocks(ls)
<1>1. x.do = "parse_block"
  BY DEF Blocks
<1> HIDE DEF x
<1>2. Sure(<<x>>, type)
  BY <1>1, SureOne DEF Fits, Block_do
<1> QED
  BY <1>2 DEF x

LEMMA SureInline ==
  ASSUME NEW s, NEW i, NEW e, NEW type, type \notin Parted
  PROVE  Sure(<<Inline(s, i, e)>>, type)
<1> DEFINE x == Inline(s, i, e)
<1>1. x.do = "parse_inline"
  BY DEF Inline
<1> HIDE DEF x
<1>2. Sure(<<x>>, type)
  BY <1>1, SureOne DEF Fits, Loose_do
<1> QED
  BY <1>2 DEF x

\* A function of the blocks is called for a container.
LEMMA NowBlock ==
  ASSUME PInv, Fitting, NEW name \in Block_do, Now(name), name # "header"
  PROVE  /\ Here /\ Item.do = name /\ lab[current].type \in Containers
         /\ phase = "parsing" /\ Refers(Item, lab)
         /\ Sure(<<>>, lab[current].type)
         /\ \A ls : Sure(<<Blocks(ls)>>, lab[current].type)
<1>1. Here /\ Item.do = name
  BY NowHere DEF Block_do, Closing
<1>2. lab[current].type \in Containers
  BY <1>1, HereFits, InContainer
<1> QED
  BY <1>1, <1>2, HereFits, SureNothing, SureBlocks

LEMMA AtBlock ==
  ASSUME PInv, Fitting, NEW block, At(block)
  PROVE  /\ Here /\ lab[current].type \in Containers /\ phase = "parsing"
         /\ \A ls : Sure(<<Blocks(ls)>>, lab[current].type)
BY NowBlock DEF At, Block_do

\* Anything but the parts of others may come in a container.
LEMMA BelowContainer ==
  ASSUME lab[current].type \in Containers,
         NEW l, l.type \notin {"ROOT", "META", "DOC_HEADER", "DEFINITION_TITLE", "NORMAL_TEXT",
                               "LISTITEM", "DEFINITION_DATA"}
  PROVE  Placeable(l)
<1>1. Below(l.type, lab[current].type)
  BY DEF Below, Containers
<1> QED
  BY <1>1, PlaceableIf

LEMMA GatherFine == PInv /\ Fitting /\ Gather_next => Sorted
<1> SUFFICES ASSUME PInv, Fitting, Gather_next PROVE Sorted
  OBVIOUS
<1>1. Now("gather")
  BY DEF Gather_next, Gather_footnote, Gather_ref, Gather_line, Gather_done, More
<1>2. Here /\ phase = "parsing" /\ \A ls : Sure(<<Blocks(ls)>>, lab[current].type)
  BY <1>1, NowBlock DEF Block_do
<1>3. ASSUME NEW ls, NEW text
      PROVE  Sure(<<Gather(ls, text)>>, lab[current].type)
  <2> DEFINE x == Gather(ls, text)
  <2>1. x.do = "gather"
    BY DEF Gather
  <2> HIDE DEF x
  <2>2. lab[current].type \in Containers
    BY <1>1, NowBlock DEF Block_do
  <2>3. Sure(<<x>>, lab[current].type)
    BY <2>1, <2>2, SureOne DEF Fits, Block_do
  <2> QED
    BY <2>3 DEF x
<1>4. CASE Gather_footnote
  BY <1>2, <1>3, <1>4, StaysFine DEF Gather_footnote, tvars
<1>5. CASE Gather_ref
  BY <1>2, <1>3, <1>5, StaysFine DEF Gather_ref, tvars
<1>6. CASE Gather_line
  BY <1>2, <1>3, <1>6, SkipFine DEF Gather_line
<1>7. CASE Gather_done
  BY <1>2, <1>3, <1>7, SkipFine DEF Gather_done
<1> QED
  BY <1>4, <1>5, <1>6, <1>7 DEF Gather_next

LEMMA EmptyFine == PInv /\ Fitting /\ (Return \/ Empty_line) => Sorted
<1>1. ASSUME PInv, Fitting, Return PROVE Sorted
  BY <1>1, NowBlock, SkipFine DEF Return, Block_do
<1>2. ASSUME PInv, Fitting, Empty_line PROVE Sorted
  BY <1>2, AtBlock, SkipFine DEF Empty_line
<1> QED
  BY <1>1, <1>2

LEMMA BlockLeafFine ==
  ASSUME PInv, Fitting, NEW block, At(block), NEW l,
         l.type \in {"BLOCKHTML", "BLOCKCODE", "HRULE"}, NEW ls, Put(l, <<Blocks(ls)>>)
  PROVE  Sorted
<1>1. Leaf_in(lab, l, <<Blocks(ls)>>)
  BY DEF Put
<1> QED
  BY <1>1, AtBlock, BelowContainer, LeafFine, MildSame

LEMMA CodeFine == PInv /\ Fitting /\ (Hrule \/ Parse_htmlblock \/ Parse_fencedcode \/ Parse_blockcode) => Sorted
<1>1. ASSUME PInv, Fitting, Hrule PROVE Sorted
  BY <1>1, BlockLeafFine, NodeIs DEF Hrule
<1>2. ASSUME PInv, Fitting, Parse_htmlblock PROVE Sorted
  BY <1>2, BlockLeafFine, LabelIs DEF Parse_htmlblock
<1>3. ASSUME PInv, Fitting, Parse_fencedcode PROVE Sorted
  BY <1>3, BlockLeafFine, LabelIs DEF Parse_fencedcode
<1>4. ASSUME PInv, Fitting, Parse_blockcode PROVE Sorted
  BY <1>4, BlockLeafFine, LabelIs DEF Parse_blockcode
<1> QED
  BY <1>1, <1>2, <1>3, <1>4

\* A thing to do that refers to the node that was put last.
LEMMA SaneNew ==
  ASSUME NEW l, NewAs(l), NEW x, NEW type \in Containers,
         \/ x.do = "parse_header_ext_attrs" /\ l.type = "HEADER"
         \/ x.do = "admonition" /\ l.type = "BLOCKQUOTE",
         x.n = nodes
  PROVE  Sane(<<x>>, type, lab')
<1>1. Refers(x, lab')
  BY DEF NewAs, Refers
<1>2. Fits(x, type)
  BY DEF Fits, Block_do
<1> QED
  BY <1>1, <1>2, SaneOne

LEMMA HeaderFine ==
  ASSUME PInv, Fitting, Here, lab[current].type \in Containers, NEW level, NEW s, NEW i, NEW e, NEW ls,
         Open(Header(level), <<Inline(s, i, e)>>, Header_attrs(nodes) \o <<Blocks(ls)>>)
  PROVE  Sorted
<1> DEFINE l == Header(level)
<1>1. l.type = "HEADER"
  BY LabelIs DEF Header
<1> HIDE DEF l
<1>2. Sure(<<Inline(s, i, e)>>, l.type)
  BY <1>1, SureInline DEF Parted
<1>3. Open_in(lab, l, <<Inline(s, i, e)>>, Header_attrs(nodes) \o <<Blocks(ls)>>)
  BY DEF Open, l
<1>4. ASSUME NewAs(l) PROVE Sane(Header_attrs(nodes) \o <<Blocks(ls)>>, lab[current].type, lab')
  <2>1. Sane(Header_attrs(nodes), lab[current].type, lab')
    <3> DEFINE x == On("parse_header_ext_attrs", nodes)
    <3>1. x.do = "parse_header_ext_attrs" /\ x.n = nodes
      BY DEF On
    <3> HIDE DEF x
    <3>2. Sane(<<x>>, lab[current].type, lab') /\ Sane(<<>>, lab[current].type, lab')
      BY <1>1, <1>4, <3>1, SaneNew, SaneNothing
    <3> QED
      BY <3>2 DEF x, Header_attrs
  <2>2. Sane(<<Blocks(ls)>>, lab[current].type, lab')
    BY SureBlocks DEF Sure
  <2> QED
    BY <2>1, <2>2, SaneBoth
<1>5. Placeable(l)
  BY <1>1, BelowContainer
<1> QED
  BY <1>2, <1>3, <1>4, <1>5, OpenFine, MildSame

LEMMA HeadersFine == PInv /\ Fitting /\ (Parse_atxheader \/ Header_line) => Sorted
<1>1. ASSUME PInv, Fitting, Parse_atxheader PROVE Sorted
  <2>1. /\ Here /\ lab[current].type \in Containers /\ phase = "parsing"
        /\ \A ls : Sure(<<Blocks(ls)>>, lab[current].type)
    BY <1>1, AtBlock DEF Parse_atxheader
  <2>2. ASSUME NEW ls, Skip(<<Blocks(ls)>>) PROVE Sorted
    BY <1>1, <2>1, <2>2, SkipFine
  <2> QED
    BY <1>1, <2>1, <2>2, HeaderFine DEF Parse_atxheader
<1>2. ASSUME PInv, Fitting, Header_line PROVE Sorted
  <2>1. Here /\ lab[current].type \in Containers
    BY <1>2, NowBlock DEF Header_line, Block_do
  <2> QED
    BY <1>2, <2>1, HeaderFine DEF Header_line, Plain
<1> QED
  BY <1>1, <1>2

LEMMA QuoteFine == PInv /\ Fitting /\ Parse_blockquote => Sorted
<1> SUFFICES ASSUME PInv, Fitting, Parse_blockquote PROVE Sorted
  OBVIOUS
<1> DEFINE quote == Blockquote(Item.ls)
           attr == IF "CALLOUTS" \in Flags THEN <<On("admonition", nodes)>> ELSE <<>>
           l == Node("BLOCKQUOTE")
<1>1. Here /\ lab[current].type \in Containers
  BY AtBlock DEF Parse_blockquote
<1>2. Open_in(lab, l, <<Blocks(quote.body)>>, attr \o <<Blocks(quote.rest)>>)
  BY DEF Parse_blockquote, Open
<1> HIDE DEF quote
<1>3. l.type = "BLOCKQUOTE"
  BY NodeIs
<1> HIDE DEF l
<1>4. ASSUME NewAs(l) PROVE Sane(attr \o <<Blocks(quote.rest)>>, lab[current].type, lab')
  <2>1. Sane(attr, lab[current].type, lab')
    <3> DEFINE x == On("admonition", nodes)
    <3>1. x.do = "admonition" /\ x.n = nodes
      BY DEF On
    <3> HIDE DEF x
    <3>2. Sane(<<x>>, lab[current].type, lab') /\ Sane(<<>>, lab[current].type, lab')
      BY <1>1, <1>3, <1>4, <3>1, SaneNew, SaneNothing
    <3> QED
      BY <3>2 DEF x
  <2>2. Sane(<<Blocks(quote.rest)>>, lab[current].type, lab')
    BY <1>1, SureBlocks DEF Sure
  <2> HIDE DEF attr
  <2> QED
    BY <2>1, <2>2, SaneBoth
<1>5. Placeable(l) /\ Sure(<<Blocks(quote.body)>>, l.type)
  BY <1>1, <1>3, BelowContainer, SureBlocks DEF Containers
<1> HIDE DEF attr
<1> QED
  BY <1>1, <1>2, <1>4, <1>5, OpenFine, MildSame

\* A quotation's flags change.
LEMMA AdmonitionFine == PInv /\ Fitting /\ Admonition => Sorted
<1> SUFFICES ASSUME PInv, Fitting, Admonition PROVE Sorted
  OBVIOUS
<1>1. /\ Here /\ Item.do = "admonition" /\ phase = "parsing" /\ Sure(<<>>, lab[current].type)
      /\ Refers(Item, lab)
  BY NowBlock DEF Admonition, Block_do
<1>2. CASE Skip(<<>>)
  BY <1>1, <1>2, SkipFine
<1>3. ASSUME NEW n, n = Item.n, NEW fl, Relabel(n, [lab[n] EXCEPT !.fl = fl]), Go(<<>>), metaq' = metaq
      PROVE  Sorted
  <2> DEFINE l == [lab[n] EXCEPT !.fl = fl]
             labels == [lab EXCEPT ![n] = l]
  <2>1. n \in DOMAIN lab /\ lab[n].type = "BLOCKQUOTE"
    BY <1>1, <1>3 DEF Refers
  <2>2. /\ lab' = labels
        /\ UNCHANGED <<kids, par, nodes, current, depth, held, maxdepth, phase>>
    BY <1>3 DEF Relabel
  <2>3. l.type = lab[n].type /\ l.num = lab[n].num
    BY <2>1, FieldExcept DEF PInv, Labelled
  <2>4. n # Root => lab[par[n]].type # "META"
    <3>1. ASSUME n # Root, lab[par[n]].type = "META" PROVE FALSE
      <4>1. /\ par[n] \in DOMAIN lab /\ Linked /\ DOMAIN kids = DOMAIN lab /\ LeavesBare
        BY <1>1, <2>1, <3>1, Facts DEF PInv, IInv, TTypeOK, Shaped, TreeWhole
      <4>2. PICK j \in DOMAIN kids[par[n]] : kids[par[n]][j] = n
        BY <2>1, <3>1, <4>1 DEF Linked
      <4> QED
        BY <2>1, <3>1, <4>1, <4>2 DEF LeavesBare
    <3> QED
      BY <3>1
  <2> HIDE DEF l
  <2>5. Alike(n, l)
    BY <2>1, <2>3, <2>4 DEF Alike
  <2>6. \A m \in DOMAIN lab : labels[m] = IF m = n THEN l ELSE lab[m]
    BY <2>1
  <2>7. DOMAIN labels = DOMAIN lab
    OBVIOUS
  <2> HIDE DEF labels
  <2>8. \A m \in DOMAIN lab : Alike(m, lab[m])
    BY DEF Alike
  <2>9. Mild(labels)
    BY <2>5, <2>6, <2>8 DEF Mild
  <2>10. Sane(<<>>, lab[current].type, lab')
    BY SaneNothing
  <2> QED
    BY <1>1, <1>3, <2>2, <2>7, <2>9, <2>10, AltersFine
<1>4. \/ Skip(<<>>)
      \/ \E fl : Relabel(Item.n, [lab[Item.n] EXCEPT !.fl = fl]) /\ Go(<<>>) /\ metaq' = metaq
  BY Zenon DEF Admonition, queues
<1> QED
  BY <1>2, <1>3, <1>4

LEMMA ParagraphFine == PInv /\ Fitting /\ Parse_paragraph => Sorted
<1> SUFFICES ASSUME PInv, Fitting, Parse_paragraph PROVE Sorted
  OBVIOUS
<1>1. /\ Here /\ lab[current].type \in Containers /\ phase = "parsing"
      /\ \A ls : Sure(<<Blocks(ls)>>, lab[current].type)
  BY AtBlock DEF Parse_paragraph
<1>2. ASSUME NEW l, NEW level, NEW ls PROVE Sure(<<Under_header(l, level, ls)>>, lab[current].type)
  <2> DEFINE x == Under_header(l, level, ls)
  <2>1. x.do = "header_line"
    BY DEF Under_header
  <2> HIDE DEF x
  <2>2. Sure(<<x>>, lab[current].type)
    BY <1>1, <2>1, SureOne DEF Fits, Block_do
  <2> QED
    BY <2>2 DEF x
<1>3. ASSUME NEW l, NEW level, NEW ls, Skip(<<Under_header(l, level, ls)>>) PROVE Sorted
  BY <1>1, <1>2, <1>3, SkipFine
<1>4. ASSUME NEW lines, NEW beoln, NEW inner, NEW follow, Sure(inner, "PARAGRAPH"),
             Sure(follow, lab[current].type), Open(Para(lines, beoln), inner, follow)
      PROVE  Sorted
  <2> DEFINE l == Para(lines, beoln)
  <2>1. l.type = "PARAGRAPH"
    BY LabelIs DEF Para
  <2>2. Open_in(lab, l, inner, follow)
    BY <1>4 DEF Open
  <2> HIDE DEF l
  <2>3. Placeable(l)
    BY <1>1, <2>1, BelowContainer
  <2> QED
    BY <1>1, <1>4, <2>1, <2>2, <2>3, OpenFine, MildSame DEF Sure
<1>5. \A ls : Sure(<<Plain(ls)>>, "PARAGRAPH")
  BY SureInline DEF Plain, Parted
<1>6. Sure(<<>>, "PARAGRAPH")
  BY SureNothing
<1> QED
  BY <1>1, <1>2, <1>3, <1>4, <1>5, <1>6 DEF Parse_paragraph


\* A node that is neither metadata nor a text has no metadata above it.
LEMMA NotMetas ==
  ASSUME PInv, phase = "parsing", NEW n \in DOMAIN lab, n # Root, lab[n].type # "NORMAL_TEXT"
  PROVE  lab[par[n]].type # "META"
<1> SUFFICES ASSUME lab[par[n]].type = "META" PROVE FALSE
  OBVIOUS
<1>1. /\ par[n] \in DOMAIN lab /\ Linked /\ DOMAIN kids = DOMAIN lab /\ LeavesBare
  BY Facts DEF PInv, IInv, TTypeOK, Shaped, TreeWhole
<1>2. PICK j \in DOMAIN kids[par[n]] : kids[par[n]][j] = n
  BY <1>1 DEF Linked
<1> QED
  BY <1>1, <1>2 DEF LeavesBare

\* The attributes of a header and the text of its last text change.
LEMMA AttrsMild ==
  ASSUME PInv, phase = "parsing", NEW n \in DOMAIN lab, lab[n].type = "HEADER",
         NEW nn, nn = Last_child(n), nn # None, lab[nn].type = "NORMAL_TEXT",
         NEW attrs, NEW kept
  PROVE  LET set == [lab EXCEPT ![n].more = attrs, ![nn].text = kept]
         IN  Mild(set) /\ DOMAIN set = DOMAIN lab
<1> DEFINE h == [lab[n] EXCEPT !.more = attrs]
           one == [lab EXCEPT ![n] = h]
           t == [one[nn] EXCEPT !.text = kept]
           set == [one EXCEPT ![nn] = t]
<1>1. set = [lab EXCEPT ![n].more = attrs, ![nn].text = kept]
  OBVIOUS
<1>2. nn \in DOMAIN lab /\ par[nn] = n /\ nn # n
  <2>1. IInv /\ DOMAIN kids = DOMAIN lab /\ Linked
    BY Facts DEF PInv, IInv, TTypeOK, Shaped
  <2>2. Len(kids[n]) \in DOMAIN kids[n] /\ nn = kids[n][Len(kids[n])] /\ nn \in DOMAIN kids
    BY <2>1, LastChild
  <2> QED
    BY <2>1, <2>2 DEF Linked
<1>3. h.type = "HEADER" /\ h.num = lab[n].num
  BY FieldExcept DEF PInv, Labelled
<1> HIDE DEF h
<1>4. DOMAIN one = DOMAIN lab /\ \A m \in DOMAIN lab : one[m] = IF m = n THEN h ELSE lab[m]
  BY <1>2
<1> HIDE DEF one
<1>5. one[nn] = lab[nn]
  BY <1>2, <1>4
<1>6. t.type = "NORMAL_TEXT" /\ t.num = lab[nn].num /\ t.fl = lab[nn].fl
  BY <1>2, <1>5 DEF PInv, Labelled, Fields
<1> HIDE DEF t
<1>7. DOMAIN set = DOMAIN lab
      /\ \A m \in DOMAIN lab : set[m] = IF m = nn THEN t ELSE IF m = n THEN h ELSE lab[m]
  BY <1>2, <1>4
<1> HIDE DEF set
<1>8. Alike(nn, t)
  BY <1>2, <1>6 DEF Alike
<1>9. Alike(n, h)
  BY <1>3, NotMetas DEF Alike
<1>10. \A m \in DOMAIN lab : Alike(m, lab[m])
  BY DEF Alike
<1>11. Mild(set)
  BY <1>7, <1>8, <1>9, <1>10 DEF Mild
<1> QED
  BY <1>1, <1>7, <1>11

LEMMA AttrsFine == PInv /\ Fitting /\ Parse_header_ext_attrs => Sorted
<1> SUFFICES ASSUME PInv, Fitting, Parse_header_ext_attrs PROVE Sorted
  OBVIOUS
<1>1. /\ Here /\ Item.do = "parse_header_ext_attrs" /\ phase = "parsing"
      /\ Sure(<<>>, lab[current].type) /\ Refers(Item, lab)
  BY NowBlock DEF Parse_header_ext_attrs, Block_do
<1>2. CASE Skip(<<>>)
  BY <1>1, <1>2, SkipFine
<1>3. CASE Fails("attrs")
  BY <1>3, FailsFine
<1>4. ASSUME NEW n \in DOMAIN lab, lab[n].type = "HEADER", NEW set, Mild(set), DOMAIN set = DOMAIN lab,
             \/ Removelast(set, n)
             \/ lab' = set /\ UNCHANGED <<kids, par, nodes, current, depth, held, maxdepth, phase>>,
             Go(<<>>), metaq' = metaq
      PROVE  Sorted
  <2>4. CASE lab' = set /\ UNCHANGED <<kids, par, nodes, current, depth, held, maxdepth, phase>>
    <3>1. Sane(<<>>, lab[current].type, lab')
      BY SaneNothing
    <3> QED
      BY <1>1, <1>4, <2>4, <3>1, AltersFine
  <2>5. CASE Removelast(set, n)
    <3> DEFINE t == Last_child(n)
    <3>1. lab' = [m \in DOMAIN lab \ {t} |-> set[m]] /\ phase' = phase
      BY <2>5 DEF Removelast
    <3>2. DOMAIN lab' = DOMAIN lab \ {t} /\ \A m \in DOMAIN lab \ {t} : lab'[m] = set[m]
      BY <3>1
    <3>3. lab' = [m \in DOMAIN lab \ {t} |-> lab'[m]]
      BY <3>1, <3>2
    <3>4. Removelast(lab', n)
      BY <2>5, <3>3 DEF Removelast
    <3>5. \A m \in DOMAIN lab' : Alike(m, lab'[m])
      BY <1>4, <3>2 DEF Mild
    <3>6. Cuts(n)
      BY <1>4, <3>1, <3>4, <3>5 DEF Cuts, Go
    <3> QED
      BY <1>1, <1>4, <3>6 DEF Sorted, Fine
  <2> QED
    BY <1>4, <2>4, <2>5
<1> DEFINE n    == Item.n
           nn   == Last_child(n)
           t    == lab[nn].text
           i    == Least({k \in DOMAIN t : t[k] = "{" /\ \A j \in k + 1 .. Len(t) : t[j] # "{"}, 0)
           kept == SubSeq(t, 1, Least({k \in 0 .. i - 1 : \A j \in k + 1 .. i - 1 : t[j] = " "}, 0))
           attrs == Attrs_parse(SubSeq(t, i + 1, Len(t) - 1))
           set  == [lab EXCEPT ![n].more = attrs, ![nn].text = kept]
           Goes ==
             /\ nn # None /\ lab[nn].type = "NORMAL_TEXT"
             /\ \/ Removelast(set, n)
                \/ /\ lab' = set
                   /\ UNCHANGED <<kids, par, nodes, current, depth, held, maxdepth, phase>>
             /\ Go(<<>>) /\ metaq' = metaq
<1>5. Skip(<<>>) \/ Fails("attrs") \/ Goes
  BY Zenon DEF Parse_header_ext_attrs, queues
<1>6. n = Item.n /\ nn = Last_child(n)
  OBVIOUS
<1> HIDE DEF n, nn, attrs, kept
<1> HIDE DEF t, i
<1>7. ASSUME Goes PROVE Sorted
  <2>1. n \in DOMAIN lab /\ lab[n].type = "HEADER"
    BY <1>1, <1>6 DEF Refers
  <2>2. Mild(set) /\ DOMAIN set = DOMAIN lab
    BY <1>1, <1>6, <1>7, <2>1, AttrsMild
  <2> HIDE DEF set
  <2>3. \/ Removelast(set, n)
        \/ lab' = set /\ UNCHANGED <<kids, par, nodes, current, depth, held, maxdepth, phase>>
    BY <1>7
  <2> QED
    BY <1>4, <1>7, <2>1, <2>2, <2>3
<1> HIDE DEF Goes
<1> QED
  BY <1>2, <1>3, <1>5, <1>7

LEMMA BlocksFine == PInv /\ Fitting /\ Block_next => Sorted
BY EmptyFine, HeadersFine, AttrsFine, CodeFine, QuoteFine, AdmonitionFine, ParagraphFine DEF Block_next

-------------------------------------------------------------------------------
(***************************************************************************)
(* Lists and tables.                                                       *)
(***************************************************************************)
\* A function that makes parts is called for what has them.
LEMMA NowPart ==
  ASSUME PInv, Fitting, NEW name, Now(name),
         name \in {"parse_listitem", "list_end", "data", "table_part", "parse_table_row", "table_cell"}
  PROVE  /\ Here /\ Item.do = name /\ phase = "parsing" /\ Fits(Item, lab[current].type)
         /\ current \in DOMAIN lab
         /\ Sure(<<>>, lab[current].type)
<1>1. Here /\ Item.do = name
  BY NowHere DEF Closing
<1> QED
  BY <1>1, HereFits, SureNothing

LEMMA SureEach ==
  ASSUME NEW name, NEW items, NEW k, NEW last, NEW start, NEW fl, NEW type,
         \/ name = "parse_listitem" /\ type \in {"LIST", "DEFINITION_DATA"}
         \/ name = "data" /\ type = "DEFINITION"
  PROVE  Sure(Each(name, items, k, last, start, fl), type)
<1> DEFINE x == [do |-> name, items |-> items, k |-> k, last |-> last, start |-> start, fl |-> fl]
<1>1. x.do = name
  OBVIOUS
<1> HIDE DEF x
<1>2. Sure(<<x>>, type) /\ Sure(<<>>, type)
  BY <1>1, SureOne, SureNothing DEF Fits
<1> QED
  BY <1>2 DEF x, Each

LEMMA SureEnd ==
  ASSUME NEW block, NEW type \in {"LIST", "DEFINITION"}
  PROVE  Sure(<<[do |-> "list_end", block |-> block]>>, type)
<1> DEFINE x == [do |-> "list_end", block |-> block]
<1>1. x.do = "list_end"
  OBVIOUS
<1> HIDE DEF x
<1>2. Sure(<<x>>, type)
  BY <1>1, SureOne DEF Fits
<1> QED
  BY <1>2 DEF x

LEMMA ListFine == PInv /\ Fitting /\ Parse_list => Sorted
<1> SUFFICES ASSUME PInv, Fitting, Parse_list PROVE Sorted
  OBVIOUS
<1>1. /\ Here /\ lab[current].type \in Containers /\ phase = "parsing"
      /\ \A ls : Sure(<<Blocks(ls)>>, lab[current].type)
  BY AtBlock DEF Parse_list
<1>2. PICK items, kind, start, block :
        Open(Label("LIST", <<>>, {kind}, start, 0),
             Each("parse_listitem", items, 1, Len(items), start, {kind})
               \o <<[do |-> "list_end", block |-> block]>>,
             <<Blocks(After(items))>>)
  BY Zenon DEF Parse_list
<1> DEFINE inner == Each("parse_listitem", items, 1, Len(items), start, {kind})
                      \o <<[do |-> "list_end", block |-> block]>>
           l == Label("LIST", <<>>, {kind}, start, 0)
<1>3. Sure(inner, "LIST")
  BY SureEach, SureEnd, SureBoth
<1>4. l.type = "LIST"
  BY LabelIs
<1> HIDE DEF inner, l
<1>5. Open_in(lab, l, inner, <<Blocks(After(items))>>)
  BY <1>2 DEF inner, l, Open
<1>6. Placeable(l)
  BY <1>1, <1>4, BelowContainer
<1> QED
  BY <1>1, <1>3, <1>4, <1>5, <1>6, OpenFine, MildSame DEF Sure

\* Only the label of the current node changes, which is a list.
LEMMA MildCurrent ==
  ASSUME PInv, phase = "parsing", current \in DOMAIN lab, lab[current].type \in {"LIST", "DEFINITION"},
         NEW l, l.type = lab[current].type, l.num = lab[current].num
  PROVE  Mild([lab EXCEPT ![current] = l]) /\ DOMAIN [lab EXCEPT ![current] = l] = DOMAIN lab
<1> DEFINE labels == [lab EXCEPT ![current] = l]
<1>1. \A m \in DOMAIN lab : labels[m] = IF m = current THEN l ELSE lab[m]
  OBVIOUS
<1>2. DOMAIN labels = DOMAIN lab
  OBVIOUS
<1> HIDE DEF labels
<1>3. Alike(current, l)
  BY NotMetas DEF Alike
<1>4. \A m \in DOMAIN lab : Alike(m, lab[m])
  BY DEF Alike
<1>5. Mild(labels)
  BY <1>1, <1>3, <1>4 DEF Mild
<1> QED
  BY <1>2, <1>5 DEF labels

LEMMA CountedMild ==
  ASSUME PInv, phase = "parsing", current \in DOMAIN lab
  PROVE  Mild(Counted)
<1> DEFINE l == [lab[current] EXCEPT !.more = @ + 1]
<1>1. CASE lab[current].type = "LIST"
  <2>1. Counted = [lab EXCEPT ![current] = l]
    BY <1>1 DEF Counted
  <2>2. l.type = lab[current].type /\ l.num = lab[current].num
    BY FieldExcept DEF PInv, Labelled
  <2> HIDE DEF l
  <2> QED
    BY <1>1, <2>1, <2>2, MildCurrent
<1>2. CASE lab[current].type # "LIST"
  BY <1>2, MildSame DEF Counted
<1> QED
  BY <1>1, <1>2

LEMMA ListitemFine == PInv /\ Fitting /\ Parse_listitem => Sorted
<1> SUFFICES ASSUME PInv, Fitting, Parse_listitem PROVE Sorted
  OBVIOUS
<1>1. /\ Here /\ Item.do = "parse_listitem" /\ phase = "parsing" /\ current \in DOMAIN lab
      /\ Fits(Item, lab[current].type)
  BY NowPart DEF Parse_listitem
<1>0. lab[current].type \in {"LIST", "DEFINITION_DATA"}
  BY <1>1 DEF Fits, Block_do, Loose_do
<1> DEFINE it    == Item_of(Item.items, Item.k, Item.start, Item.fl)
           ls    == it.body
           split == IF it.sublist \in 1 .. Len(ls) - 1 THEN it.sublist ELSE Len(ls)
           first == SubSeq(ls, 1, split)
           t     == Flat(first)
           body  == IF it.block THEN Blocks(first) ELSE Inline(t, 1, Len(t) + 1)
           rest  == IF split < Len(ls) THEN <<Blocks(From(ls, split + 1))>> ELSE <<>>
           l == Label("LISTITEM", <<>>, it.fl, it.num, <<>>)
<1>2. Open_in(Counted, l, <<body>> \o rest, Next_item)
  BY Zenon DEF Parse_listitem
<1>3. l.type = "LISTITEM"
  BY LabelIs
<1> HIDE DEF l, split, first, t
<1>4. Sure(<<body>>, "LISTITEM") /\ Sure(rest, "LISTITEM")
  <2>1. /\ \A s : Sure(<<Blocks(s)>>, "LISTITEM")
        /\ \A s, i, e : Sure(<<Inline(s, i, e)>>, "LISTITEM")
        /\ Sure(<<>>, "LISTITEM")
    BY SureBlocks, SureInline, SureNothing DEF Containers, Parted
  <2> QED
    BY <2>1
<1> HIDE DEF body, rest
<1>5. Sure(<<body>> \o rest, "LISTITEM")
  BY <1>4, SureBoth
<1>6. Sure(Next_item, lab[current].type)
  BY <1>0, <1>1, SureEach DEF Next_item
<1> DEFINE labels == Counted
<1>7. Mild(labels)
  BY <1>1, CountedMild
<1> HIDE DEF labels
<1>8. Open_in(labels, l, <<body>> \o rest, Next_item)
  BY <1>2 DEF labels
<1>9. Placeable(l)
  <2>1. Below("LISTITEM", lab[current].type)
    BY <1>0 DEF Below, Wholes
  <2> QED
    BY <1>3, <2>1, PlaceableIf
<1> QED
  BY <1>1, <1>3, <1>5, <1>6, <1>7, <1>8, <1>9, OpenFine DEF Sure

LEMMA ListEndFine == PInv /\ Fitting /\ List_end => Sorted
<1> SUFFICES ASSUME PInv, Fitting, List_end PROVE Sorted
  OBVIOUS
<1>1. /\ Here /\ Item.do = "list_end" /\ phase = "parsing" /\ current \in DOMAIN lab
      /\ Fits(Item, lab[current].type) /\ Sure(<<>>, lab[current].type)
  BY NowPart DEF List_end
<1>0. lab[current].type \in {"LIST", "DEFINITION"}
  BY <1>1 DEF Fits, Block_do, Loose_do
<1>2. CASE Skip(<<>>)
  BY <1>1, <1>2, SkipFine
<1>3. ASSUME NEW fl, Relabel(current, [lab[current] EXCEPT !.fl = fl]), Go(<<>>), metaq' = metaq
      PROVE  Sorted
  <2> DEFINE l == [lab[current] EXCEPT !.fl = fl]
             labels == [lab EXCEPT ![current] = l]
  <2>1. /\ lab' = labels
        /\ UNCHANGED <<kids, par, nodes, current, depth, held, maxdepth, phase>>
    BY <1>3 DEF Relabel
  <2>2. l.type = lab[current].type /\ l.num = lab[current].num
    BY <1>1, FieldExcept DEF PInv, Labelled
  <2> HIDE DEF l
  <2>3. Mild(labels) /\ DOMAIN labels = DOMAIN lab
    BY <1>0, <1>1, <2>2, MildCurrent
  <2> HIDE DEF labels
  <2>4. Sane(<<>>, lab[current].type, lab')
    BY SaneNothing
  <2> QED
    BY <1>1, <1>3, <2>1, <2>3, <2>4, AltersFine
<1>4. \/ Skip(<<>>)
      \/ /\ Relabel(current, [lab[current] EXCEPT !.fl = lab[current].fl \cup {"BLOCK"}])
         /\ Go(<<>>) /\ metaq' = metaq
  BY DEF List_end, queues
<1> QED
  BY <1>2, <1>3, <1>4

LEMMA DataFine == PInv /\ Fitting /\ Definition_data => Sorted
<1> SUFFICES ASSUME PInv, Fitting, Definition_data PROVE Sorted
  OBVIOUS
<1>1. /\ Here /\ Item.do = "data" /\ Fits(Item, lab[current].type)
  BY NowPart DEF Definition_data
<1>0. lab[current].type = "DEFINITION"
  BY <1>1 DEF Fits, Block_do, Loose_do
<1> DEFINE inner == IF Item.k > Len(Item.items) THEN <<>>
                    ELSE Each("parse_listitem", Item.items, Item.k, Item.k, Item.start, Item.fl)
           l == Node("DEFINITION_DATA")
<1>2. Open_in(lab, l, inner, Next_item)
  BY DEF Definition_data, Open
<1>3. Sure(inner, "DEFINITION_DATA") /\ Sure(Next_item, lab[current].type)
  BY <1>0, <1>1, SureEach, SureNothing DEF Next_item
<1> HIDE DEF inner
<1>4. l.type = "DEFINITION_DATA"
  BY NodeIs
<1> HIDE DEF l
<1>5. Placeable(l)
  <2>1. Below("DEFINITION_DATA", lab[current].type)
    BY <1>0 DEF Below, Wholes
  <2> QED
    BY <1>4, <2>1, PlaceableIf
<1> QED
  BY <1>1, <1>2, <1>3, <1>4, <1>5, OpenFine, MildSame DEF Sure


LEMMA DefinitionFine == PInv /\ Fitting /\ Parse_definition => Sorted
<1> SUFFICES ASSUME PInv, Fitting, Parse_definition PROVE Sorted
  OBVIOUS
<1>1. /\ Here /\ lab[current].type \in Containers /\ phase = "parsing"
      /\ \A ls : Sure(<<Blocks(ls)>>, lab[current].type)
  BY AtBlock DEF Parse_definition
<1> DEFINE prev == IF Len(kids[current]) > 1 THEN kids[current][Len(kids[current]) - 1] ELSE None
<1>2. PICK items, fl, block :
        \/ Fails("depth")
        \/ /\ \/ prev # None /\ Retitle(prev)
              \/ Entitle(Label("DEFINITION", <<>>, fl, 0, <<>>))
           /\ work' = Append(Instead(<<Blocks(After(items))>>),
                             Definitions(items, fl) \o <<[do |-> "list_end", block |-> block]>>)
           /\ metaq' = metaq
  BY Zenon DEF Parse_definition, queues
<1> DEFINE inner == Definitions(items, fl) \o <<[do |-> "list_end", block |-> block]>>
           follow == <<Blocks(After(items))>>
           l == Label("DEFINITION", <<>>, fl, 0, <<>>)
<1>3. Sure(inner, "DEFINITION") /\ Sure(follow, lab[current].type)
  BY <1>1, SureEach, SureEnd, SureBoth DEF Definitions
<1> HIDE DEF inner, follow
<1>4. CASE Fails("depth")
  BY <1>4, FailsFine
<1>5. ASSUME Enlist, phase' = phase, work' = Append(Instead(follow), inner), metaq' = metaq PROVE Sorted
  <2>1. Lists(inner, follow)
    BY <1>1, <1>3, <1>5 DEF Lists, Sure
  <2> QED
    BY <1>1, <1>5, <2>1 DEF Sorted, Fine
<1>6. ASSUME prev # None, Retitle(prev) PROVE Enlist /\ phase' = phase
  <2>1. prev = kids[current][Len(kids[current]) - 1] /\ Len(kids[current]) > 1
    BY <1>6
  <2>2. prev \in DOMAIN lab
    <3>1. current \in DOMAIN kids /\ kids[current] \in Seq(DOMAIN kids) /\ DOMAIN kids = DOMAIN lab
      BY <1>1, Facts, HereFits DEF PInv, IInv, TTypeOK
    <3> QED
      BY <2>1, <3>1, LenProperties, ElementOfSeq
  <2> HIDE DEF prev
  <2> QED
    BY <1>6, <2>2 DEF Enlist, Retitle
<1> HIDE DEF prev
<1>7. ASSUME Entitle(l) PROVE Enlist /\ phase' = phase
  <2> HIDE DEF l
  <2>1. nodes \in DOMAIN lab' /\ lab'[nodes] = l /\ phase' = phase
    BY <1>7 DEF Entitle
  <2> QED
    BY <1>7, <2>1 DEF Enlist
<1> QED
  BY <1>2, <1>4, <1>5, <1>6, <1>7 DEF inner, follow

LEMMA ListsFine == PInv /\ Fitting /\ List_next => Sorted
BY ListFine, ListitemFine, ListEndFine, DefinitionFine, DataFine DEF List_next

-------------------------------------------------------------------------------
LEMMA SureRows ==
  ASSUME NEW rows, NEW type \in {"TABLE_HEADER", "TABLE_BODY"}
  PROVE  Sure(Rows(rows), type)
<1> DEFINE x == [do |-> "parse_table_row", rows |-> rows]
<1>1. x.do = "parse_table_row"
  OBVIOUS
<1> HIDE DEF x
<1>2. Sure(<<x>>, type) /\ Sure(<<>>, type)
  BY <1>1, SureOne, SureNothing DEF Fits
<1> QED
  BY <1>2 DEF x, Rows

LEMMA SureCells ==
  ASSUME NEW row, NEW cells, NEW col
  PROVE  Sure(Cells(row, cells, col), "TABLE_ROW")
<1> DEFINE x == [do |-> "table_cell", row |-> row, cells |-> cells, col |-> col]
<1>1. x.do = "table_cell"
  OBVIOUS
<1> HIDE DEF x
<1>2. Sure(<<x>>, "TABLE_ROW") /\ Sure(<<>>, "TABLE_ROW")
  BY <1>1, SureOne, SureNothing DEF Fits
<1> QED
  BY <1>2 DEF x, Cells

LEMMA SureTwo ==
  ASSUME NEW x, NEW y, NEW type, Fits(x, type), Fits(y, type),
         x.do \notin {"parse_header_ext_attrs", "admonition"},
         y.do \notin {"parse_header_ext_attrs", "admonition"}
  PROVE  Sure(<<x, y>>, type)
<1> DEFINE s == <<x, y>>
<1>1. s \in Seq({x, y}) /\ Len(s) = 2 /\ s[1] = x /\ s[2] = y
  OBVIOUS
<1> HIDE DEF s
<1>2. ASSUME NEW labels PROVE Sane(s, type, labels)
  <2>1. Refers(x, labels) /\ Refers(y, labels)
    BY DEF Refers
  <2>2. \A j \in 1 .. Len(s) : Fits(s[j], type) /\ Refers(s[j], labels)
    BY <1>1, <2>1
  <2> QED
    BY <1>1, <2>2 DEF Sane
<1> QED
  BY <1>2 DEF Sure, s

LEMMA TableFine == PInv /\ Fitting /\ Parse_table => Sorted
<1> SUFFICES ASSUME PInv, Fitting, Parse_table PROVE Sorted
  OBVIOUS
<1>1. /\ Here /\ lab[current].type \in Containers /\ phase = "parsing"
      /\ \A ls : Sure(<<Blocks(ls)>>, lab[current].type)
  BY AtBlock DEF Parse_table
<1>2. PICK num, head, body, ls :
        Open(Label("TABLE_BLOCK", <<>>, {}, num, <<>>),
             <<[do |-> "table_part", header |-> TRUE, rows |-> head],
               [do |-> "table_part", header |-> FALSE, rows |-> body]>>,
             <<Blocks(ls)>>)
  BY Zenon DEF Parse_table
<1> DEFINE x == [do |-> "table_part", header |-> TRUE, rows |-> head]
           y == [do |-> "table_part", header |-> FALSE, rows |-> body]
           l == Label("TABLE_BLOCK", <<>>, {}, num, <<>>)
<1>3. x.do = "table_part" /\ y.do = "table_part"
  OBVIOUS
<1>4. l.type = "TABLE_BLOCK"
  BY LabelIs
<1>5. Open_in(lab, l, <<x, y>>, <<Blocks(ls)>>)
  BY <1>2 DEF Open
<1> HIDE DEF x, y, l
<1>6. Sure(<<x, y>>, "TABLE_BLOCK")
  BY <1>3, SureTwo DEF Fits
<1>7. Placeable(l)
  BY <1>1, <1>4, BelowContainer
<1> QED
  BY <1>1, <1>4, <1>5, <1>6, <1>7, OpenFine, MildSame DEF Sure

LEMMA PartFine == PInv /\ Fitting /\ Table_part => Sorted
<1> SUFFICES ASSUME PInv, Fitting, Table_part PROVE Sorted
  OBVIOUS
<1>1. Here /\ Item.do = "table_part" /\ Fits(Item, lab[current].type) /\ Sure(<<>>, lab[current].type)
  BY NowPart DEF Table_part
<1>2. lab[current].type = "TABLE_BLOCK"
  BY <1>1 DEF Fits, Block_do, Loose_do
<1>3. PICK type \in {"TABLE_HEADER", "TABLE_BODY"} : Open_in(lab, Node(type), Rows(Item.rows), <<>>)
  BY DEF Table_part, Open
<1>4. Node(type).type = type
  BY NodeIs
<1>5. Placeable(Node(type))
  <2>1. Below(type, "TABLE_BLOCK")
    BY DEF Below, Wholes
  <2> QED
    BY <1>2, <1>4, <2>1, PlaceableIf
<1>6. Sure(Rows(Item.rows), type)
  BY SureRows
<1> QED
  BY <1>1, <1>3, <1>4, <1>5, <1>6, OpenFine, MildSame DEF Sure

LEMMA RowFine == PInv /\ Fitting /\ Parse_table_row => Sorted
<1> SUFFICES ASSUME PInv, Fitting, Parse_table_row PROVE Sorted
  OBVIOUS
<1>1. Here /\ Item.do = "parse_table_row" /\ Fits(Item, lab[current].type)
  BY NowPart DEF Parse_table_row
<1>2. lab[current].type \in {"TABLE_HEADER", "TABLE_BODY"}
  BY <1>1 DEF Fits, Block_do, Loose_do
<1>3. PICK row, cells, rows : Open_in(lab, Node("TABLE_ROW"), Cells(row, cells, 1), Rows(rows))
  BY Zenon DEF Parse_table_row, Open
<1>4. Node("TABLE_ROW").type = "TABLE_ROW"
  BY NodeIs
<1>5. Placeable(Node("TABLE_ROW"))
  <2>1. Below("TABLE_ROW", lab[current].type)
    BY <1>2 DEF Below, Wholes
  <2> QED
    BY <1>4, <2>1, PlaceableIf
<1>6. Sure(Cells(row, cells, 1), "TABLE_ROW") /\ Sure(Rows(rows), lab[current].type)
  BY <1>2, SureRows, SureCells
<1> QED
  BY <1>1, <1>3, <1>4, <1>5, <1>6, OpenFine, MildSame DEF Sure

LEMMA CellFine == PInv /\ Fitting /\ Table_cell => Sorted
<1> SUFFICES ASSUME PInv, Fitting, Table_cell PROVE Sorted
  OBVIOUS
<1>1. Here /\ Item.do = "table_cell" /\ Fits(Item, lab[current].type)
  BY NowPart DEF Table_cell
<1>2. lab[current].type = "TABLE_ROW"
  BY <1>1 DEF Fits, Block_do, Loose_do
<1> DEFINE inner == IF Item.col > Len(Item.cells) THEN <<>>
                    ELSE <<Inline(Row_text(Item.row), Item.cells[Item.col].from, Item.cells[Item.col].to)>>
           follow == Cells(Item.row, Item.cells, Item.col + 1)
           l == Label("TABLE_CELL", <<>>, Item.row.flags[Item.col] \cup Item.row.header,
                      Item.col - 1, <<>>)
<1>3. Open_in(lab, l, inner, follow)
  BY Zenon DEF Table_cell, Open
<1>4. Sure(inner, "TABLE_CELL") /\ Sure(follow, lab[current].type)
  BY <1>2, SureInline, SureNothing, SureCells DEF Parted
<1>5. l.type = "TABLE_CELL"
  BY LabelIs
<1> HIDE DEF inner, follow, l
<1>6. Placeable(l)
  <2>1. Below("TABLE_CELL", lab[current].type)
    BY <1>2 DEF Below, Wholes
  <2> QED
    BY <1>5, <2>1, PlaceableIf
<1> QED
  BY <1>1, <1>3, <1>4, <1>5, <1>6, OpenFine, MildSame DEF Sure

LEMMA TablesFine == PInv /\ Fitting /\ Table_next => Sorted
BY TableFine, PartFine, RowFine, CellFine DEF Table_next

-------------------------------------------------------------------------------
(***************************************************************************)
(* Text and what is in it.                                                 *)
(***************************************************************************)
\* What goes on with the text fits where the text did.
LEMMA NowText ==
  ASSUME PInv, Fitting, Now("parse_inline")
  PROVE  /\ Here /\ Item.do = "parse_inline" /\ phase = "parsing"
         /\ lab[current].type \notin Parted
         /\ Sure(<<>>, lab[current].type)
         /\ Sure(<<Passed>>, lab[current].type)
         /\ \A end : Sure(<<From_end(end)>>, lab[current].type)
<1>1. /\ Here /\ Item.do = "parse_inline" /\ phase = "parsing" /\ lab[current].type \notin Parted
  BY InlineHere, HereFits, InLoose DEF Loose_do
<1>2. {"do", "offset"} \subseteq DOMAIN Item
  BY <1>1, InlineIs
<1>3. ASSUME NEW x, x.do = "parse_inline" PROVE Sure(<<x>>, lab[current].type)
  BY <1>1, <1>3, SureOne DEF Fits, Loose_do
<1>4. Passed.do = "parse_inline" /\ \A end : From_end(end).do = "parse_inline"
  BY <1>1, <1>2 DEF Passed, From_end
<1> QED
  BY <1>1, <1>3, <1>4, SureNothing

\* What is not a block may come wherever text does.
LEMMA PlaceableInText ==
  ASSUME lab[current].type \notin Parted,
         NEW l, l.type \notin {"ROOT", "META", "DOC_HEADER", "DEFINITION_TITLE", "NORMAL_TEXT",
                               "LISTITEM", "DEFINITION_DATA"} \cup Wholes
  PROVE  Placeable(l)
<1>1. Below(l.type, lab[current].type)
  BY DEF Below, Parted
<1> QED
  BY <1>1, PlaceableIf

LEMMA TextFine == PInv /\ Fitting /\ Inline_text => Sorted
<1> SUFFICES ASSUME PInv, Fitting, Inline_text PROVE Sorted
  OBVIOUS
<1> DEFINE k == Active_at
           x == [Item EXCEPT !.i = k, !.end = k, !.offset = @ + k - Item.i]
<1>1. Here /\ Item.do = "parse_inline" /\ lab[current].type \notin Parted
  BY NowText DEF Inline_text
<1>2. Say({}, SubSeq(Item.s, Item.i, k - 1), <<x>>)
  BY DEF Inline_text
<1>3. {"do", "offset"} \subseteq DOMAIN Item
  BY <1>1, InlineIs
<1>4. x.do = "parse_inline"
  BY <1>1, <1>3
<1> HIDE DEF x, k
<1>5. Sure(<<x>>, lab[current].type)
  BY <1>1, <1>4, SureOne DEF Fits, Loose_do
<1> QED
  BY <1>1, <1>2, <1>5, SayFine

LEMMA ClosingFine == PInv /\ Fitting /\ (Foot_end \/ Link_body_end) => Sorted
<1>1. ASSUME PInv, phase = "parsing", Go(<<>>), UNCHANGED tvars, metaq' = metaq PROVE Sorted
  BY <1>1, SureNothing, StaysFine DEF tvars
<1>2. ASSUME PInv, Foot_end PROVE Sorted
  <2>1. CASE in_footnote
    BY <1>1, <1>2, <2>1 DEF Foot_end, Asserting, Now, queues
  <2>2. CASE ~in_footnote
    BY <1>2, <2>2 DEF Foot_end, Asserting, Aborted, Sorted, Gone
  <2> QED
    BY <2>1, <2>2
<1>3. ASSUME PInv, Link_body_end PROVE Sorted
  BY <1>1, <1>3 DEF Link_body_end, Now, queues
<1> QED
  BY <1>2, <1>3

LEMMA InlinesFine == PInv /\ Fitting /\ Inline_next => Sorted
<1>1. ASSUME PInv, Fitting, Inline_end PROVE Sorted
  BY <1>1, NowText, SkipFine DEF Inline_end
<1> QED
  BY <1>1, TextFine, ClosingFine DEF Inline_next

LEMMA ShortenedMild == ASSUME PInv, Here, Fitting, NEW cut PROVE Mild(Shortened(cut))
<1> DEFINE n == Last_child(current)
           t == SubSeq(lab[n].text, 1, Max({0, Len(lab[n].text) - cut}))
<1>1. CASE n = None \/ lab[n].type # "NORMAL_TEXT"
  BY <1>1, MildSame DEF Shortened
<1>2. CASE n # None /\ lab[n].type = "NORMAL_TEXT"
  <2>1. Shortened(cut) = [lab EXCEPT ![n] = [lab[n] EXCEPT !.text = t]]
    BY <1>2 DEF Shortened
  <2> HIDE DEF t
  <2>2. Mild([lab EXCEPT ![n] = [lab[n] EXCEPT !.text = t]])
    BY <1>2, MildText
  <2> QED
    BY <2>1, <2>2
<1> QED
  BY <1>1, <1>2

LEMMA SpansFine == PInv /\ Fitting /\ Span_next => Sorted
<1> SUFFICES ASSUME PInv, Fitting, NEW span \in Spans,
                    \/ Span_nothing(span) \/ Span_skip(span) \/ Span_wrap(span) \/ Span_leaf(span)
                    \/ Char_linebreak_does(span) \/ Char_autolink(span)
             PROVE  Sorted
  BY DEF Span_next
<1>1. /\ Active_is(Active \ Brackets)
      /\ span = Span(Item.s, Item.offset, Item.i, Item.e, in_link_body)
  BY DEF Spans
<1>2. Now("parse_inline") /\ Item.s[Item.i] \in Active \ Brackets
  BY <1>1 DEF Active_is
<1>3. Spanned(span, Item.offset)
  BY <1>1, <1>2, SpanKind
<1>4. /\ Here /\ Item.do = "parse_inline" /\ phase = "parsing"
      /\ lab[current].type \notin Parted
      /\ Sure(<<Passed>>, lab[current].type)
      /\ \A end : Sure(<<From_end(end)>>, lab[current].type)
  BY <1>2, NowText
<1>5. CASE Span_nothing(span)
  BY <1>4, <1>5, SkipFine DEF Span_nothing
<1>6. CASE Span_skip(span)
  BY <1>4, <1>6, SkipFine DEF Span_skip
<1>7. CASE Span_wrap(span)
  <2>1. span.type \in Wraps
    BY <1>3, <1>7 DEF Span_wrap, Spanned
  <2>2. Open_in(lab, Node(span.type), <<Inline(Item.s, span.from, span.to)>>, <<From_end(span.end)>>)
    BY <1>7 DEF Span_wrap, Open
  <2> DEFINE l == Node(span.type)
  <2>3. l.type \in Wraps
    BY <2>1, NodeIs
  <2> HIDE DEF l
  <2>4. Placeable(l)
    BY <1>4, <2>3, PlaceableInText DEF Wraps, Wholes
  <2>5. Sure(<<Inline(Item.s, span.from, span.to)>>, l.type)
    BY <2>3, SureInline DEF Wraps, Parted
  <2>6. Open_in(lab, l, <<Inline(Item.s, span.from, span.to)>>, <<From_end(span.end)>>)
    BY <2>2 DEF l
  <2> QED
    BY <1>4, <2>4, <2>5, <2>6, OpenFine, MildSame DEF Sure
<1>8. CASE Span_leaf(span)
  <2>1. span.type \in Atoms
    BY <1>3, <1>8 DEF Span_leaf, Spanned
  <2> DEFINE l == Label(span.type, span.text, {}, 0, <<>>)
  <2>2. l.type = span.type
    BY LabelIs
  <2>3. \/ Say({}, span.text, <<From_end(span.end)>>)
        \/ Say({"ESCAPED"}, span.text, <<From_end(span.end)>>)
        \/ span.type # "NORMAL_TEXT" /\ Leaf_in(lab, l, <<From_end(span.end)>>)
    BY <1>8 DEF Span_leaf, Put
  <2> HIDE DEF l
  <2>4. CASE span.type # "NORMAL_TEXT" /\ Leaf_in(lab, l, <<From_end(span.end)>>)
    <3>1. Placeable(l)
      BY <1>4, <2>1, <2>2, <2>4, PlaceableInText DEF Atoms, Wholes
    <3> QED
      BY <1>4, <2>4, <3>1, LeafFine, MildSame
  <2> QED
    BY <1>4, <2>3, <2>4, SayFine
<1>9. CASE Char_linebreak_does(span)
  <2>1. \/ phase' = "aborted"
        \/ \E cut : Leaf_in(Shortened(cut), Node("LINEBREAK"), <<From_end(span.end)>>)
    BY <1>9, Zenon DEF Char_linebreak_does, Asserting, Aborted
  <2>2. ASSUME NEW cut, Leaf_in(Shortened(cut), Node("LINEBREAK"), <<From_end(span.end)>>)
        PROVE  Sorted
    <3> DEFINE l == Node("LINEBREAK")
    <3>1. l.type = "LINEBREAK"
      BY NodeIs
    <3> HIDE DEF l
    <3>2. Placeable(l)
      BY <1>4, <3>1, PlaceableInText DEF Wholes
    <3>3. Leaf_in(Shortened(cut), l, <<From_end(span.end)>>)
      BY <2>2 DEF l
    <3> QED
      BY <1>4, <3>2, <3>3, ShortenedMild, LeafFine
  <2> QED
    BY <2>1, <2>2 DEF Sorted, Gone
<1>10. CASE Char_autolink(span)
  <2> DEFINE l == Label("LINK_AUTO", span.text, {span.type}, 0, <<>>)
             labels == IF span.rewind = -1 THEN lab ELSE Shortened(span.rewind)
  <2>1. l.type = "LINK_AUTO"
    BY LabelIs
  <2>2. Mild(labels)
    BY <1>4, ShortenedMild, MildSame
  <2>3. Leaf_in(labels, l, <<From_end(span.end)>>)
    BY <1>10 DEF Char_autolink
  <2> HIDE DEF l, labels
  <2>4. Placeable(l)
    BY <1>4, <2>1, PlaceableInText DEF Wholes
  <2> QED
    BY <1>4, <2>2, <2>3, <2>4, LeafFine
<1> QED
  BY <1>5, <1>6, <1>7, <1>8, <1>9, <1>10

LEMMA FootnoteFine == ASSUME PInv, Fitting, NEW link \in Links, Link_footnote(link) PROVE Sorted
<1>1. Now("parse_inline")
  BY DEF Links, Active_is
<1>2. /\ Here /\ phase = "parsing" /\ lab[current].type \notin Parted
      /\ \A end : Sure(<<From_end(end)>>, lab[current].type)
  BY <1>1, NowText
<1>3. CASE TooDeep(depth)
  BY <1>3, FailsFine DEF Link_footnote
<1>4. CASE ~TooDeep(depth) /\ in_footnote
  BY <1>4 DEF Link_footnote, Asserting, Aborted, Sorted, Gone
<1>5. CASE ~TooDeep(depth) /\ ~in_footnote
  <2> DEFINE l == Label("FOOTNOTE", <<>>, {}, foots + 1, <<>>)
             x == Blocks(footq[link.with].contents)
             y == Do("foot_end")
  <2>1. Opens(lab, l, <<x, y>>, <<From_end(link.end)>>) /\ metaq' = metaq
    BY <1>5 DEF Link_footnote, Asserting
  <2>2. l.type = "FOOTNOTE" /\ x.do = "parse_block" /\ y.do = "foot_end"
    BY LabelIs DEF Blocks, Do
  <2> HIDE DEF l, x, y
  <2>3. Sure(<<x, y>>, l.type)
    BY <2>2, SureTwo DEF Fits, Containers, Parted, Block_do, Loose_do
  <2>4. Placeable(l)
    BY <1>2, <2>2, PlaceableInText DEF Wholes
  <2> QED
    BY <1>2, <2>1, <2>3, <2>4, OpensFine, MildSame DEF Sure
<1> QED
  BY <1>3, <1>4, <1>5

LEMMA BodyFine == ASSUME PInv, Fitting, NEW link \in Links, Link_link(link) PROVE Sorted
<1>1. Now("parse_inline")
  BY DEF Links, Active_is
<1>2. /\ Here /\ phase = "parsing" /\ lab[current].type \notin Parted
      /\ \A end : Sure(<<From_end(end)>>, lab[current].type)
  BY <1>1, NowText
<1>3. CASE TooDeep(depth)
  BY <1>3, FailsFine DEF Link_link
<1>4. CASE ~TooDeep(depth)
  <2> DEFINE l == Link_label(link, <<>>)
             empty == link.body.from = link.body.to
             x == Inline(Item.s, link.body.from, link.body.to)
             y == Do("link_end")
             inner == IF empty THEN <<>> ELSE <<x, y>>
  <2>1. Opens(lab, l, inner, <<From_end(link.end)>>) /\ metaq' = metaq
    BY <1>4 DEF Link_link, queues
  <2>2. l.type = "LINK" /\ x.do = "parse_inline" /\ y.do = "link_end"
    BY LabelIs DEF Link_label, Link_link, Link_does, Inline, Do
  <2> HIDE DEF l, x, y, empty
  <2>3. Sure(<<x, y>>, l.type) /\ Sure(<<>>, l.type)
    BY <2>2, SureTwo, SureNothing DEF Fits, Parted, Loose_do
  <2>4. Sure(inner, l.type)
    BY <2>3
  <2> HIDE DEF inner
  <2>5. Placeable(l)
    BY <1>2, <2>2, PlaceableInText DEF Wholes
  <2> QED
    BY <1>2, <2>1, <2>4, <2>5, OpensFine, MildSame DEF Sure
<1> QED
  BY <1>3, <1>4

LEMMA LinksFine == PInv /\ Fitting /\ Link_next => Sorted
<1> SUFFICES ASSUME PInv, Fitting, NEW link \in Links,
                    \/ Char_image_mark(link) \/ Link_nothing(link) \/ Link_skip(link)
                    \/ Link_text(link) \/ Link_fail(link) \/ Link_footnote(link)
                    \/ Link_image(link) \/ Link_link(link)
             PROVE  Sorted
  BY DEF Link_next
<1>1. Now("parse_inline")
  BY DEF Links, Active_is
<1>2. /\ Here /\ Item.do = "parse_inline" /\ phase = "parsing"
      /\ lab[current].type \notin Parted
      /\ Sure(<<Passed>>, lab[current].type)
      /\ \A end : Sure(<<From_end(end)>>, lab[current].type)
  BY <1>1, NowText
<1>3. CASE Char_image_mark(link)
  <2> DEFINE x == [Item EXCEPT !.bang = TRUE]
  <2>1. {"do", "offset"} \subseteq DOMAIN Item
    BY <1>2, InlineIs
  <2>2. x.do = "parse_inline"
    BY <1>2, <2>1
  <2>3. Say({}, <<"!">>, <<x>>)
    BY <1>3 DEF Char_image_mark
  <2> HIDE DEF x
  <2>4. Sure(<<x>>, lab[current].type)
    BY <1>2, <2>2, SureOne DEF Fits, Loose_do
  <2> QED
    BY <1>2, <2>3, <2>4, SayFine
<1>4. CASE Link_nothing(link)
  BY <1>2, <1>4, SkipFine DEF Link_nothing
<1>5. CASE Link_skip(link)
  BY <1>2, <1>5, SkipFine DEF Link_skip
<1>6. CASE Link_text(link)
  BY <1>2, <1>6, SayFine DEF Link_text
<1>7. CASE Link_fail(link)
  BY <1>7, FailsFine DEF Link_fail
<1>8. CASE Link_footnote(link)
  BY <1>8, FootnoteFine
<1>9. CASE Link_image(link)
  <2> DEFINE l == Link_label(link, SubSeq(Item.s, link.body.from, link.body.to - 1))
  <2>1. l.type = "IMAGE"
    BY <1>9, LabelIs DEF Link_label, Link_image, Link_does
  <2>2. Leaf_in(lab, l, <<From_end(link.end)>>)
    BY <1>9 DEF Link_image, Put
  <2> HIDE DEF l
  <2>3. Placeable(l)
    BY <1>2, <2>1, PlaceableInText DEF Wholes
  <2> QED
    BY <1>2, <2>2, <2>3, LeafFine, MildSame
<1>10. CASE Link_link(link)
  BY <1>10, BodyFine
<1> QED
  BY <1>3, <1>4, <1>5, <1>6, <1>7, <1>8, <1>9, <1>10

(***************************************************************************)
(* Every step that parses does one of these.                               *)
(***************************************************************************)
Parses == Gather_next \/ Block_next \/ List_next \/ Table_next \/ Inline_next \/ Span_next \/ Link_next

LEMMA ParsesFine == PInv /\ Fitting /\ Parses => Sorted
BY GatherFine, BlocksFine, ListsFine, TablesFine, InlinesFine, SpansFine, LinksFine DEF Parses

-------------------------------------------------------------------------------
(***************************************************************************)
(* What is left to do fits the nodes it is left for, after every step.     *)
(***************************************************************************)
\* A step that parses has something to do that is not of the header.
Does(name) == Now(name) /\ name \notin {"header", "add_metadata"}

LEMMA BlocksDo == Block_next => \E name : Does(name)
<1>1. ASSUME NEW block, At(block) PROVE Does("parse_block")
  BY <1>1 DEF At, Does
<1>2. Return \/ Empty_line \/ Hrule \/ Parse_atxheader => Does("parse_block")
  BY <1>1, Zenon DEF Return, Empty_line, Hrule, Parse_atxheader, Does
<1>3. Parse_header_ext_attrs => Does("parse_header_ext_attrs")
  BY DEF Parse_header_ext_attrs, Does
<1>4. Parse_htmlblock \/ Parse_fencedcode \/ Parse_blockcode \/ Parse_blockquote => Does("parse_block")
  BY <1>1, Zenon DEF Parse_htmlblock, Parse_fencedcode, Parse_blockcode, Parse_blockquote
<1>5. Admonition => Does("admonition")
  BY DEF Admonition, Does
<1>6. Parse_paragraph => Does("parse_block")
  BY <1>1, Zenon DEF Parse_paragraph
<1>7. Header_line => Does("header_line")
  BY DEF Header_line, Does
<1> QED
  BY <1>2, <1>3, <1>4, <1>5, <1>6, <1>7 DEF Block_next

LEMMA ListsDo == List_next => \E name : Does(name)
<1>1. ASSUME NEW block, At(block) PROVE Does("parse_block")
  BY <1>1 DEF At, Does
<1>2. Parse_list => Does("parse_block")
  BY <1>1, Zenon DEF Parse_list
<1>3. Parse_listitem => Does("parse_listitem")
  BY DEF Parse_listitem, Does
<1>4. List_end => Does("list_end")
  BY DEF List_end, Does
<1>5. Parse_definition => Does("parse_block")
  BY <1>1, Zenon DEF Parse_definition
<1>6. Definition_data => Does("data")
  BY DEF Definition_data, Does
<1> QED
  BY <1>2, <1>3, <1>4, <1>5, <1>6 DEF List_next

LEMMA TablesDo == Table_next => \E name : Does(name)
<1>1. ASSUME NEW block, At(block) PROVE Does("parse_block")
  BY <1>1 DEF At, Does
<1>2. Parse_table => Does("parse_block")
  BY <1>1, Zenon DEF Parse_table
<1>3. Table_part => Does("table_part")
  BY DEF Table_part, Does
<1>4. Parse_table_row => Does("parse_table_row")
  BY DEF Parse_table_row, Does
<1>5. Table_cell => Does("table_cell")
  BY DEF Table_cell, Does
<1> QED
  BY <1>2, <1>3, <1>4, <1>5 DEF Table_next

LEMMA TextDoes == Gather_next \/ Inline_next \/ Span_next \/ Link_next => \E name : Does(name)
<1>1. Gather_next => Does("gather")
  BY DEF Gather_next, Gather_footnote, Gather_ref, Gather_line, Gather_done, More, Does
<1>2. Inline_next => Does("parse_inline") \/ Does("foot_end") \/ Does("link_end")
  BY DEF Inline_next, Inline_text, Inline_end, Foot_end, Link_body_end, Does
<1>3. Span_next => Does("parse_inline")
  <2>1. Span_next => Spans # {}
    BY DEF Span_next
  <2> QED
    BY <2>1 DEF Spans, Active_is, Does
<1>4. Link_next => Does("parse_inline")
  <2>1. Link_next => Links # {}
    BY DEF Link_next
  <2> QED
    BY <2>1 DEF Links, Active_is, Does
<1> QED
  BY <1>1, <1>2, <1>3, <1>4

\* Where that is: not where the header is made.
LEMMA ParsesAt ==
  ASSUME PInv, Fitting, Parses
  PROVE  /\ phase = "parsing" /\ work # <<>> /\ work[Len(work)] # <<>> /\ Working
         /\ lab[current].type # "DOC_HEADER"
<1>1. PICK name : Does(name)
  BY BlocksDo, ListsDo, TablesDo, TextDoes DEF Parses
<1>2. /\ phase = "parsing" /\ work # <<>> /\ work[Len(work)] # <<>> /\ Working
      /\ Item = work[Len(work)][1] /\ Item.do \notin {"header", "add_metadata"}
  BY <1>1, ItemIs, HereIs DEF Does
<1>3. Fits(Item, lab[current].type)
  BY <1>2, ItemFits
<1> QED
  BY <1>2, <1>3 DEF Fits, Containers, Parted
-------------------------------------------------------------------------------
Fitted(w, h, l) ==
  \A i \in 1 .. Len(w) : \A j \in 1 .. Len(w[i]) : Fits(w[i][j], l[h[i]].type) /\ Refers(w[i][j], l)

\* Labels change, and nodes go that nothing refers to.
LEMMA FittedRelabelled ==
  ASSUME NEW w, NEW h, NEW l, NEW m, Len(w) = Len(h), Fitted(w, h, l),
         \A i \in 1 .. Len(h) : m[h[i]].type = l[h[i]].type,
         \A n \in DOMAIN l : l[n].type \in {"HEADER", "BLOCKQUOTE"} =>
           n \in DOMAIN m /\ m[n].type = l[n].type
  PROVE  Fitted(w, h, m)
<1> SUFFICES ASSUME NEW i \in 1 .. Len(w), NEW j \in 1 .. Len(w[i])
             PROVE  Fits(w[i][j], m[h[i]].type) /\ Refers(w[i][j], m)
  BY DEF Fitted
<1>1. Fits(w[i][j], l[h[i]].type) /\ Refers(w[i][j], l) /\ m[h[i]].type = l[h[i]].type
  BY DEF Fitted
<1>2. Fits(w[i][j], m[h[i]].type)
  BY <1>1
<1>3. Refers(w[i][j], m)
  BY <1>1 DEF Refers
<1> QED
  BY <1>2, <1>3

LEMMA FittedReplaced ==
  ASSUME NEW S, NEW w \in Seq(Seq(S)), w # <<>>, w[Len(w)] # <<>>,
         NEW h, NEW l, Fitted(w, h, l), NEW items, Sane(items, l[h[Len(w)]].type, l)
  PROVE  Fitted(Replaced(w, items), h, l)
<1>1. PICK T : /\ items \in Seq(T)
               /\ \A j \in 1 .. Len(items) : Fits(items[j], l[h[Len(w)]].type) /\ Refers(items[j], l)
  BY DEF Sane
<1> DEFINE u == Replaced(w, items)
           n == Len(w)
<1>2. Replacing(w, items, u)
  BY <1>1, ReplacedSeq
<1> HIDE DEF u
<1>3. /\ n \in Nat \ {0} /\ Len(u) = n /\ \A i \in 1 .. n - 1 : u[i] = w[i]
      /\ Len(items) \in Nat /\ Len(w[n]) \in Nat \ {0}
      /\ Len(u[n]) = Len(items) + Len(w[n]) - 1
      /\ \A j \in 1 .. Len(items) : u[n][j] = items[j]
      /\ \A j \in Len(items) + 1 .. Len(u[n]) :
           /\ j - Len(items) + 1 \in 2 .. Len(w[n])
           /\ u[n][j] = w[n][j - Len(items) + 1]
  BY <1>2 DEF Replacing
<1> SUFFICES ASSUME NEW i \in 1 .. Len(u), NEW j \in 1 .. Len(u[i])
             PROVE  Fits(u[i][j], l[h[i]].type) /\ Refers(u[i][j], l)
  BY DEF Fitted, u
<1>4. CASE i < n
  <2>1. u[i] = w[i] /\ i \in 1 .. n
    BY <1>3, <1>4
  <2> QED
    BY <2>1 DEF Fitted
<1>5. CASE i = n /\ j <= Len(items)
  <2>1. j \in 1 .. Len(items)
    BY <1>3, <1>5
  <2> QED
    BY <1>1, <1>3, <1>5, <2>1
<1>6. CASE i = n /\ j > Len(items)
  <2>1. j \in Len(items) + 1 .. Len(u[n])
    BY <1>3, <1>6
  <2>2. /\ j - Len(items) + 1 \in 1 .. Len(w[n]) /\ n \in 1 .. n
        /\ u[n][j] = w[n][j - Len(items) + 1]
    BY <1>3, <2>1
  <2> QED
    BY <1>6, <2>2 DEF Fitted
<1> QED
  BY <1>3, <1>4, <1>5, <1>6

LEMMA FittedAppended ==
  ASSUME NEW S, NEW w \in Seq(Seq(S)), NEW H, NEW h \in Seq(H), Len(w) = Len(h),
         NEW l, Fitted(w, h, l), NEW x \in H, NEW inner, Sane(inner, l[x].type, l)
  PROVE  Fitted(Append(w, inner), Append(h, x), l)
<1>1. PICK T : /\ inner \in Seq(T)
               /\ \A j \in 1 .. Len(inner) : Fits(inner[j], l[x].type) /\ Refers(inner[j], l)
  BY DEF Sane
<1> DEFINE n == Len(w)
           u == Append(w, inner)
           g == Append(h, x)
<1>2. /\ n \in Nat /\ Len(u) = n + 1 /\ u[n + 1] = inner
      /\ \A i \in 1 .. n : u[i] = w[i]
  <2>1. Seq(Seq(S)) \subseteq Seq(Seq(S) \cup {inner})
    BY SeqMonotonic
  <2> QED
    BY <2>1, Appended, LenProperties
<1>3. /\ g[n + 1] = x /\ \A i \in 1 .. n : g[i] = h[i]
  BY Appended
<1> HIDE DEF u, g
<1> SUFFICES ASSUME NEW i \in 1 .. Len(u), NEW j \in 1 .. Len(u[i])
             PROVE  Fits(u[i][j], l[g[i]].type) /\ Refers(u[i][j], l)
  BY DEF Fitted, u, g
<1>4. CASE i \in 1 .. n
  BY <1>2, <1>3, <1>4 DEF Fitted
<1>5. CASE i = n + 1
  BY <1>1, <1>2, <1>3, <1>5
<1> QED
  BY <1>2, <1>4, <1>5

LEMMA FittedFronted ==
  ASSUME NEW S, NEW w \in Seq(Seq(S)), w # <<>>, NEW H, NEW h \in Seq(H), Len(w) = Len(h),
         NEW l, Fitted(w, h, l)
  PROVE  Fitted(SubSeq(w, 1, Len(w) - 1), SubSeq(h, 1, Len(h) - 1), l)
<1> DEFINE n == Len(w)
           u == SubSeq(w, 1, n - 1)
           g == SubSeq(h, 1, Len(h) - 1)
<1>1. n \in Nat \ {0}
  BY EmptySeq, LenProperties
<1>2. Len(u) = n - 1 /\ \A i \in 1 .. n - 1 : u[i] = w[i]
  BY Fronted
<1>3. \A i \in 1 .. n - 1 : g[i] = h[i]
  <2>1. h # <<>>
    BY <1>1, EmptySeq
  <2> QED
    BY <2>1, Fronted
<1> HIDE DEF u, g
<1> SUFFICES ASSUME NEW i \in 1 .. Len(u), NEW j \in 1 .. Len(u[i])
             PROVE  Fits(u[i][j], l[g[i]].type) /\ Refers(u[i][j], l)
  BY DEF Fitted, u, g
<1>4. i \in 1 .. n /\ u[i] = w[i] /\ g[i] = h[i]
  BY <1>1, <1>2, <1>3
<1> QED
  BY <1>4 DEF Fitted

-------------------------------------------------------------------------------
(***************************************************************************)
(* What no step that parses changes: what is held, what things to do refer *)
(* to, the document header, its metadata, and the texts of that.           *)
(***************************************************************************)
Undisturbed ==
  /\ \A n \in DOMAIN lab : lab[n].type \in {"HEADER", "BLOCKQUOTE"} =>
       n \in DOMAIN lab' /\ lab'[n].type = lab[n].type
  /\ \A i \in 1 .. Len(held) : held[i] \in DOMAIN lab' /\ lab'[held[i]].type = lab[held[i]].type
  /\ \A n \in DOMAIN lab' : lab'[n].type = "DOC_HEADER" =>
       n \in DOMAIN lab /\ lab[n].type = "DOC_HEADER" /\ kids'[n] = kids[n]
  /\ \A n \in DOMAIN lab : lab[n].type = "META" =>
       n \in DOMAIN lab' /\ lab'[n] = lab[n] /\ kids'[n] = kids[n]
  /\ \A n \in DOMAIN lab : n # Root /\ lab[par[n]].type = "META" =>
       n \in DOMAIN lab' /\ lab'[n] = lab[n]

\* What a step that parses begins from.
LEMMA TreeFacts ==
  ASSUME PInv, phase = "parsing"
  PROVE  /\ DOMAIN par = DOMAIN lab /\ DOMAIN kids = DOMAIN lab
         /\ Root \in DOMAIN lab /\ nodes \notin DOMAIN lab /\ nodes + 1 \notin DOMAIN lab
         /\ nodes # Root /\ nodes + 1 # Root /\ nodes # nodes + 1
         /\ current \in DOMAIN lab /\ lab[current].type \notin Leaves
         /\ held \in Seq(DOMAIN lab) /\ \A i \in 1 .. Len(held) : held[i] \in DOMAIN lab
         /\ held # <<>> /\ held[Len(held)] = current
         /\ \A i \in 1 .. Len(held) : lab[held[i]].type \notin Leaves
         /\ \A n \in DOMAIN lab : n # Root => par[n] \in DOMAIN lab
         /\ \A n \in DOMAIN lab : kids[n] \in Seq(DOMAIN lab)
         /\ \A n \in DOMAIN lab : \A k \in DOMAIN kids[n] : kids[n][k] \in DOMAIN lab /\ par[kids[n][k]] = n
         /\ \A n \in DOMAIN lab : \A k \in DOMAIN kids[n] : kids[n][k] # Root
         /\ \A n \in DOMAIN lab : DOMAIN kids[n] = 1 .. Len(kids[n]) /\ Len(kids[n]) \in Nat
         /\ \A n \in DOMAIN lab : \A j, k \in DOMAIN kids[n] : kids[n][j] = kids[n][k] => j = k
<1>1. /\ IInv /\ DOMAIN par = DOMAIN lab /\ DOMAIN kids = DOMAIN lab
      /\ \A n \in DOMAIN lab : kids[n] \in Seq(DOMAIN lab)
      /\ held \in Seq(DOMAIN lab) /\ held # <<>> /\ held[Len(held)] = current
      /\ TreeWhole /\ Whole
  BY DEF PInv, IInv, TTypeOK, StackIsPath, Whole
<1>2. /\ nodes \in Nat /\ nodes \notin DOMAIN lab /\ nodes + 1 \notin DOMAIN lab
      /\ \A n \in DOMAIN lab : n \in Nat
      /\ \A n \in DOMAIN lab : n # Root => par[n] \in DOMAIN lab
      /\ Linked /\ Root \in DOMAIN lab /\ DOMAIN held = 1 .. Len(held)
      /\ current \in DOMAIN lab /\ lab[current].type \notin Leaves
  BY <1>1, Facts DEF Shaped
<1>3. /\ nodes # Root /\ nodes + 1 # Root /\ nodes # nodes + 1
  BY <1>2 DEF Root
<1>4. \A i \in 1 .. Len(held) : held[i] \in DOMAIN lab
  BY <1>1, ElementOfSeq
<1>5. \A i \in 1 .. Len(held) : lab[held[i]].type \notin Leaves
  BY <1>1, <1>2 DEF TreeWhole, LeavesBare
<1>6. \A n \in DOMAIN lab : \A k \in DOMAIN kids[n] : kids[n][k] \in DOMAIN lab /\ par[kids[n][k]] = n
  BY <1>1, <1>2 DEF Linked
<1>7. \A n \in DOMAIN lab : \A k \in DOMAIN kids[n] : kids[n][k] # Root
  <2> SUFFICES ASSUME NEW n \in DOMAIN lab, NEW k \in DOMAIN kids[n], kids[n][k] = Root PROVE FALSE
    OBVIOUS
  <2>1. par[Root] = n /\ n \in Nat /\ Root \in DOMAIN kids
    BY <1>1, <1>2, <1>6
  <2>2. par[Root] = None
    BY <1>2, <2>1 DEF Linked
  <2> QED
    BY <2>1, <2>2 DEF None
<1>8. \A n \in DOMAIN lab : DOMAIN kids[n] = 1 .. Len(kids[n]) /\ Len(kids[n]) \in Nat
  BY <1>1, LenProperties
<1>9. \A n \in DOMAIN lab : \A j, k \in DOMAIN kids[n] : kids[n][j] = kids[n][k] => j = k
  BY <1>1, <1>2 DEF Linked
<1> QED
  BY <1>1, <1>2, <1>3, <1>4, <1>5, <1>6, <1>7, <1>8, <1>9

\* Labels change.
LEMMA AltersKeeps ==
  ASSUME PInv, phase = "parsing", phase' = phase, DOMAIN lab' = DOMAIN lab, Mild(lab'),
         UNCHANGED <<kids, par>>
  PROVE  Undisturbed /\ (Placed => Placed') /\ (TextsMerged => TextsMerged')
<1> DEFINE K == DOMAIN lab
<1>1. \A n \in K : Alike(n, lab'[n])
  BY DEF Mild
<1>2. /\ \A n \in K : lab'[n].type = lab[n].type
      /\ \A n \in K : lab[n].type = "NORMAL_TEXT" => lab'[n].fl = lab[n].fl
      /\ \A n \in K : lab[n].type = "META" => lab'[n] = lab[n]
      /\ \A n \in K : n # Root /\ lab[par[n]].type = "META" => lab'[n] = lab[n]
  BY <1>1 DEF Alike
<1>3. /\ \A i \in 1 .. Len(held) : held[i] \in K
      /\ \A n \in K : n # Root => par[n] \in K
      /\ \A n \in K : \A k \in DOMAIN kids[n] : kids[n][k] \in K
      /\ \A n \in K : DOMAIN kids[n] = 1 .. Len(kids[n]) /\ Len(kids[n]) \in Nat
      /\ DOMAIN kids = K
  BY TreeFacts
<1>4. Undisturbed
  BY <1>2, <1>3 DEF Undisturbed
<1>5. ASSUME Placed PROVE Placed'
  <2>1. \A n \in K : n # Root => Below(lab[n].type, lab[par[n]].type)
    BY <1>5 DEF Placed, Whole
  <2>2. \A n \in K : n # Root => Below(lab'[n].type, lab'[par'[n]].type)
    BY <1>2, <1>3, <2>1
  <2> QED
    BY <2>2 DEF Placed
<1>6. ASSUME TextsMerged PROVE TextsMerged'
  <2>1. ASSUME NEW n \in K, NEW k \in 2 .. Len(kids[n])
        PROVE  Parts(lab'[kids[n][k - 1]], lab'[kids[n][k]])
    <3>1. Parts(lab[kids[n][k - 1]], lab[kids[n][k]])
      BY <1>3, <1>6, <2>1 DEF TextsMerged, Whole, Parts
    <3>2. k - 1 \in DOMAIN kids[n] /\ k \in DOMAIN kids[n]
      BY <1>3, <2>1
    <3>3. kids[n][k - 1] \in K /\ kids[n][k] \in K
      BY <1>3, <2>1, <3>2
    <3> QED
      BY <1>2, <3>1, <3>3 DEF Parts
  <2> QED
    BY <1>3, <2>1 DEF TextsMerged, Parts
<1> QED
  BY <1>4, <1>5, <1>6

\* A node comes last below the current one.
LEMMA PutsKeeps ==
  ASSUME PInv, phase = "parsing", Puts, lab[current].type # "DOC_HEADER"
  PROVE  /\ Undisturbed /\ (Placed => Placed') /\ (TextsMerged => TextsMerged')
         /\ DOMAIN lab' = DOMAIN lab \cup {nodes}
<1> DEFINE K == DOMAIN lab
<1>1. /\ DOMAIN par = K /\ DOMAIN kids = K /\ nodes \notin K
      /\ nodes # Root /\ current \in K /\ lab[current].type \notin Leaves
      /\ \A i \in 1 .. Len(held) : held[i] \in K
      /\ \A n \in K : n # Root => par[n] \in K
      /\ \A n \in K : kids[n] \in Seq(K)
      /\ \A n \in K : \A k \in DOMAIN kids[n] : kids[n][k] \in K
      /\ \A n \in K : DOMAIN kids[n] = 1 .. Len(kids[n]) /\ Len(kids[n]) \in Nat
  BY TreeFacts
<1>2. /\ phase' = phase /\ Mild(lab')
      /\ Below(lab'[nodes].type, lab[current].type)
      /\ lab'[nodes].type \notin {"ROOT", "META", "DOC_HEADER", "DEFINITION_TITLE"}
      /\ Last_child(current) # None => Parts(lab[Last_child(current)], lab'[nodes])
  BY DEF Puts
<1>3. /\ kids' = [n \in K \cup {nodes} |-> IF n = nodes THEN <<>>
                                           ELSE IF n = current THEN Append(kids[n], nodes) ELSE kids[n]]
      /\ par' = [n \in K \cup {nodes} |-> IF n = nodes THEN current ELSE par[n]]
      /\ lab' = [n \in K \cup {nodes} |-> IF n = nodes THEN lab'[nodes] ELSE lab'[n]]
  BY DEF Puts, NewNode
<1>4. DOMAIN lab' = K \cup {nodes} /\ DOMAIN kids' = K \cup {nodes}
  BY <1>3
<1>5. /\ \A n \in K \ {current} : kids'[n] = kids[n]
      /\ kids'[nodes] = <<>> /\ kids'[current] = Append(kids[current], nodes)
      /\ \A n \in K : par'[n] = par[n]
      /\ par'[nodes] = current
  BY <1>1, <1>3
<1>6. /\ \A n \in K : lab'[n].type = lab[n].type
      /\ \A n \in K : lab[n].type = "NORMAL_TEXT" => lab'[n].fl = lab[n].fl
      /\ \A n \in K : lab[n].type = "META" => lab'[n] = lab[n]
      /\ \A n \in K : n # Root /\ lab[par[n]].type = "META" => lab'[n] = lab[n]
  BY <1>2 DEF Mild, Alike
<1>7. Undisturbed
  BY <1>1, <1>2, <1>4, <1>5, <1>6 DEF Undisturbed, Leaves
<1>8. ASSUME Placed PROVE Placed'
  <2>1. \A n \in K : n # Root => Below(lab[n].type, lab[par[n]].type)
    BY <1>8 DEF Placed, Whole
  <2>2. \A n \in K \cup {nodes} : n # Root => Below(lab'[n].type, lab'[par'[n]].type)
    BY <1>1, <1>2, <1>5, <1>6, <2>1
  <2> QED
    BY <1>4, <2>2 DEF Placed
<1>9. ASSUME TextsMerged PROVE TextsMerged'
  <2>1. ASSUME NEW n \in K, NEW k \in 2 .. Len(kids[n])
        PROVE  Parts(lab'[kids[n][k - 1]], lab'[kids[n][k]])
    <3>1. Parts(lab[kids[n][k - 1]], lab[kids[n][k]])
      BY <1>1, <1>9, <2>1 DEF TextsMerged, Whole, Parts
    <3>2. k - 1 \in DOMAIN kids[n] /\ k \in DOMAIN kids[n]
      BY <1>1, <2>1
    <3>3. kids[n][k - 1] \in K /\ kids[n][k] \in K
      BY <1>1, <2>1, <3>2
    <3> QED
      BY <1>6, <3>1, <3>3 DEF Parts
  <2> DEFINE c == kids[current]
             m == Len(c)
             d == Append(c, nodes)
  <2>2. /\ Len(d) = m + 1 /\ m \in Nat /\ d[m + 1] = nodes
        /\ \A j \in 1 .. m : d[j] = c[j]
    <3>1. c \in Seq(K) /\ K \subseteq K \cup {nodes}
      BY <1>1
    <3> QED
      BY <3>1, Appended, LenProperties
  <2>3. ASSUME NEW k \in 2 .. m + 1
        PROVE  Parts(lab'[d[k - 1]], lab'[d[k]])
    <3>1. CASE k \in 2 .. m
      <4>1. d[k - 1] = c[k - 1] /\ d[k] = c[k]
        BY <2>2, <3>1
      <4> QED
        BY <1>1, <2>1, <3>1, <4>1
    <3>2. CASE k = m + 1
      <4>1. d[k] = nodes /\ d[k - 1] = c[m] /\ m \in 1 .. m
        BY <2>2, <2>3, <3>2
      <4>2. c # <<>>
        BY <4>1
      <4>3. Last_child(current) = c[m] /\ c[m] \in K
        BY <1>1, <4>1, <4>2 DEF Last_child
      <4>4. c[m] # None
        BY <1>1, <4>3, Facts DEF PInv, None
      <4>5. Parts(lab[c[m]], lab'[nodes])
        BY <1>2, <4>3, <4>4
      <4> QED
        BY <1>6, <4>1, <4>3, <4>5 DEF Parts
    <3> QED
      BY <2>2, <2>3, <3>1, <3>2
  <2> HIDE DEF d, m, c
  <2>4. kids'[current] = d
    BY <1>5 DEF d, c
  <2>5. ASSUME NEW n \in K \cup {nodes}, NEW k \in 2 .. Len(kids'[n])
        PROVE  Parts(lab'[kids'[n][k - 1]], lab'[kids'[n][k]])
    <3>1. CASE n = nodes
      BY <1>5, <2>5, <3>1
    <3>2. CASE n = current
      BY <2>2, <2>3, <2>4, <2>5, <3>2
    <3>3. CASE n \in K \ {current}
      BY <1>5, <2>1, <2>5, <3>3
    <3> QED
      BY <2>5, <3>1, <3>2, <3>3
  <2> QED
    BY <1>4, <2>5 DEF TextsMerged, Parts
<1> QED
  BY <1>4, <1>7, <1>8, <1>9


\* The last text of a header is cut.
LEMMA CutsKeeps ==
  ASSUME PInv, phase = "parsing", NEW h \in DOMAIN lab, Cuts(h)
  PROVE  Undisturbed /\ (Placed => Placed') /\ (TextsMerged => TextsMerged')
<1> DEFINE K == DOMAIN lab
           t == Last_child(h)
           c == kids[h]
           d == SubSeq(c, 1, Len(c) - 1)
<1>1. /\ DOMAIN par = K /\ DOMAIN kids = K
      /\ current \in K /\ lab[current].type \notin Leaves
      /\ \A i \in 1 .. Len(held) : held[i] \in K
      /\ \A i \in 1 .. Len(held) : lab[held[i]].type \notin Leaves
      /\ \A n \in K : n # Root => par[n] \in K
      /\ \A n \in K : kids[n] \in Seq(K)
      /\ \A n \in K : \A k \in DOMAIN kids[n] : kids[n][k] \in K /\ par[kids[n][k]] = n
      /\ \A n \in K : DOMAIN kids[n] = 1 .. Len(kids[n]) /\ Len(kids[n]) \in Nat
      /\ \A n \in K : \A j, k \in DOMAIN kids[n] : kids[n][j] = kids[n][k] => j = k
  BY TreeFacts
<1>2. /\ \A n \in K : lab[n].type = "NORMAL_TEXT" => kids[n] = <<>>
      /\ \A n \in K : n # Root => \E k \in DOMAIN kids[par[n]] : kids[par[n]][k] = n
  BY <1>1, Facts DEF PInv, IInv, TreeWhole, LeavesBare, Shaped, Linked
<1>3. /\ phase' = phase /\ lab[h].type = "HEADER" /\ t # None /\ lab[t].type = "NORMAL_TEXT"
      /\ kids' = [n \in K \ {t} |-> IF n = h THEN d ELSE kids[n]]
      /\ par' = [n \in K \ {t} |-> par[n]]
      /\ DOMAIN lab' = K \ {t}
      /\ \A n \in K \ {t} : Alike(n, lab'[n])
  <2>1. /\ phase' = phase /\ Removelast(lab', h) /\ lab[h].type = "HEADER"
        /\ \A m \in DOMAIN lab' : Alike(m, lab'[m])
    BY DEF Cuts
  <2>2. /\ t # None /\ lab[t].type = "NORMAL_TEXT"
        /\ kids' = [n \in K \ {t} |-> IF n = h THEN d ELSE kids[n]]
        /\ par' = [n \in K \ {t} |-> par[n]]
        /\ lab' = [n \in K \ {t} |-> lab'[n]]
    BY <2>1 DEF Removelast
  <2>3. DOMAIN lab' = K \ {t}
    BY <2>2
  <2> QED
    BY <2>1, <2>2, <2>3
<1>4. /\ t \in K /\ c # <<>> /\ h # t /\ t # current
      /\ \A n \in K \ {t} : n # Root => par[n] # t
      /\ par[t] = h /\ c[Len(c)] = t
  <2>1. t \in K /\ c # <<>> /\ t = c[Len(c)] /\ Len(c) \in DOMAIN c
    BY <1>1, <1>3, LastChild DEF PInv
  <2>2. DOMAIN kids[t] = {}
    BY <1>2, <1>3, <2>1
  <2> QED
    BY <1>1, <1>2, <1>3, <2>1, <2>2 DEF Leaves
<1>5. /\ Len(d) = Len(c) - 1 /\ \A i \in 1 .. Len(c) - 1 : d[i] = c[i]
  BY <1>1, <1>4, Fronted
<1> HIDE DEF t, d
<1>6. /\ \A n \in K \ {t} : lab'[n].type = lab[n].type
      /\ \A n \in K \ {t} : lab[n].type = "NORMAL_TEXT" => lab'[n].fl = lab[n].fl
      /\ \A n \in K \ {t} : lab[n].type = "META" => lab'[n] = lab[n]
      /\ \A n \in K \ {t} : n # Root /\ lab[par[n]].type = "META" => lab'[n] = lab[n]
  BY <1>3 DEF Alike
<1>7. /\ kids'[h] = d /\ \A n \in K \ {t, h} : kids'[n] = kids[n]
      /\ \A n \in K \ {t} : par'[n] = par[n]
      /\ DOMAIN kids' = K \ {t}
  BY <1>3, <1>4
<1>8. Undisturbed
  <2>1. /\ \A n \in K : lab[n].type \in {"HEADER", "BLOCKQUOTE"} =>
             n \in DOMAIN lab' /\ lab'[n].type = lab[n].type
        /\ \A i \in 1 .. Len(held) : held[i] \in DOMAIN lab' /\ lab'[held[i]].type = lab[held[i]].type
    BY <1>1, <1>3, <1>6 DEF Leaves
  <2>2. /\ \A n \in DOMAIN lab' : lab'[n].type = "DOC_HEADER" =>
             n \in K /\ lab[n].type = "DOC_HEADER" /\ kids'[n] = kids[n]
        /\ \A n \in K : lab[n].type = "META" => n \in DOMAIN lab' /\ lab'[n] = lab[n] /\ kids'[n] = kids[n]
        /\ \A n \in K : n # Root /\ lab[par[n]].type = "META" => n \in DOMAIN lab' /\ lab'[n] = lab[n]
    BY <1>3, <1>4, <1>6, <1>7
  <2> QED
    BY <2>1, <2>2 DEF Undisturbed
<1>9. ASSUME Placed PROVE Placed'
  <2>1. \A n \in K : n # Root => Below(lab[n].type, lab[par[n]].type)
    BY <1>9 DEF Placed, Whole
  <2>2. \A n \in K \ {t} : n # Root => Below(lab'[n].type, lab'[par'[n]].type)
    BY <1>1, <1>4, <1>6, <1>7, <2>1
  <2> QED
    BY <1>3, <2>2 DEF Placed
<1>10. ASSUME TextsMerged PROVE TextsMerged'
  <2>1. ASSUME NEW n \in K \ {t}, NEW k \in 2 .. Len(kids'[n])
        PROVE  Parts(lab'[kids'[n][k - 1]], lab'[kids'[n][k]])
    <3>1. /\ k \in 2 .. Len(kids[n]) /\ kids'[n][k - 1] = kids[n][k - 1] /\ kids'[n][k] = kids[n][k]
      <4>1. CASE n # h
        BY <1>7, <2>1, <4>1
      <4>2. CASE n = h
        <5>1. k \in 2 .. Len(c) - 1 /\ Len(c) \in Nat
          BY <1>1, <1>5, <1>7, <2>1, <4>2
        <5>2. k \in 1 .. Len(c) - 1 /\ k - 1 \in 1 .. Len(c) - 1 /\ k \in 2 .. Len(c)
          BY <5>1
        <5> QED
          BY <1>5, <1>7, <4>2, <5>2
      <4> QED
        BY <4>1, <4>2
    <3>2. Parts(lab[kids[n][k - 1]], lab[kids[n][k]])
      BY <1>1, <1>10, <3>1 DEF TextsMerged, Whole, Parts
    <3>3. k - 1 \in DOMAIN kids[n] /\ k \in DOMAIN kids[n]
      BY <1>1, <3>1
    <3>4. kids[n][k - 1] \in K /\ kids[n][k] \in K
      BY <1>1, <3>3
    <3>5. kids[n][k - 1] # t /\ kids[n][k] # t
      <4>1. CASE n # h
        BY <1>1, <1>4, <3>3, <4>1
      <4>2. CASE n = h
        <5>1. /\ Len(c) \in DOMAIN c /\ c[Len(c)] = t /\ k - 1 # Len(c) /\ k # Len(c)
          BY <1>1, <1>4, <1>5, <1>7, <2>1, <4>2
        <5> QED
          BY <1>1, <3>3, <4>2, <5>1
      <4> QED
        BY <4>1, <4>2
    <3> QED
      BY <1>6, <3>1, <3>2, <3>4, <3>5 DEF Parts
  <2> QED
    BY <1>7, <2>1 DEF TextsMerged, Parts
<1> QED
  BY <1>8, <1>9, <1>10

\* A paragraph t becomes a title of the list d, which was there or is new.
Enlists(t, d) ==
  /\ phase' = phase /\ t \in DOMAIN lab /\ lab[t].type = "PARAGRAPH"
  /\ t # Root /\ t # current /\ par[t] = current /\ \A i \in 1 .. Len(held) : held[i] # t
  /\ d # t /\ d # current /\ d # Root /\ d \in DOMAIN lab \cup {nodes}
  /\ DOMAIN lab' = DOMAIN lab \cup {d} /\ DOMAIN kids' = DOMAIN lab \cup {d}
  /\ d \in DOMAIN lab => lab[d].type = "DEFINITION"
  /\ lab'[d].type = "DEFINITION" /\ lab'[t].type = "DEFINITION_TITLE"
  /\ \A n \in DOMAIN lab \ {t, d} : lab'[n] = lab[n] /\ par'[n] = par[n]
  /\ \A n \in DOMAIN lab \ {current, d} : kids'[n] = kids[n]
  /\ par'[t] = d /\ par'[d] = current
  /\ held' = Append(held, d)
  /\ Len(kids[current]) \in Nat \ {0}
  /\ \/ Len(kids'[current]) = Len(kids[current]) - 1
     \/ /\ Len(kids'[current]) = Len(kids[current])
        /\ kids'[current][Len(kids[current])] = d
  /\ \A i \in 1 .. Len(kids[current]) - 1 : kids'[current][i] = kids[current][i]
  /\ IF d \in DOMAIN lab THEN kids'[d] = Append(kids[d], t) ELSE kids'[d] = <<t>>

LEMMA EnlistIs ==
  ASSUME PInv, Enlist
  PROVE  phase = "parsing" /\ \E t, d : Enlists(t, d)
<1> DEFINE K == DOMAIN lab
           t == Last_child(current)
           c == kids[current]
           m == Len(c)
<1>1. phase = "parsing" /\ t # None /\ lab[t].type = "PARAGRAPH"
  BY DEF Enlist, Retitle, Entitle
<1>2. /\ DOMAIN par = K /\ DOMAIN kids = K /\ Root \in K /\ nodes \notin K /\ nodes # Root
      /\ current \in K /\ c \in Seq(K)
      /\ \A n \in K : \A k \in DOMAIN kids[n] :
           kids[n][k] \in K /\ par[kids[n][k]] = n /\ kids[n][k] # Root
      /\ \A n \in K : par[n] # n
  BY <1>1, TreeFacts, Facts DEF PInv
<1>3. /\ t \in K /\ t # Root /\ par[t] = current /\ t # current
      /\ m \in Nat \ {0} /\ DOMAIN c = 1 .. m /\ c[m] = t
      /\ \A i \in 1 .. m - 1 : c[i] # t
      /\ \A k \in DOMAIN held : held[k] # t /\ DOMAIN held = 1 .. Len(held)
  BY <1>1, <1>2, TitleFacts, Facts DEF PInv
<1> HIDE DEF t
<1>4. ASSUME NEW d \in K, Retitle(d) PROVE Enlists(t, d)
  <2>1. /\ phase' = phase /\ m > 1 /\ d = c[m - 1] /\ lab[d].type = "DEFINITION"
        /\ kids' = [n \in K |-> IF n = current THEN SubSeq(kids[n], 1, m - 1)
                                ELSE IF n = d THEN Append(kids[n], t) ELSE kids[n]]
        /\ par' = [n \in K |-> IF n = t THEN d ELSE par[n]]
        /\ lab' = Titled(lab, t) /\ held' = Append(held, d)
    BY <1>2, <1>4 DEF Retitle, t
  <2>2. d # t
    BY <1>1, <2>1
  <2>3. m - 1 \in DOMAIN c
    BY <1>3, <2>1
  <2>4. par[d] = current /\ d # Root /\ d # current
    BY <1>2, <2>1, <2>3
  <2>5. /\ DOMAIN lab' = K /\ lab'[t].type = "DEFINITION_TITLE"
        /\ \A n \in K \ {t} : lab'[n] = lab[n]
    BY <1>3, <2>1 DEF Titled, Label
  <2>6. /\ \A n \in K \ {t, d} : par'[n] = par[n]
        /\ par'[t] = d /\ par'[d] = current
    BY <1>3, <1>4, <2>1, <2>2, <2>4
  <2>7. /\ \A n \in K \ {current, d} : kids'[n] = kids[n]
        /\ kids'[current] = SubSeq(c, 1, m - 1) /\ kids'[d] = Append(kids[d], t)
        /\ DOMAIN kids' = K
    BY <1>2, <1>4, <2>1, <2>4
  <2>8. Len(kids'[current]) = m - 1 /\ \A i \in 1 .. m - 1 : kids'[current][i] = c[i]
    <3>1. c # <<>>
      BY <1>3
    <3> QED
      BY <1>2, <2>7, <3>1, Fronted
  <2>9. K \cup {d} = K
    BY <1>4
  <2>10. \A i \in 1 .. Len(held) : held[i] # t
    BY <1>3
  <2> HIDE DEF K
  <2>11. /\ t \in K /\ d \in K \cup {nodes} /\ DOMAIN lab' = K \cup {d} /\ DOMAIN kids' = K \cup {d}
         /\ lab'[d].type = "DEFINITION"
         /\ \A n \in K \ {t, d} : lab'[n] = lab[n] /\ par'[n] = par[n]
    BY <1>3, <1>4, <2>1, <2>2, <2>5, <2>6, <2>7, <2>9
  <2> QED
    BY <1>1, <1>3, <1>4, <2>1, <2>2, <2>4, <2>5, <2>6, <2>7, <2>8, <2>10, <2>11 DEF Enlists, K
<1>5. ASSUME nodes \in DOMAIN lab', Entitle(lab'[nodes]) PROVE Enlists(t, nodes)
  <2> DEFINE d == nodes
             e == [c EXCEPT ![m] = d]
  <2>1. /\ lab'[d].type = "DEFINITION" /\ phase' = phase
        /\ kids' = [n \in K \cup {d} |-> IF n = d THEN <<t>>
                                         ELSE IF n = current THEN [kids[n] EXCEPT ![m] = d]
                                         ELSE kids[n]]
        /\ par' = [n \in K \cup {d} |-> IF n = d THEN current ELSE IF n = t THEN d ELSE par[n]]
        /\ lab' = [n \in K \cup {d} |-> IF n = d THEN lab'[nodes] ELSE Titled(lab, t)[n]]
        /\ held' = Append(held, d)
    BY <1>5 DEF Entitle, t
  <2>2. /\ DOMAIN lab' = K \cup {d} /\ lab'[t].type = "DEFINITION_TITLE"
        /\ \A n \in K \ {t} : lab'[n] = lab[n]
    BY <1>2, <1>3, <2>1 DEF Titled, Label
  <2>3. /\ DOMAIN kids' = K \cup {d} /\ kids'[current] = e /\ kids'[d] = <<t>>
        /\ \A n \in K \ {current} : kids'[n] = kids[n]
    BY <1>2, <2>1
  <2>4. Len(e) = m /\ e[m] = d /\ \A i \in 1 .. m - 1 : e[i] = c[i]
    <3>1. e \in Seq(K \cup {d}) /\ DOMAIN e = 1 .. m
      <4>1. e \in [1 .. m -> K \cup {d}]
        BY <1>2, <1>3, ElementOfSeq
      <4> QED
        BY <1>3, <4>1, SeqDef
    <3>2. DOMAIN e = 1 .. Len(e) /\ Len(e) \in Nat
      BY <3>1, LenProperties
    <3>3. Len(e) = m
      BY <1>3, <3>1, <3>2, SameLength
    <3>4. e[m] = d /\ \A i \in 1 .. m - 1 : e[i] = c[i]
      BY <1>3
    <3> QED
      BY <3>3, <3>4
  <2>5. par'[t] = d /\ par'[d] = current /\ \A n \in K \ {t} : par'[n] = par[n]
    BY <1>2, <1>3, <2>1
  <2>6. \A i \in 1 .. Len(held) : held[i] # t
    BY <1>3
  <2> HIDE DEF e
  <2> QED
    BY <1>1, <1>2, <1>3, <2>1, <2>2, <2>3, <2>4, <2>5, <2>6 DEF Enlists
<1> QED
  BY <1>1, <1>4, <1>5 DEF Enlist


\* A paragraph is made a title.
LEMMA ListsKeeps ==
  ASSUME PInv, phase = "parsing", NEW t, NEW d, Enlists(t, d), lab[current].type \in Containers
  PROVE  Undisturbed /\ (Placed => Placed') /\ (TextsMerged => TextsMerged')
<1> DEFINE K == DOMAIN lab
           c == kids[current]
           e == kids'[current]
           m == Len(c)
<1>1. /\ DOMAIN par = K /\ DOMAIN kids = K /\ nodes \notin K
      /\ current \in K /\ lab[current].type \notin Leaves
      /\ \A i \in 1 .. Len(held) : held[i] \in K
      /\ \A n \in K : n # Root => par[n] \in K
      /\ \A n \in K : kids[n] \in Seq(K)
      /\ \A n \in K : \A k \in DOMAIN kids[n] : kids[n][k] \in K /\ par[kids[n][k]] = n
      /\ \A n \in K : DOMAIN kids[n] = 1 .. Len(kids[n]) /\ Len(kids[n]) \in Nat
  BY TreeFacts
<1>2. /\ t \in K /\ lab[t].type = "PARAGRAPH"
      /\ t # Root /\ t # current /\ par[t] = current /\ \A i \in 1 .. Len(held) : held[i] # t
      /\ d # t /\ d # current /\ d # Root /\ d \in K \cup {nodes}
      /\ DOMAIN lab' = K \cup {d} /\ DOMAIN kids' = K \cup {d}
      /\ d \in K => lab[d].type = "DEFINITION"
      /\ lab'[d].type = "DEFINITION" /\ lab'[t].type = "DEFINITION_TITLE"
      /\ \A n \in K \ {t, d} : lab'[n] = lab[n] /\ par'[n] = par[n]
      /\ \A n \in K \ {current, d} : kids'[n] = kids[n]
      /\ par'[t] = d /\ par'[d] = current
  BY DEF Enlists
<1>3. /\ m \in Nat \ {0}
      /\ Len(e) = m - 1 \/ (Len(e) = m /\ e[m] = d)
      /\ \A i \in 1 .. m - 1 : e[i] = c[i]
  BY DEF Enlists
<1>4. /\ \A n \in K : lab[n].type \notin {"PARAGRAPH", "DEFINITION"} => lab'[n] = lab[n]
      /\ \A n \in K \ {t} : lab'[n].type = lab[n].type
  BY <1>2
<1>5. Undisturbed
  <2>1. /\ \A n \in K : lab[n].type \in {"HEADER", "BLOCKQUOTE"} =>
             n \in DOMAIN lab' /\ lab'[n].type = lab[n].type
        /\ \A i \in 1 .. Len(held) : held[i] \in DOMAIN lab' /\ lab'[held[i]].type = lab[held[i]].type
    BY <1>1, <1>2, <1>4
  <2>2. ASSUME NEW n \in DOMAIN lab', lab'[n].type = "DOC_HEADER"
        PROVE  n \in K /\ lab[n].type = "DOC_HEADER" /\ kids'[n] = kids[n]
    <3>1. n \in K \ {t, d} /\ lab[n].type = "DOC_HEADER"
      BY <1>2, <2>2
    <3>2. n # current
      BY <3>1 DEF Containers
    <3> QED
      BY <1>2, <3>1, <3>2
  <2>3. ASSUME NEW n \in K, lab[n].type = "META"
        PROVE  n \in DOMAIN lab' /\ lab'[n] = lab[n] /\ kids'[n] = kids[n]
    <3>1. n \in K \ {t, d, current}
      BY <1>1, <1>2, <2>3 DEF Leaves
    <3> QED
      BY <1>2, <3>1
  <2>4. ASSUME NEW n \in K, n # Root, lab[par[n]].type = "META"
        PROVE  n \in DOMAIN lab' /\ lab'[n] = lab[n]
    <3>1. lab[n].type = "NORMAL_TEXT"
      <4>1. PICK k \in DOMAIN kids[par[n]] : kids[par[n]][k] = n
        BY <1>1, <2>4, Facts DEF PInv, Shaped, Linked
      <4> QED
        BY <1>1, <2>4, <4>1 DEF PInv, IInv, TreeWhole, LeavesBare
    <3> QED
      BY <1>2, <1>4, <2>4, <3>1
  <2> QED
    BY <2>1, <2>2, <2>3, <2>4 DEF Undisturbed
<1>6. ASSUME Placed PROVE Placed'
  <2>1. \A n \in K : n # Root => Below(lab[n].type, lab[par[n]].type)
    BY <1>6 DEF Placed, Whole
  <2>2. ASSUME NEW n \in K \cup {d}, n # Root
        PROVE  Below(lab'[n].type, lab'[par'[n]].type)
    <3>1. CASE n = d
      <4>1. lab'[par'[n]].type = lab[current].type /\ lab'[n].type = "DEFINITION"
        BY <1>1, <1>2, <1>4, <3>1
      <4> QED
        BY <4>1 DEF Below, Containers
    <3>2. CASE n = t
      <4>1. lab'[par'[n]].type = "DEFINITION" /\ lab'[n].type = "DEFINITION_TITLE"
        BY <1>2, <3>2
      <4> QED
        BY <4>1 DEF Below, Wholes
    <3>3. CASE n \in K \ {t, d} /\ par[n] # t
      <4>1. lab'[n].type = lab[n].type /\ par'[n] = par[n] /\ lab'[par[n]].type = lab[par[n]].type
        BY <1>1, <1>2, <1>4, <2>2, <3>3
      <4> QED
        BY <2>1, <2>2, <3>3, <4>1
    <3>4. CASE n \in K \ {t, d} /\ par[n] = t
      <4>1. lab'[n].type = lab[n].type /\ par'[n] = t /\ Below(lab[n].type, "PARAGRAPH")
        BY <1>2, <2>1, <2>2, <3>4
      <4> QED
        BY <1>2, <4>1 DEF Below, Wholes, Containers
    <3> QED
      BY <2>2, <3>1, <3>2, <3>3, <3>4
  <2> QED
    BY <1>2, <2>2 DEF Placed
<1>7. ASSUME TextsMerged PROVE TextsMerged'
  <2>0. \A n \in K : lab'[n].type = "NORMAL_TEXT" => lab'[n] = lab[n]
    BY <1>2
  <2>1. ASSUME NEW n \in K, NEW k \in 2 .. Len(kids[n])
        PROVE  Parts(lab'[kids[n][k - 1]], lab'[kids[n][k]])
    <3>1. Parts(lab[kids[n][k - 1]], lab[kids[n][k]])
      BY <1>1, <1>7, <2>1 DEF TextsMerged, Whole, Parts
    <3>2. k - 1 \in DOMAIN kids[n] /\ k \in DOMAIN kids[n]
      BY <1>1, <2>1
    <3>3. kids[n][k - 1] \in K /\ kids[n][k] \in K
      BY <1>1, <2>1, <3>2
    <3> QED
      BY <2>0, <3>1, <3>3 DEF Parts
  <2>2. ASSUME NEW k \in 2 .. Len(e) PROVE Parts(lab'[e[k - 1]], lab'[e[k]])
    <3>1. CASE k \in 2 .. m - 1
      <4>1. e[k - 1] = c[k - 1] /\ e[k] = c[k] /\ k \in 2 .. m
        BY <1>3, <3>1
      <4> QED
        BY <1>1, <2>1, <4>1
    <3>2. CASE k = m
      <4>1. e[k] = d
        BY <1>3, <2>2, <3>2
      <4> QED
        BY <1>2, <4>1 DEF Parts
    <3> QED
      BY <1>3, <2>2, <3>1, <3>2
  <2>3. ASSUME NEW k \in 2 .. Len(kids'[d]) PROVE Parts(lab'[kids'[d][k - 1]], lab'[kids'[d][k]])
    <3>1. CASE d \notin K
      <4>1. kids'[d] = <<t>>
        BY <3>1 DEF Enlists
      <4> QED
        BY <2>3, <4>1
    <3>2. CASE d \in K
      <4> DEFINE f == kids[d]
                 g == Append(f, t)
      <4>1. /\ Len(g) = Len(f) + 1 /\ g[Len(f) + 1] = t /\ \A i \in 1 .. Len(f) : g[i] = f[i]
            /\ Len(f) \in Nat
        <5>1. f \in Seq(K) /\ t \in K
          BY <1>1, <1>2, <3>2
        <5> QED
          BY <5>1, Appended, LenProperties
      <4>2. kids'[d] = g
        BY <3>2 DEF Enlists
      <4> HIDE DEF g
      <4>3. CASE k \in 2 .. Len(f)
        <5>1. g[k - 1] = f[k - 1] /\ g[k] = f[k]
          BY <4>1, <4>3
        <5> QED
          BY <2>1, <3>2, <4>2, <4>3, <5>1
      <4>4. CASE k = Len(f) + 1
        BY <1>2, <4>1, <4>2, <4>4 DEF Parts
      <4> QED
        BY <2>3, <4>1, <4>2, <4>3, <4>4
    <3> QED
      BY <3>1, <3>2
  <2>4. ASSUME NEW n \in K \cup {d}, NEW k \in 2 .. Len(kids'[n])
        PROVE  Parts(lab'[kids'[n][k - 1]], lab'[kids'[n][k]])
    <3>1. CASE n = d
      BY <2>3, <2>4, <3>1
    <3>2. CASE n = current
      BY <2>2, <2>4, <3>2
    <3>3. CASE n \in K \ {current, d}
      BY <1>2, <2>1, <2>4, <3>3
    <3> QED
      BY <2>4, <3>1, <3>2, <3>3
  <2> QED
    BY <1>2, <2>4 DEF TextsMerged, Parts
<1> QED
  BY <1>5, <1>6, <1>7


\* What is done next and what is done inside fit, so all does.
LEMMA Lands ==
  ASSUME PInv, Fitting, phase = "parsing", Working, work # <<>>, work[Len(work)] # <<>>,
         Undisturbed, phase' = phase, NEW items, Sane(items, lab[current].type, lab'),
         \/ work' = Instead(items) /\ held' = held
         \/ \E x \in DOMAIN lab' : \E inner :
              work' = Append(Instead(items), inner) /\ held' = Append(held, x)
                /\ Sane(inner, lab'[x].type, lab')
  PROVE  Fitting'
<1> DEFINE l == lab'
           H == DOMAIN lab \cup DOMAIN l
           u == Replaced(work, items)
<1>1. /\ held \in Seq(DOMAIN lab) /\ held[Len(held)] = current /\ held # <<>>
  BY TreeFacts
<1>2. PICK S : work \in Seq(Seq(S))
  BY DEF Working, Ordered
<1>3. Len(work) = Len(held)
  BY DEF Working, Ordered
<1>4. Fitted(work, held, lab)
  BY DEF Fitting, Fitted
<1>5. /\ \A i \in 1 .. Len(held) : l[held[i]].type = lab[held[i]].type
      /\ \A n \in DOMAIN lab : lab[n].type \in {"HEADER", "BLOCKQUOTE"} =>
           n \in DOMAIN l /\ l[n].type = lab[n].type
  BY DEF Undisturbed
<1>6. PICK T : items \in Seq(T)
  BY DEF Sane
<1>7. u \in Seq(Seq(S \cup T)) /\ Len(u) = Len(work)
  <2>1. u \in Seq(Seq(S \cup T)) /\ Replacing(work, items, u)
    BY <1>2, <1>6, ReplacedSeq
  <2> QED
    BY <2>1 DEF Replacing
<1>8. l[held[Len(work)]].type = lab[current].type
  <2>1. Len(held) \in 1 .. Len(held)
    BY <1>1, EmptySeq, LenProperties
  <2> QED
    BY <1>1, <1>3, <1>5, <2>1
<1>9. \/ work' = u /\ held' = held
      \/ \E x \in DOMAIN l : \E inner :
           work' = Append(u, inner) /\ held' = Append(held, x) /\ Sane(inner, l[x].type, l)
  BY DEF Instead, Replaced
<1>10. Sane(items, l[held[Len(work)]].type, l)
  BY <1>8
<1>11. held \in Seq(H)
  BY <1>1, SeqMonotonic
<1> HIDE DEF l, u, H
<1>12. Fitted(work, held, l)
  BY <1>3, <1>4, <1>5, FittedRelabelled
<1>13. Fitted(u, held, l)
  <2>1. Fitted(Replaced(work, items), held, l)
    BY <1>2, <1>10, <1>12, FittedReplaced
  <2> QED
    BY <2>1 DEF u
<1>14. Fitted(work', held', l)
  <2>1. CASE work' = u /\ held' = held
    BY <1>13, <2>1
  <2>2. ASSUME NEW x \in DOMAIN l, NEW inner, work' = Append(u, inner), held' = Append(held, x),
               Sane(inner, l[x].type, l)
        PROVE  Fitted(work', held', l)
    <3>1. x \in H /\ Len(u) = Len(held)
      BY <1>3, <1>7 DEF H
    <3>2. Fitted(Append(u, inner), Append(held, x), l)
      BY <1>7, <1>11, <1>13, <2>2, <3>1, FittedAppended
    <3> QED
      BY <2>2, <3>2
  <2> QED
    BY <1>9, <2>1, <2>2
<1> QED
  BY <1>14 DEF Fitting, Fitted, l

(***************************************************************************)
(* A step that parses leaves what fits.                                    *)
(***************************************************************************)
LEMMA FineKeeps ==
  ASSUME PInv, Fitting, Parses, Fine
  PROVE  Undisturbed /\ Fitting' /\ (Placed => Placed') /\ (TextsMerged => TextsMerged')
<1>1. /\ phase = "parsing" /\ work # <<>> /\ work[Len(work)] # <<>> /\ Working
      /\ lab[current].type # "DOC_HEADER"
  BY ParsesAt
<1>2. CASE \E items : Alters(items)
  <2>1. PICK items : Alters(items)
    BY <1>2
  <2>2. Undisturbed /\ (Placed => Placed') /\ (TextsMerged => TextsMerged')
    BY <1>1, <2>1, AltersKeeps DEF Alters
  <2>3. Fitting'
    BY <1>1, <2>1, <2>2, Lands DEF Alters
  <2> QED
    BY <2>2, <2>3
<1>3. CASE \E items : Puts_leaf(items)
  <2>1. PICK items : Puts_leaf(items)
    BY <1>3
  <2>2. Undisturbed /\ (Placed => Placed') /\ (TextsMerged => TextsMerged')
    BY <1>1, <2>1, PutsKeeps DEF Puts_leaf
  <2>3. phase' = phase
    BY <2>1 DEF Puts_leaf, Puts
  <2>4. Fitting'
    BY <1>1, <2>1, <2>2, <2>3, Lands DEF Puts_leaf
  <2> QED
    BY <2>2, <2>4
<1>4. CASE \E inner, items : Puts_held(inner, items)
  <2>1. PICK inner, items : Puts_held(inner, items)
    BY <1>4
  <2>2. Undisturbed /\ (Placed => Placed') /\ (TextsMerged => TextsMerged')
    BY <1>1, <2>1, PutsKeeps DEF Puts_held
  <2>3. phase' = phase /\ nodes \in DOMAIN lab'
    BY <2>1 DEF Puts_held, Puts
  <2>4. Fitting'
    BY <1>1, <2>1, <2>2, <2>3, Lands DEF Puts_held
  <2> QED
    BY <2>2, <2>4
<1>5. CASE \E inner, items : Lists(inner, items)
  <2>1. PICK inner, items : Lists(inner, items)
    BY <1>5
  <2>2. PICK t, d : Enlists(t, d)
    BY <2>1, EnlistIs DEF Lists
  <2>3. lab[current].type \in Containers
    BY <2>1 DEF Lists
  <2>4. Undisturbed /\ (Placed => Placed') /\ (TextsMerged => TextsMerged')
    BY <1>1, <2>2, <2>3, ListsKeeps
  <2>5. /\ phase' = phase /\ d \in DOMAIN lab' /\ lab'[d].type = "DEFINITION"
        /\ held' = Append(held, d)
    BY <2>2 DEF Enlists
  <2>6. Fitting'
    BY <1>1, <2>1, <2>4, <2>5, Lands DEF Lists
  <2> QED
    BY <2>4, <2>6
<1>6. CASE \E n \in DOMAIN lab : Cuts(n)
  <2>1. PICK n \in DOMAIN lab : Cuts(n)
    BY <1>6
  <2>2. Undisturbed /\ (Placed => Placed') /\ (TextsMerged => TextsMerged')
    BY <1>1, <2>1, CutsKeeps
  <2>3. phase' = phase /\ held' = held /\ work' = Instead(<<>>)
    BY <2>1 DEF Cuts, Removelast
  <2>4. Sane(<<>>, lab[current].type, lab')
    BY SaneNothing
  <2>5. Fitting'
    BY <1>1, <2>2, <2>3, <2>4, Lands
  <2> QED
    BY <2>2, <2>5
<1> QED
  BY <1>2, <1>3, <1>4, <1>5, <1>6 DEF Fine

-------------------------------------------------------------------------------
(***************************************************************************)
(* The metadata: what is returned is what is in the tree, and the tree has *)
(* no text after a text it could have been added to.                       *)
(***************************************************************************)
Headed ==
  Whole =>
    /\ \E S : metaq \in Seq(S)
    /\ phase = "parsing" /\ Heading => metaq = <<>>
    /\ \A n \in DOMAIN lab : lab[n].type = "DOC_HEADER" =>
         \A k \in DOMAIN kids[n] : lab[kids[n][k]].type = "META"

MInv == HeaderFirst /\ Fitting /\ Placed /\ TextsMerged /\ Headed /\ MetaAgree

\* After the header no step goes back to it.
LEMMA NotHeading == ASSUME Working PROVE ~Heading
<1> SUFFICES ASSUME Heading PROVE FALSE
  OBVIOUS
<1>1. PICK S : work \in Seq(Seq(S))
  BY DEF Working, Ordered
<1>2. Len(work) = 1 /\ Len(work[1]) = 1 /\ work[1][1].do = "header"
  BY DEF Heading, Do
<1>3. Doing(work, 1, 1, Text_last)
  BY <1>2 DEF Working, Ordered
<1> QED
  BY <1>2, <1>3 DEF Doing

\* A parse that fails leaves no tree to say anything of.
LEMMA GoneKeeps == phase' = "failed" => MInv'
BY DEF MInv, HeaderFirst, Fitting, Placed, TextsMerged, Headed, MetaAgree, Whole

LEMMA StepsGood == PInv /\ (Parses \/ Pop) => Good
BY GatherGood, BlockGood, ListsGood, TablesGood, InlinesGood, SpansGood, LinksGood, PopGood DEF Parses

\* The header and what is in it stay as they are.
LEMMA HeaderStays ==
  ASSUME PInv, MInv, phase = "parsing", phase' \in {"parsing", "done"}, metaq' = metaq, ~Heading',
         \A n \in DOMAIN lab' : lab'[n].type = "DOC_HEADER" =>
           n \in DOMAIN lab /\ lab[n].type = "DOC_HEADER" /\ kids'[n] = kids[n],
         \A n \in DOMAIN lab : lab[n].type = "META" => lab'[n] = lab[n] /\ kids'[n] = kids[n],
         \A n \in DOMAIN lab : n # Root /\ lab[par[n]].type = "META" => lab'[n] = lab[n]
  PROVE  Headed' /\ MetaAgree'
<1>1. /\ (\E S : metaq \in Seq(S)) /\ Whole
      /\ \A n \in DOMAIN lab : lab[n].type = "DOC_HEADER" =>
           \A k \in DOMAIN kids[n] : lab[kids[n][k]].type = "META"
  BY DEF MInv, Headed, Whole
<1>2. /\ \A n \in DOMAIN lab : \A k \in DOMAIN kids[n] : kids[n][k] \in DOMAIN lab /\ par[kids[n][k]] = n
      /\ \A n \in DOMAIN lab : \A k \in DOMAIN kids[n] : kids[n][k] # Root
      /\ \A n \in DOMAIN lab : DOMAIN kids[n] = 1 .. Len(kids[n]) /\ Len(kids[n]) \in Nat
      /\ \A n \in DOMAIN lab : kids[n] \in Seq(DOMAIN lab)
  BY TreeFacts
<1>3. \A n \in DOMAIN lab' : lab'[n].type = "DOC_HEADER" =>
        \A k \in DOMAIN kids'[n] : lab'[kids'[n][k]].type = "META"
  <2> SUFFICES ASSUME NEW n \in DOMAIN lab', lab'[n].type = "DOC_HEADER",
                      NEW k \in DOMAIN kids'[n]
               PROVE  lab'[kids'[n][k]].type = "META"
    OBVIOUS
  <2>1. n \in DOMAIN lab /\ lab[n].type = "DOC_HEADER" /\ kids'[n] = kids[n]
    OBVIOUS
  <2>2. kids[n][k] \in DOMAIN lab /\ lab[kids[n][k]].type = "META"
    BY <1>1, <1>2, <2>1
  <2>3. lab'[kids[n][k]] = lab[kids[n][k]]
    BY <2>2
  <2> QED
    BY <2>1, <2>2, <2>3
<1>4. Headed'
  BY <1>1, <1>3 DEF Headed
<1>5. ASSUME NEW n \in DOMAIN lab', lab'[n].type = "DOC_HEADER"
      PROVE  /\ Len(kids'[n]) = Len(metaq')
             /\ \A k \in DOMAIN metaq' :
                  LET m == kids'[n][k] IN
                  /\ lab'[m].text = metaq'[k].key
                  /\ IF kids'[m] = <<>> THEN Stripped(metaq'[k].val) = <<>>
                     ELSE lab'[kids'[m][1]].text = Stripped(metaq'[k].val)
             /\ \A j, k \in DOMAIN metaq' : metaq'[j].key = metaq'[k].key => j = k
  <2>1. n \in DOMAIN lab /\ lab[n].type = "DOC_HEADER" /\ kids'[n] = kids[n]
    BY <1>5
  <2>2. /\ Len(kids[n]) = Len(metaq)
        /\ \A k \in DOMAIN metaq :
             LET m == kids[n][k] IN
             /\ lab[m].text = metaq[k].key
             /\ IF kids[m] = <<>> THEN Stripped(metaq[k].val) = <<>>
                ELSE lab[kids[m][1]].text = Stripped(metaq[k].val)
        /\ \A j, k \in DOMAIN metaq : metaq[j].key = metaq[k].key => j = k
    BY <1>1, <2>1, Zenon DEF MInv, MetaAgree
  <2>3. DOMAIN metaq = DOMAIN kids[n]
    BY <1>1, <1>2, <2>1, <2>2, LenProperties
  <2>4. ASSUME NEW k \in DOMAIN metaq
        PROVE  /\ lab'[kids[n][k]] = lab[kids[n][k]] /\ kids'[kids[n][k]] = kids[kids[n][k]]
               /\ kids[kids[n][k]] # <<>> => lab'[kids[kids[n][k]][1]] = lab[kids[kids[n][k]][1]]
    <3> DEFINE m == kids[n][k]
    <3>1. m \in DOMAIN lab /\ lab[m].type = "META"
      BY <1>1, <1>2, <2>1, <2>3
    <3>2. lab'[m] = lab[m] /\ kids'[m] = kids[m]
      BY <3>1
    <3>3. ASSUME kids[m] # <<>> PROVE lab'[kids[m][1]] = lab[kids[m][1]]
      <4>1. 1 \in DOMAIN kids[m]
        BY <1>2, <3>1, <3>3, EmptySeq
      <4>2. kids[m][1] \in DOMAIN lab /\ par[kids[m][1]] = m /\ kids[m][1] # Root
        BY <1>2, <3>1, <4>1
      <4> QED
        BY <3>1, <4>2
    <3> QED
      BY <3>2, <3>3
  <2>5. ASSUME NEW k \in DOMAIN metaq
        PROVE  /\ lab'[kids[n][k]].text = metaq[k].key
               /\ IF kids'[kids[n][k]] = <<>> THEN Stripped(metaq[k].val) = <<>>
                  ELSE lab'[kids'[kids[n][k]][1]].text = Stripped(metaq[k].val)
    <3>1. /\ lab[kids[n][k]].text = metaq[k].key
          /\ IF kids[kids[n][k]] = <<>> THEN Stripped(metaq[k].val) = <<>>
             ELSE lab[kids[kids[n][k]][1]].text = Stripped(metaq[k].val)
      BY <2>2
    <3> QED
      BY <2>4, <3>1
  <2> QED
    BY <2>1, <2>2, <2>5
<1>6. MetaAgree'
  BY <1>5 DEF MetaAgree
<1> QED
  BY <1>4, <1>6

\* Steps that parse.
LEMMA ParsesKeep ==
  ASSUME PInv, MInv, Parses
  PROVE  MInv'
<1>1. Fitting /\ Placed /\ TextsMerged /\ HeaderFirst
  BY DEF MInv
<1>2. Good /\ Sorted /\ phase = "parsing"
  BY <1>1, StepsGood, ParsesFine, ParsesAt
<1>3. CASE Gone
  <2>1. phase' = "failed"
    BY <1>2, <1>3 DEF Gone, Good
  <2> QED
    BY <2>1, GoneKeeps
<1>4. CASE Fine
  <2>1. /\ Undisturbed /\ Fitting' /\ Placed' /\ TextsMerged'
    BY <1>1, <1>4, FineKeeps
  <2>2. metaq' = metaq /\ phase' = phase
    BY <1>4 DEF Fine, Alters, Puts_leaf, Puts_held, Puts, Lists, Cuts
  <2>3. HeaderFirst'
    BY <1>1, <1>2, HeaderNext DEF Good, PInv
  <2>4. ~Heading'
    <3>1. Working'
      BY <1>2, <2>2 DEF Good, Working
    <3>2. (Working => ~Heading)'
      BY NotHeading, PTL
    <3> QED
      BY <3>1, <3>2
  <2>5. Headed' /\ MetaAgree'
    BY <1>2, <2>1, <2>2, <2>4, HeaderStays DEF Undisturbed
  <2> QED
    BY <2>1, <2>3, <2>5 DEF MInv
<1> QED
  BY <1>2, <1>3, <1>4 DEF Sorted

\* A node is left.
LEMMA PopKeeps ==
  ASSUME PInv, MInv, Pop
  PROVE  MInv'
<1>1. /\ TNext /\ phase = "parsing" /\ phase' \in {"parsing", "done"}
      /\ held' = SubSeq(held, 1, Len(held) - 1) /\ lab' = lab
      /\ work # <<>> /\ work[Len(work)] = <<>>
      /\ work' = SubSeq(work, 1, Len(work) - 1)
  BY PopIs
<1>2. kids' = kids /\ par' = par /\ metaq' = metaq
  BY DEF Pop, Popnode, queues
<1>3. HeaderFirst'
  BY <1>1, HeaderNext DEF PInv, MInv
<1>4. Whole
  BY <1>1 DEF Whole
<1>5. Placed' /\ TextsMerged'
  BY <1>1, <1>2, <1>4 DEF MInv, Placed, TextsMerged
<1>6. Len(work) = Len(held) /\ \E S : work \in Seq(Seq(S))
  <2>1. CASE Working
    BY <2>1 DEF Working, Ordered
  <2>2. CASE Heading
    <3>1. work = <<<<Do("header")>>>>
      BY <2>2 DEF Heading
    <3> QED
      BY <1>1, <3>1
  <2>3. CASE Adding
    <3>1. PICK g : g.do = "gather" /\ work = <<<<g>>, <<>>>>
      <4>1. ASSUME NEW g, NEW x, work = <<<<g>>, <<x>>>> PROVE FALSE
        BY <1>1, <4>1
      <4> QED
        BY <2>3, <4>1 DEF Adding
    <3>2. work \in Seq(Seq({g})) /\ Len(work) = 2
      BY <3>1
    <3> QED
      BY <2>3, <3>2 DEF Adding
  <2> QED
    BY <1>1, <2>1, <2>2, <2>3 DEF PInv
<1>7. Fitting'
  <2>1. Fitted(work, held, lab)
    BY <1>1 DEF MInv, Fitting, Fitted
  <2>2. held \in Seq(DOMAIN lab)
    BY <1>1, TreeFacts
  <2>3. Fitted(SubSeq(work, 1, Len(work) - 1), SubSeq(held, 1, Len(held) - 1), lab)
    BY <1>1, <1>6, <2>1, <2>2, FittedFronted
  <2>4. Fitted(work', held', lab')
    BY <1>1, <2>3
  <2> QED
    BY <2>4 DEF Fitting, Fitted
<1>8. phase' = "parsing" => ~Heading'
  <2>1. phase' = "parsing" => Working'
    BY StepsGood DEF Good, Working
  <2>2. (Working => ~Heading)'
    BY NotHeading, PTL
  <2> QED
    BY <2>1, <2>2
<1>9. Headed'
  BY <1>1, <1>2, <1>4, <1>8 DEF MInv, Headed
<1>10. MetaAgree'
  BY <1>1, <1>2, <1>4 DEF MInv, MetaAgree
<1> QED
  BY <1>3, <1>5, <1>7, <1>9, <1>10 DEF MInv


\* What is done before the text is parsed fits, too.
LEMMA HeadingFits == PInv /\ Heading => Fitting
<1> SUFFICES ASSUME PInv, Heading, phase = "parsing" PROVE Fitting
  BY DEF Fitting
<1>1. lab[Root].type = "ROOT"
  BY DEF PInv, IInv, TreeWhole, Whole
<1> DEFINE h == Do("header")
<1>2. h.do = "header" /\ work = <<<<h>>>> /\ held = <<Root>>
  BY DEF Heading, Do
<1> HIDE DEF h
<1>3. Fits(h, "ROOT") /\ Refers(h, lab)
  BY <1>2 DEF Fits, Refers, Containers, Block_do
<1> QED
  BY <1>1, <1>2, <1>3 DEF Fitting

LEMMA AddingFits == PInv /\ Adding => Fitting
<1> SUFFICES ASSUME PInv, Adding, phase = "parsing" PROVE Fitting
  BY DEF Fitting
<1>1. /\ lab[Root].type = "ROOT" /\ Len(held) = 2 /\ held[1] = Root /\ held[2] = current
      /\ lab[current].type = "DOC_HEADER"
  BY DEF PInv, IInv, TreeWhole, Whole, StackIsPath, Adding
<1>2. PICK g : /\ g.do = "gather"
               /\ \/ work = <<<<g>>, <<>>>>
                  \/ \E x : x.do = "add_metadata" /\ work = <<<<g>>, <<x>>>>
  BY DEF Adding
<1>3. Fits(g, "ROOT") /\ Refers(g, lab)
  BY <1>2 DEF Fits, Refers, Containers, Block_do
<1>4. CASE work = <<<<g>>, <<>>>>
  BY <1>1, <1>3, <1>4 DEF Fitting
<1>5. ASSUME NEW x, x.do = "add_metadata", work = <<<<g>>, <<x>>>> PROVE Fitting
  <2>1. Fits(x, "DOC_HEADER") /\ Refers(x, lab)
    BY <1>5 DEF Fits, Refers
  <2> QED
    BY <1>1, <1>3, <1>5, <2>1 DEF Fitting
<1> QED
  BY <1>2, <1>4, <1>5

\* A parse begins with the root alone.
LEMMA ParseKeeps ==
  ASSUME PInv, MInv, Lowdown_doc_parse
  PROVE  MInv'
<1>1. /\ work' = <<<<Do("header")>>>> /\ in_link_body' = FALSE /\ metaq' = <<>> /\ Pushroot
  BY DEF Lowdown_doc_parse
<1>2. /\ kids' = [n \in {Root} |-> <<>>] /\ lab' = [n \in {Root} |-> Node("ROOT")]
      /\ held' = <<Root>> /\ phase' = "parsing"
  BY <1>1 DEF Pushroot
<1>3. Heading'
  BY <1>1, <1>2 DEF Heading, Do
<1>4. Fitting'
  <2>1. PInv'
    BY ParseBegins DEF Keeps
  <2>2. (PInv /\ Heading => Fitting)'
    BY HeadingFits, PTL
  <2> QED
    BY <1>3, <2>1, <2>2
<1>5. HeaderFirst'
  BY ParseBegins, HeaderNext DEF Keeps, PInv, MInv
<1>6. DOMAIN lab' = {Root} /\ lab'[Root].type = "ROOT" /\ DOMAIN kids' = {Root} /\ kids'[Root] = <<>>
  BY <1>2, NodeIs
<1>7. Placed' /\ TextsMerged' /\ MetaAgree'
  BY <1>6 DEF Placed, TextsMerged, MetaAgree
<1>8. Headed'
  <2>1. metaq' \in Seq({})
    BY <1>1, EmptySeq
  <2> QED
    BY <1>1, <1>6, <2>1 DEF Headed
<1> QED
  BY <1>4, <1>5, <1>7, <1>8 DEF MInv

\* The header comes.
LEMMA HeaderKeeps ==
  ASSUME PInv, MInv, Doc_header
  PROVE  MInv'
<1>1. Keeps /\ Heading /\ (phase' = "failed" \/ Header_put)
  BY HeaderBegins
<1>2. CASE phase' = "failed"
  BY <1>2, GoneKeeps
<1>3. CASE Header_put
  <2> DEFINE K == DOMAIN lab
  <2>1. phase = "parsing" /\ held = <<Root>> /\ kids[Root] = <<>>
    BY <1>1 DEF Heading, Doc_header, Now
  <2>2. /\ DOMAIN par = K /\ DOMAIN kids = K /\ Root \in K /\ nodes \notin K /\ nodes # Root
        /\ \A n \in K : n # Root => par[n] \in K
        /\ \A n \in K : kids[n] \in Seq(K)
        /\ \A n \in K : \A k \in DOMAIN kids[n] : kids[n][k] \in K
        /\ \A n \in K : DOMAIN kids[n] = 1 .. Len(kids[n]) /\ Len(kids[n]) \in Nat
    BY <2>1, TreeFacts
  <2>3. /\ kids' = [n \in K \cup {nodes} |-> IF n = nodes THEN <<>>
                                            ELSE IF n = Root THEN Append(kids[n], nodes) ELSE kids[n]]
        /\ par' = [n \in K \cup {nodes} |-> IF n = nodes THEN Root ELSE par[n]]
        /\ lab' = [n \in K \cup {nodes} |-> IF n = nodes THEN Node("DOC_HEADER") ELSE lab[n]]
        /\ metaq' = metaq /\ Adding' /\ current = Root
    BY <1>3 DEF Header_put, NewNode
  <2>4. /\ DOMAIN lab' = K \cup {nodes} /\ DOMAIN kids' = K \cup {nodes}
        /\ lab'[nodes].type = "DOC_HEADER" /\ \A n \in K : lab'[n] = lab[n] /\ par'[n] = par[n]
        /\ par'[nodes] = Root /\ kids'[nodes] = <<>>
        /\ \A n \in K \ {Root} : kids'[n] = kids[n]
        /\ kids'[Root] = Append(<<>>, nodes)
    BY <2>1, <2>2, <2>3, NodeIs
  <2>5. Len(kids'[Root]) = 1
    BY <2>4
  <2>6. /\ lab[Root].type = "ROOT" /\ Whole
        /\ \A n \in K : lab[n].type # "DOC_HEADER"
    BY <2>1, <2>2 DEF PInv, IInv, TreeWhole, Whole, MInv, HeaderFirst
  <2>7. PInv' /\ HeaderFirst'
    BY <1>1, HeaderNext DEF Keeps, PInv, MInv
  <2>8. Fitting'
    <3>1. (PInv /\ Adding => Fitting)'
      BY AddingFits, PTL
    <3> QED
      BY <2>3, <2>7, <3>1
  <2>9. Placed'
    <3>1. ASSUME NEW n \in DOMAIN lab', n # Root PROVE Below(lab'[n].type, lab'[par'[n]].type)
      <4>1. CASE n = nodes
        BY <2>2, <2>4, <2>6, <4>1 DEF Below, Wholes
      <4>2. CASE n \in K
        <5>1. Below(lab[n].type, lab[par[n]].type)
          BY <2>6, <3>1, <4>2 DEF MInv, Placed
        <5> QED
          BY <2>2, <2>4, <3>1, <4>2, <5>1
      <4> QED
        BY <2>4, <4>1, <4>2
    <3> QED
      BY <3>1 DEF Placed
  <2>10. TextsMerged'
    <3>1. ASSUME NEW n \in DOMAIN kids', NEW k \in 2 .. Len(kids'[n]),
                 lab'[kids'[n][k - 1]].type = "NORMAL_TEXT", lab'[kids'[n][k]].type = "NORMAL_TEXT"
          PROVE  lab'[kids'[n][k - 1]].fl # lab'[kids'[n][k]].fl
      <4>1. n \in K \ {Root}
        BY <2>4, <2>5, <3>1
      <4>2. kids'[n] = kids[n] /\ k \in DOMAIN kids[n] /\ k - 1 \in DOMAIN kids[n]
        BY <2>2, <2>4, <3>1, <4>1
      <4>3. /\ lab'[kids[n][k - 1]] = lab[kids[n][k - 1]] /\ lab'[kids[n][k]] = lab[kids[n][k]]
        BY <2>2, <2>4, <4>1, <4>2
      <4> QED
        BY <2>2, <2>6, <3>1, <4>1, <4>2, <4>3 DEF MInv, TextsMerged
    <3> QED
      BY <3>1 DEF TextsMerged
  <2>11. metaq = <<>>
    BY <1>1, <2>1, <2>6 DEF MInv, Headed
  <2>12. ~Heading'
    <3> SUFFICES ASSUME Heading' PROVE FALSE
      OBVIOUS
    <3>1. kids'[Root] = <<>>
      BY DEF Heading
    <3> QED
      BY <2>4, <2>5, <3>1
  <2>13. \A n \in DOMAIN lab' : lab'[n].type = "DOC_HEADER" => n = nodes
    BY <2>4, <2>6
  <2>14. Headed'
    <3>1. \E S : metaq' \in Seq(S)
      BY <2>3, <2>6 DEF MInv, Headed
    <3>2. \A n \in DOMAIN lab' : lab'[n].type = "DOC_HEADER" =>
            \A k \in DOMAIN kids'[n] : lab'[kids'[n][k]].type = "META"
      BY <2>4, <2>13
    <3> QED
      BY <2>12, <3>1, <3>2 DEF Headed
  <2>15. MetaAgree'
    <3>1. kids'[nodes] = <<>> /\ metaq' = <<>>
      BY <2>3, <2>4, <2>11
    <3>2. Len(kids'[nodes]) = Len(metaq') /\ DOMAIN metaq' = {}
      BY <3>1
    <3> QED
      BY <2>13, <3>2 DEF MetaAgree
  <2> QED
    BY <2>7, <2>8, <2>9, <2>10, <2>14, <2>15 DEF MInv
<1> QED
  BY <1>1, <1>2, <1>3


\* The place of a key among keys.
LEMMA KeyedIs ==
  ASSUME NEW key, NEW N \in Nat, NEW keys, DOMAIN keys = 1 .. N
  PROVE  \/ Keyed(key, keys) = 0 /\ \A j \in 1 .. N : keys[j] # key
         \/ Keyed(key, keys) \in 1 .. N /\ keys[Keyed(key, keys)] = key
<1> DEFINE T == {k \in 1 .. N : keys[k] = key}
<1>1. Keyed(key, keys) = IF T = {} THEN 0 ELSE Min(T)
  BY DEF Keyed, Least
<1>2. CASE T = {}
  BY <1>1, <1>2
<1>3. CASE T # {}
  <2>1. T \in SUBSET Nat
    OBVIOUS
  <2> HIDE DEF T
  <2>2. \E x \in T : \A y \in T : x <= y
    BY <1>3, <2>1, LeastOf
  <2>3. Min(T) \in T
    BY <2>2 DEF Min
  <2> QED
    BY <1>1, <1>3, <2>3 DEF T
<1> QED
  BY <1>2, <1>3

\* What is left of a sequence without its k-th, if there is one.
At_of(k, j) == IF k = 0 \/ j < k THEN j ELSE j + 1

Left_of(s, k) == IF k = 0 THEN s ELSE Without(s, k)

LEMMA LeftOf ==
  ASSUME NEW S, NEW s \in Seq(S), NEW k \in 0 .. Len(s)
  PROVE  /\ Left_of(s, k) \in Seq(S) /\ Len(Left_of(s, k)) \in Nat
         /\ Len(Left_of(s, k)) = Len(s) - (IF k = 0 THEN 0 ELSE 1)
         /\ \A j \in 1 .. Len(Left_of(s, k)) :
              /\ At_of(k, j) \in 1 .. Len(s) /\ At_of(k, j) # k
              /\ Left_of(s, k)[j] = s[At_of(k, j)]
<1> DEFINE r == Left_of(s, k)
<1>0. r = IF k = 0 THEN s ELSE Without(s, k)
  BY DEF Left_of
<1> HIDE DEF r
<1>1. Len(s) \in Nat /\ DOMAIN s = 1 .. Len(s)
  BY LenProperties
<1> DEFINE Good_left == /\ r \in Seq(S) /\ Len(r) \in Nat /\ Len(r) = Len(s) - (IF k = 0 THEN 0 ELSE 1)
                        /\ \A j \in 1 .. Len(r) : /\ At_of(k, j) \in 1 .. Len(s) /\ At_of(k, j) # k
                                                  /\ r[j] = s[At_of(k, j)]
<1>2. ASSUME k = 0 PROVE Good_left
  BY <1>0, <1>1, <1>2 DEF At_of
<1>3. ASSUME k # 0 PROVE Good_left
  <2>1. k \in 1 .. Len(s) /\ r = Without(s, k)
    BY <1>0, <1>1, <1>3
  <2>2. r \in Seq(S) /\ DOMAIN r = 1 .. Len(s) - 1
    BY <2>1, Dropped
  <2>3. Len(r) = Len(s) - 1 /\ Len(r) \in Nat
    <3>1. Len(r) \in Nat /\ DOMAIN r = 1 .. Len(r)
      BY <2>2, LenProperties
    <3>2. 1 .. Len(r) = 1 .. Len(s) - 1
      BY <2>2, <3>1
    <3>3. \A x \in Nat : 1 .. x # {} => x - 1 \in Nat
      OBVIOUS
    <3>4. Len(s) - 1 \in Nat
      BY <1>1, <2>1, <3>3
    <3> QED
      BY <3>1, <3>2, <3>4, SameLength
  <2>4. \A j \in 1 .. Len(s) - 1 : r[j] = s[IF j < k THEN j ELSE j + 1]
    BY <2>1 DEF Without
  <2>5. \A j \in 1 .. Len(s) - 1 : At_of(k, j) \in 1 .. Len(s) /\ At_of(k, j) # k
    BY <1>1, <2>1 DEF At_of
  <2> QED
    BY <1>3, <2>2, <2>3, <2>4, <2>5 DEF At_of
<1> QED
  BY <1>2, <1>3 DEF r

LEMMA AtOnce ==
  ASSUME NEW k \in Nat, NEW i \in Nat, NEW j \in Nat, At_of(k, i) = At_of(k, j)
  PROVE  i = j
BY DEF At_of

LEMMA RemovedIs ==
  ASSUME NEW S, NEW s \in Seq(S), NEW k \in 1 .. Len(s)
  PROVE  RemoveAt(s, k) = Without(s, k)
<1> DEFINE a == SubSeq(s, 1, k - 1)
           b == SubSeq(s, k + 1, Len(s))
           n == Len(s)
<1>1. n \in Nat /\ k \in 1 .. n
  BY LenProperties
<1>2. /\ a \in Seq(S) /\ Len(a) = k - 1 /\ \A j \in 1 .. k - 1 : a[j] = s[j]
  BY <1>1
<1>3. /\ b \in Seq(S) /\ Len(b) = n - k /\ \A j \in 1 .. n - k : b[j] = s[j + k]
  BY <1>1
<1>4. RemoveAt(s, k) = a \o b
  BY DEF RemoveAt
<1> HIDE DEF a, b, n
<1>5. /\ a \o b \in Seq(S) /\ Len(a \o b) = n - 1
      /\ \A j \in 1 .. n - 1 : (a \o b)[j] = IF j <= k - 1 THEN a[j] ELSE b[j - (k - 1)]
  <2>1. /\ a \o b \in Seq(S) /\ Len(a \o b) = Len(a) + Len(b)
        /\ \A j \in 1 .. Len(a) + Len(b) :
             (a \o b)[j] = IF j <= Len(a) THEN a[j] ELSE b[j - Len(a)]
    BY <1>2, <1>3, ConcatProperties
  <2>2. Len(a) + Len(b) = n - 1
    BY <1>1, <1>2, <1>3
  <2> QED
    BY <1>2, <2>1, <2>2
<1>6. \A j \in 1 .. n - 1 : (a \o b)[j] = s[IF j < k THEN j ELSE j + 1]
  <2> SUFFICES ASSUME NEW j \in 1 .. n - 1 PROVE (a \o b)[j] = s[IF j < k THEN j ELSE j + 1]
    OBVIOUS
  <2>1. CASE j < k
    BY <1>1, <1>2, <1>5, <2>1
  <2>2. CASE ~(j < k)
    <3>1. j - (k - 1) \in 1 .. n - k /\ (j - (k - 1)) + k = j + 1 /\ ~(j <= k - 1)
      BY <1>1, <2>2
    <3>2. (a \o b)[j] = b[j - (k - 1)]
      BY <1>5, <3>1
    <3>3. b[j - (k - 1)] = s[(j - (k - 1)) + k]
      BY <1>3, <3>1
    <3>4. (IF j < k THEN j ELSE j + 1) = j + 1
      BY <2>2
    <3> QED
      BY <3>1, <3>2, <3>3, <3>4
  <2> QED
    BY <2>1, <2>2
<1> DEFINE c == a \o b
<1>9. c \in Seq(S) /\ Len(c) = n - 1
  BY <1>5
<1>10. (\A j \in 1 .. n - 1 : c[j] = s[IF j < k THEN j ELSE j + 1]) /\ RemoveAt(s, k) = c
  BY <1>4, <1>6
<1> HIDE DEF c
<1>7. c = [j \in 1 .. n - 1 |-> c[j]]
  BY <1>1, <1>9
<1>8. Without(s, k) = [j \in 1 .. n - 1 |-> s[IF j < k THEN j ELSE j + 1]]
  BY DEF Without, n
<1> QED
  BY <1>7, <1>8, <1>10

-------------------------------------------------------------------------------
Put_entry(entry, k, m) ==
  /\ k = Keyed(entry.key, [j \in DOMAIN kids[current] |-> lab[kids[current][j]].text])
  /\ m = Keyed(entry.key, [j \in DOMAIN metaq |-> metaq[j].key])
  /\ Putmeta(k, Label("META", entry.key, {}, 0, <<>>), Stripped(entry.val))
  /\ metaq' = Append(Meta_without(m), entry)

LEMMA EntryPut ==
  ASSUME PInv, Add_metadata
  PROVE  /\ Keeps /\ Adding /\ phase = "parsing"
         /\ \/ phase' = "failed"
            \/ Adding' /\ phase' = "parsing" /\ \E entry, k, m : Put_entry(entry, k, m)
<1>1. Keeps /\ Adding /\ (phase' = "failed" \/ Adding') /\ phase = "parsing"
  BY MetadataAdded DEF Add_metadata, Now
<1>2. /\ lab[current].type = "DOC_HEADER"
      /\ \A j \in DOMAIN kids[current] : lab[kids[current][j]].type = "META"
  BY <1>1 DEF Adding
<1>3. PICK entry : entry = Head(Item.entries)
  OBVIOUS
<1>4. PICK k : k = Keyed(entry.key, [j \in DOMAIN kids[current] |-> lab[kids[current][j]].text])
  OBVIOUS
<1>5. PICK m : m = Keyed(entry.key, [j \in DOMAIN metaq |-> metaq[j].key])
  OBVIOUS
<1>6. \/ Fails("depth")
      \/ /\ Putmeta(k, Label("META", entry.key, {}, 0, <<>>), Stripped(entry.val))
         /\ metaq' = Append(Meta_without(m), entry)
  BY <1>2, <1>3, <1>4, <1>5, Zenon DEF Add_metadata, Asserting
<1>7. CASE Fails("depth")
  BY <1>1, <1>7 DEF Fails, Failed
<1>8. CASE /\ Putmeta(k, Label("META", entry.key, {}, 0, <<>>), Stripped(entry.val))
           /\ metaq' = Append(Meta_without(m), entry)
  <2>1. phase' = phase
    BY <1>8 DEF Putmeta
  <2>2. Put_entry(entry, k, m)
    BY <1>4, <1>5, <1>8 DEF Put_entry
  <2> QED
    BY <1>1, <2>1, <2>2
<1> QED
  BY <1>6, <1>7, <1>8


\* What Putmeta does to the tree: gone is a node of the header, with its text.
Left(k) == Left_of(kids[current], k)

Replaces(k, l, text, gone) ==
  /\ k \in 0 .. Len(kids[current])
  /\ \A g \in gone : k # 0 /\ g # current /\ (g = kids[current][k] \/ (g # Root /\ par[g] = kids[current][k]))
  /\ DOMAIN lab' = (DOMAIN lab \ gone) \cup Metadata_ids(l, text) /\ DOMAIN kids' = DOMAIN lab'
  /\ \A n \in DOMAIN lab \ gone : lab'[n] = lab[n] /\ par'[n] = par[n]
  /\ \A n \in DOMAIN lab \ gone : n # current => kids'[n] = kids[n]
  /\ kids'[current] = Append(Left(k), nodes)
  /\ lab'[nodes] = l /\ par'[nodes] = current
  /\ kids'[nodes] = IF text = <<>> THEN <<>> ELSE <<nodes + 1>>
  /\ text # <<>> => /\ lab'[nodes + 1] = Text({}, text) /\ par'[nodes + 1] = nodes
                    /\ kids'[nodes + 1] = <<>>
  /\ UNCHANGED <<current, phase>>

LEMMA PutmetaIs ==
  ASSUME PInv, phase = "parsing", lab[current].type = "DOC_HEADER",
         \A j \in DOMAIN kids[current] : lab[kids[current][j]].type = "META",
         NEW k, NEW l, NEW text, Putmeta(k, l, text)
  PROVE  \E gone : Replaces(k, l, text, gone)
<1> DEFINE K == DOMAIN lab
           c == current
           cs == kids[c]
           old == IF k = 0 THEN {} ELSE {cs[k]}
           gone == old \cup UNION {{kids[o][j] : j \in DOMAIN kids[o]} : o \in old}
           kept == K \ gone
           new == Metadata_ids(l, text)
           left == IF k = 0 THEN cs
                   ELSE [j \in 1 .. Len(cs) - 1 |-> cs[IF j < k THEN j ELSE j + 1]]
           t == Text({}, text)
<1>1. /\ k \in 0 .. Len(cs)
      /\ kids' = [n \in kept \cup new |-> IF n = c THEN Append(left, nodes)
                                         ELSE IF n \in kept THEN kids[n]
                                         ELSE IF n = nodes /\ text # <<>> THEN <<nodes + 1>> ELSE <<>>]
      /\ par' = [n \in kept \cup new |-> IF n \in kept THEN par[n] ELSE IF n = nodes THEN c ELSE nodes]
      /\ lab' = [n \in kept \cup new |-> IF n \in kept THEN lab[n] ELSE IF n = nodes THEN l ELSE t]
      /\ UNCHANGED <<current, phase>>
  BY DEF Putmeta
<1>2. /\ DOMAIN kids = K /\ nodes \notin K /\ nodes + 1 \notin K /\ nodes # nodes + 1 /\ c \in K
      /\ \A n \in K : \A j \in DOMAIN kids[n] : kids[n][j] \in K /\ par[kids[n][j]] = n
      /\ \A n \in K : \A j \in DOMAIN kids[n] : kids[n][j] # Root
      /\ \A n \in K : DOMAIN kids[n] = 1 .. Len(kids[n]) /\ Len(kids[n]) \in Nat
  BY TreeFacts
<1>3. \A o \in old : k # 0 /\ o = cs[k] /\ o \in K /\ lab[o].type = "META"
  <2>1. k # 0 => k \in DOMAIN cs
    BY <1>1, <1>2
  <2> QED
    BY <1>2, <2>1
<1>4. ASSUME NEW g \in gone
      PROVE  k # 0 /\ g # current /\ (g = cs[k] \/ (g # Root /\ par[g] = cs[k]))
  <2>1. CASE g \in old
    BY <1>3, <2>1
  <2>2. ASSUME NEW o \in old, NEW j \in DOMAIN kids[o], g = kids[o][j]
        PROVE  k # 0 /\ g # current /\ g # Root /\ par[g] = cs[k]
    <3>1. lab[g].type = "NORMAL_TEXT"
      BY <1>2, <1>3, <2>2 DEF PInv, IInv, TreeWhole, LeavesBare
    <3> QED
      BY <1>2, <1>3, <2>2, <3>1
  <2> QED
    BY <1>4, <2>1, <2>2
<1>5. left = Left(k)
  BY DEF Left, Left_of, Without
<1>6. /\ new \subseteq {nodes, nodes + 1} /\ nodes \in new /\ (text # <<>> => nodes + 1 \in new)
      /\ (text = <<>> => new = {nodes})
  BY DEF Metadata_ids
<1>7. c \notin gone
  BY <1>4
<1> HIDE DEF gone, old, left, new, t
<1>8. /\ DOMAIN lab' = kept \cup new /\ DOMAIN kids' = DOMAIN lab'
      /\ \A n \in kept : lab'[n] = lab[n] /\ par'[n] = par[n]
      /\ \A n \in kept : n # c => kids'[n] = kids[n]
      /\ kids'[c] = Append(left, nodes)
  BY <1>1, <1>2, <1>7
<1>9. nodes \notin kept /\ nodes + 1 \notin kept /\ nodes # c /\ nodes + 1 # c
  BY <1>2
<1>10. /\ lab'[nodes] = l /\ par'[nodes] = c
       /\ kids'[nodes] = IF text = <<>> THEN <<>> ELSE <<nodes + 1>>
  BY <1>1, <1>6, <1>9
<1>11. text # <<>> => lab'[nodes + 1] = t /\ par'[nodes + 1] = nodes /\ kids'[nodes + 1] = <<>>
  BY <1>1, <1>2, <1>6, <1>9
<1>12. Replaces(k, l, text, gone)
  BY <1>1, <1>4, <1>5, <1>8, <1>10, <1>11 DEF Replaces, new, t
<1> QED
  BY <1>12


\* The node of a key is where its entry is.
LEMMA EntryAt ==
  ASSUME PInv, MInv, phase = "parsing", Adding, NEW entry, NEW k, NEW m, Put_entry(entry, k, m)
  PROVE  /\ m = k /\ k \in 0 .. Len(metaq) /\ Len(kids[current]) = Len(metaq)
         /\ Len(metaq) \in Nat /\ DOMAIN metaq = 1 .. Len(metaq)
         /\ Meta_without(k) = Left_of(metaq, k)
         /\ \A j \in 1 .. Len(metaq) :
              LET n == kids[current][j] IN
              /\ lab[n].text = metaq[j].key
              /\ IF kids[n] = <<>> THEN Stripped(metaq[j].val) = <<>>
                 ELSE lab[kids[n][1]].text = Stripped(metaq[j].val)
         /\ \A i, j \in 1 .. Len(metaq) : metaq[i].key = metaq[j].key => i = j
         /\ \A j \in 1 .. Len(metaq) : metaq[j].key = entry.key => j = k
<1> DEFINE cs == kids[current]
           N == Len(metaq)
           f == [j \in DOMAIN cs |-> lab[cs[j]].text]
           g == [j \in DOMAIN metaq |-> metaq[j].key]
<1>1. /\ (\E S : metaq \in Seq(S)) /\ Whole /\ lab[current].type = "DOC_HEADER"
  BY DEF MInv, Headed, Whole, Adding
<1>2. current \in DOMAIN lab /\ DOMAIN cs = 1 .. Len(cs)
  BY TreeFacts
<1>3. /\ Len(cs) = N
      /\ \A j \in DOMAIN metaq :
           LET n == cs[j] IN
           /\ lab[n].text = metaq[j].key
           /\ IF kids[n] = <<>> THEN Stripped(metaq[j].val) = <<>>
              ELSE lab[kids[n][1]].text = Stripped(metaq[j].val)
      /\ \A i, j \in DOMAIN metaq : metaq[i].key = metaq[j].key => i = j
  BY <1>1, <1>2, Zenon DEF MInv, MetaAgree
<1>4. N \in Nat /\ DOMAIN metaq = 1 .. N
  BY <1>1, LenProperties
<1>5. f = g
  <2>1. DOMAIN cs = DOMAIN metaq
    BY <1>2, <1>3, <1>4
  <2>2. \A j \in DOMAIN metaq : lab[cs[j]].text = metaq[j].key
    BY <1>3
  <2> QED
    BY <2>1, <2>2
<1>6. DOMAIN g = 1 .. N /\ \A j \in 1 .. N : g[j] = metaq[j].key
  BY <1>4
<1>7. k = Keyed(entry.key, f) /\ m = Keyed(entry.key, g)
  BY DEF Put_entry
<1>8. \/ m = 0 /\ \A j \in 1 .. N : g[j] # entry.key
      \/ m \in 1 .. N /\ g[m] = entry.key
  <2> HIDE DEF g
  <2> QED
    BY <1>4, <1>6, <1>7, KeyedIs
<1>9. m = k /\ k \in 0 .. N
  BY <1>4, <1>5, <1>7, <1>8
<1>10. \A j \in 1 .. N : metaq[j].key = entry.key => j = k
  BY <1>3, <1>4, <1>6, <1>8, <1>9
<1>11. Meta_without(k) = Left_of(metaq, k)
  <2>1. CASE k = 0
    BY <2>1 DEF Meta_without, Left_of
  <2>2. CASE k # 0
    <3>1. PICK S : metaq \in Seq(S)
      BY <1>1
    <3>2. k \in 1 .. N
      BY <1>4, <1>9, <2>2
    <3> QED
      BY <2>2, <3>1, <3>2, RemovedIs DEF Meta_without, Left_of
  <2> QED
    BY <2>1, <2>2
<1> QED
  BY <1>3, <1>4, <1>9, <1>10, <1>11

\* What is known of the tree after a step, too.
TreeShape ==
  /\ \A n \in DOMAIN lab : n # Root => par[n] \in DOMAIN lab
  /\ \A n \in DOMAIN lab : \A j \in DOMAIN kids[n] : kids[n][j] \in DOMAIN lab
  /\ \A n \in DOMAIN lab : DOMAIN kids[n] = 1 .. Len(kids[n]) /\ Len(kids[n]) \in Nat

LEMMA ShapeHolds == PInv /\ phase = "parsing" => TreeShape
BY TreeFacts DEF TreeShape

\* An entry of the metadata is put.
LEMMA MetadataKeeps ==
  ASSUME PInv, MInv, Add_metadata
  PROVE  MInv'
<1>1. /\ Keeps /\ Adding /\ phase = "parsing"
      /\ \/ phase' = "failed"
         \/ Adding' /\ phase' = "parsing" /\ \E entry, k, m : Put_entry(entry, k, m)
  BY EntryPut
<1>2. CASE phase' = "failed"
  BY <1>2, GoneKeeps
<1>3. ASSUME Adding', phase' = "parsing", NEW entry, NEW k, NEW m, Put_entry(entry, k, m)
      PROVE  MInv'
  <2> DEFINE K == DOMAIN lab
             c == current
             cs == kids[c]
             N == Len(metaq)
             text == Stripped(entry.val)
             l == Label("META", entry.key, {}, 0, <<>>)
  <2>1. /\ m = k /\ k \in 0 .. N /\ Len(cs) = N
        /\ N \in Nat /\ DOMAIN metaq = 1 .. N
        /\ Meta_without(k) = Left_of(metaq, k)
        /\ \A j \in 1 .. N :
             LET n == cs[j] IN
             /\ lab[n].text = metaq[j].key
             /\ IF kids[n] = <<>> THEN Stripped(metaq[j].val) = <<>>
                ELSE lab[kids[n][1]].text = Stripped(metaq[j].val)
        /\ \A i, j \in 1 .. N : metaq[i].key = metaq[j].key => i = j
        /\ \A j \in 1 .. N : metaq[j].key = entry.key => j = k
    BY <1>1, <1>3, EntryAt
  <2>2. Putmeta(k, l, text) /\ metaq' = Append(Meta_without(m), entry)
    BY <1>3 DEF Put_entry
  <2>3. lab[c].type = "DOC_HEADER" /\ \A j \in DOMAIN cs : lab[cs[j]].type = "META"
    BY <1>1 DEF Adding
  <2>4. PICK gone : Replaces(k, l, text, gone)
    BY <1>1, <2>2, <2>3, PutmetaIs
  <2>5. l.type = "META" /\ l.text = entry.key /\ Text({}, text).type = "NORMAL_TEXT" /\ Text({}, text).text = text
    BY DEF Label, Text
  <2> DEFINE new == Metadata_ids(l, text)
             t == Text({}, text)
             left == Left(k)
             rest == Left_of(metaq, k)
  <2>6. /\ \A g \in gone : k # 0 /\ g # c /\ (g = cs[k] \/ (g # Root /\ par[g] = cs[k]))
        /\ DOMAIN lab' = (K \ gone) \cup new /\ DOMAIN kids' = DOMAIN lab'
        /\ \A n \in K \ gone : lab'[n] = lab[n] /\ par'[n] = par[n]
        /\ \A n \in K \ gone : n # c => kids'[n] = kids[n]
        /\ kids'[c] = Append(left, nodes)
        /\ lab'[nodes] = l /\ par'[nodes] = c
        /\ kids'[nodes] = IF text = <<>> THEN <<>> ELSE <<nodes + 1>>
        /\ text # <<>> => lab'[nodes + 1] = t /\ par'[nodes + 1] = nodes /\ kids'[nodes + 1] = <<>>
        /\ current' = c
    BY <2>4 DEF Replaces
  <2>7. /\ new \subseteq {nodes, nodes + 1} /\ nodes \in new /\ (nodes + 1 \in new => text # <<>>)
        /\ (text # <<>> => nodes + 1 \in new) /\ nodes # nodes + 1
    <3>1. nodes # nodes + 1
      BY <1>1, TreeFacts
    <3> QED
      BY <3>1 DEF Metadata_ids
  <2>8. metaq' = Append(rest, entry)
    BY <2>1, <2>2
  <2> HIDE DEF l, text, t, new, left, rest
  <2>9. /\ DOMAIN par = K /\ DOMAIN kids = K /\ c \in K
        /\ nodes \notin K /\ nodes + 1 \notin K /\ nodes # Root /\ nodes + 1 # Root
        /\ Root \in K
        /\ \A n \in K : kids[n] \in Seq(K)
        /\ \A n \in K : n # Root => par[n] \in K
        /\ \A n \in K : \A j \in DOMAIN kids[n] : kids[n][j] \in K /\ par[kids[n][j]] = n
        /\ \A n \in K : \A j \in DOMAIN kids[n] : kids[n][j] # Root
        /\ \A n \in K : DOMAIN kids[n] = 1 .. Len(kids[n]) /\ Len(kids[n]) \in Nat
        /\ \A n \in K : \A i, j \in DOMAIN kids[n] : kids[n][i] = kids[n][j] => i = j
    BY <1>1, TreeFacts
  <2>10. PInv' /\ HeaderFirst'
    BY <1>1, HeaderNext DEF Keeps, PInv, MInv
  <2>11. Fitting'
    <3>1. (PInv /\ Adding => Fitting)'
      BY AddingFits, PTL
    <3> QED
      BY <1>3, <2>10, <3>1
  <2>12. /\ \A n \in DOMAIN lab' : n # Root => par'[n] \in DOMAIN lab'
         /\ \A n \in DOMAIN lab' : \A j \in DOMAIN kids'[n] : kids'[n][j] \in DOMAIN lab'
         /\ \A n \in DOMAIN lab' : DOMAIN kids'[n] = 1 .. Len(kids'[n]) /\ Len(kids'[n]) \in Nat
    <3>1. (PInv /\ phase = "parsing" => TreeShape)'
      BY ShapeHolds, PTL
    <3> QED
      BY <1>3, <2>10, <3>1 DEF TreeShape
  <2>13. \A n \in DOMAIN lab' : n \in K \ gone \/ n = nodes \/ (n = nodes + 1 /\ text # <<>>)
    BY <2>6, <2>7
  <2>14. Below("META", "DOC_HEADER") /\ Below("NORMAL_TEXT", "META")
    BY DEF Below, Wholes
  <2>15. c \notin gone /\ lab'[c] = lab[c]
    BY <2>6, <2>9
  <2>16. Placed'
    <3>1. ASSUME NEW n \in DOMAIN lab', n # Root PROVE Below(lab'[n].type, lab'[par'[n]].type)
      <4>1. CASE n = nodes
        BY <2>3, <2>5, <2>6, <2>14, <2>15, <4>1 DEF l
      <4>2. CASE n = nodes + 1 /\ text # <<>>
        BY <2>5, <2>6, <2>14, <4>2 DEF l, t
      <4>3. CASE n \in K \ gone
        <5>1. Below(lab[n].type, lab[par[n]].type)
          BY <1>1, <3>1, <4>3 DEF MInv, Placed, Whole
        <5>2. par'[n] = par[n] /\ par[n] \in K /\ par[n] \in DOMAIN lab'
          BY <2>6, <2>9, <2>12, <3>1, <4>3
        <5>3. par[n] \in K \ gone
          BY <2>6, <2>7, <2>9, <5>2
        <5> QED
          BY <2>6, <4>3, <5>1, <5>2, <5>3
      <4> QED
        BY <2>13, <3>1, <4>1, <4>2, <4>3
    <3> QED
      BY <3>1 DEF Placed
  <2>17. \A j \in DOMAIN kids'[c] : lab'[kids'[c][j]].type = "META"
    BY <1>3, <2>6 DEF Adding
  <2>18. TextsMerged'
    <3>1. ASSUME NEW n \in DOMAIN kids', NEW i \in 2 .. Len(kids'[n]),
                 lab'[kids'[n][i - 1]].type = "NORMAL_TEXT", lab'[kids'[n][i]].type = "NORMAL_TEXT"
          PROVE  lab'[kids'[n][i - 1]].fl # lab'[kids'[n][i]].fl
      <4>1. i \in DOMAIN kids'[n] /\ i - 1 \in DOMAIN kids'[n] /\ Len(kids'[n]) > 1
        BY <2>6, <2>12, <3>1
      <4>2. n # c
        BY <2>17, <3>1, <4>1
      <4>3. n # nodes /\ ~(n = nodes + 1 /\ text # <<>>)
        BY <2>6, <4>1
      <4>4. n \in K \ gone /\ kids'[n] = kids[n]
        BY <2>6, <2>13, <3>1, <4>2, <4>3
      <4>5. /\ kids[n][i] \in DOMAIN lab' \cap K /\ kids[n][i - 1] \in DOMAIN lab' \cap K
        BY <2>6, <2>9, <2>12, <3>1, <4>1, <4>4
      <4>6. /\ lab'[kids[n][i]] = lab[kids[n][i]] /\ lab'[kids[n][i - 1]] = lab[kids[n][i - 1]]
        <5>1. kids[n][i] \in K \ gone /\ kids[n][i - 1] \in K \ gone
          BY <2>6, <2>7, <2>9, <4>5
        <5> QED
          BY <2>6, <5>1
      <4> QED
        BY <1>1, <2>9, <3>1, <4>4, <4>6 DEF MInv, TextsMerged, Whole
    <3> QED
      BY <3>1 DEF TextsMerged
  <2>19. PICK S : metaq \in Seq(S)
    BY <1>1 DEF MInv, Headed, Whole
  <2>20. /\ rest \in Seq(S) /\ Len(rest) = N - (IF k = 0 THEN 0 ELSE 1) /\ Len(rest) \in Nat
         /\ \A j \in 1 .. Len(rest) : /\ At_of(k, j) \in 1 .. N /\ At_of(k, j) # k
                                      /\ rest[j] = metaq[At_of(k, j)]
    BY <2>1, <2>19, LeftOf DEF rest
  <2>21. /\ left \in Seq(K) /\ Len(left) = N - (IF k = 0 THEN 0 ELSE 1)
         /\ \A j \in 1 .. Len(left) : left[j] = cs[At_of(k, j)]
    <3>1. cs \in Seq(K) /\ k \in 0 .. Len(cs)
      BY <2>1, <2>9
    <3>2. left = Left_of(cs, k)
      BY DEF left, Left
    <3>3. /\ Left_of(cs, k) \in Seq(K) /\ Len(Left_of(cs, k)) = Len(cs) - (IF k = 0 THEN 0 ELSE 1)
          /\ \A j \in 1 .. Len(Left_of(cs, k)) : Left_of(cs, k)[j] = cs[At_of(k, j)]
      BY <3>1, LeftOf
    <3> QED
      BY <2>1, <3>2, <3>3
  <2> DEFINE L == Len(rest)
  <2>22. /\ L \in Nat /\ Len(left) = L
         /\ Len(kids'[c]) = L + 1 /\ kids'[c][L + 1] = nodes
         /\ \A j \in 1 .. L : kids'[c][j] = cs[At_of(k, j)]
    <3>1. L \in Nat /\ Len(left) = L
      BY <2>20, <2>21
    <3>2. /\ Len(Append(left, nodes)) = Len(left) + 1 /\ Append(left, nodes)[Len(left) + 1] = nodes
          /\ \A j \in 1 .. Len(left) : Append(left, nodes)[j] = left[j]
      <4>1. K \subseteq K \cup {nodes} /\ nodes \in K \cup {nodes}
        OBVIOUS
      <4> QED
        BY <2>21, <4>1, Appended
    <3> QED
      BY <2>6, <2>21, <3>1, <3>2
  <2>23. /\ Len(metaq') = L + 1 /\ DOMAIN metaq' = 1 .. L + 1 /\ metaq'[L + 1] = entry
         /\ \A j \in 1 .. L : metaq'[j] = metaq[At_of(k, j)]
         /\ \E T : metaq' \in Seq(T)
    <3>1. S \subseteq S \cup {entry} /\ entry \in S \cup {entry}
      OBVIOUS
    <3>2. /\ Append(rest, entry) \in Seq(S \cup {entry}) /\ Len(Append(rest, entry)) = Len(rest) + 1
          /\ DOMAIN Append(rest, entry) = 1 .. Len(rest) + 1 /\ Append(rest, entry)[Len(rest) + 1] = entry
          /\ \A j \in 1 .. Len(rest) : Append(rest, entry)[j] = rest[j]
      BY <2>20, <3>1, Appended
    <3> QED
      BY <2>8, <2>20, <3>2
  <2>24. \A j \in 1 .. L : At_of(k, j) \in 1 .. N /\ At_of(k, j) # k
    BY <2>20
  <2> HIDE DEF L
  <2>25. ASSUME NEW i \in 1 .. N, i # k
         PROVE  /\ lab'[cs[i]] = lab[cs[i]] /\ kids'[cs[i]] = kids[cs[i]]
                /\ kids[cs[i]] # <<>> => lab'[kids[cs[i]][1]] = lab[kids[cs[i]][1]]
    <3> DEFINE n == cs[i]
    <3>1. i \in DOMAIN cs /\ (k # 0 => k \in DOMAIN cs)
      BY <2>1, <2>9
    <3>2. n \in K /\ par[n] = c /\ lab[n].type = "META" /\ n # c
      BY <2>3, <2>9, <3>1
    <3>3. k # 0 => cs[k] \in K /\ par[cs[k]] = c /\ cs[k] # c /\ cs[k] # n
      BY <2>3, <2>9, <2>25, <3>1
    <3> HIDE DEF n
    <3>4. n \notin gone
      BY <2>6, <3>2, <3>3
    <3>5. lab'[n] = lab[n] /\ kids'[n] = kids[n]
      BY <2>6, <3>2, <3>4
    <3>6. ASSUME kids[n] # <<>> PROVE lab'[kids[n][1]] = lab[kids[n][1]]
      <4>1. 1 \in DOMAIN kids[n]
        BY <2>9, <3>2, <3>6, EmptySeq
      <4>2. kids[n][1] \in K /\ par[kids[n][1]] = n
        BY <2>9, <3>2, <4>1
      <4>3. kids[n][1] \notin gone
        BY <2>6, <3>2, <3>3, <4>2
      <4> QED
        BY <2>6, <4>2, <4>3
    <3> QED
      BY <3>5, <3>6 DEF n
  <2>26. ASSUME NEW j \in DOMAIN metaq'
         PROVE  /\ lab'[kids'[c][j]].text = metaq'[j].key
                /\ IF kids'[kids'[c][j]] = <<>> THEN Stripped(metaq'[j].val) = <<>>
                   ELSE lab'[kids'[kids'[c][j]][1]].text = Stripped(metaq'[j].val)
    <3>1. CASE j \in 1 .. L
      <4> DEFINE i == At_of(k, j)
                 n == cs[i]
      <4>1. i \in 1 .. N /\ i # k /\ kids'[c][j] = n /\ metaq'[j] = metaq[i]
        BY <2>22, <2>23, <2>24, <3>1
      <4> HIDE DEF i
      <4>2. /\ lab[n].text = metaq[i].key
            /\ IF kids[n] = <<>> THEN Stripped(metaq[i].val) = <<>>
               ELSE lab[kids[n][1]].text = Stripped(metaq[i].val)
        BY <2>1, <4>1
      <4>3. /\ lab'[n] = lab[n] /\ kids'[n] = kids[n]
            /\ kids[n] # <<>> => lab'[kids[n][1]] = lab[kids[n][1]]
        BY <2>25, <4>1
      <4> HIDE DEF n
      <4> QED
        BY <4>1, <4>2, <4>3
    <3>2. CASE j = L + 1
      <4>1. kids'[c][j] = nodes /\ metaq'[j] = entry
        BY <2>22, <2>23, <3>2
      <4>2. lab'[nodes].text = entry.key
        BY <2>5, <2>6 DEF l
      <4>3. text = <<>> => kids'[nodes] = <<>>
        BY <2>6
      <4>4. text # <<>> => kids'[nodes] = <<nodes + 1>> /\ kids'[nodes][1] = nodes + 1 /\ lab'[nodes + 1].text = text
        BY <2>5, <2>6 DEF t
      <4>5. <<nodes + 1>> # <<>>
        OBVIOUS
      <4> QED
        BY <4>1, <4>2, <4>3, <4>4, <4>5 DEF text
    <3> QED
      BY <2>22, <2>23, <3>1, <3>2
  <2>27. \A i, j \in DOMAIN metaq' : metaq'[i].key = metaq'[j].key => i = j
    <3>1. \A i \in 1 .. L : metaq'[i].key # entry.key
      BY <2>1, <2>23, <2>24
    <3>2. \A i, j \in 1 .. L : metaq'[i].key = metaq'[j].key => i = j
      <4> SUFFICES ASSUME NEW i \in 1 .. L, NEW j \in 1 .. L, metaq'[i].key = metaq'[j].key
                   PROVE  i = j
        OBVIOUS
      <4>1. At_of(k, i) = At_of(k, j)
        BY <2>1, <2>23, <2>24
      <4>2. k \in Nat /\ i \in Nat /\ j \in Nat
        BY <2>1, <2>22
      <4> QED
        BY <4>1, <4>2, AtOnce
    <3>3. \A i \in DOMAIN metaq' : i \in 1 .. L \/ i = L + 1
      BY <2>22, <2>23
    <3> QED
      BY <2>23, <3>1, <3>2, <3>3
  <2>28. \A n \in DOMAIN lab' : lab'[n].type = "DOC_HEADER" => n = c
    <3>1. c \in DOMAIN lab' /\ lab'[c].type = "DOC_HEADER"
      BY <2>3, <2>6, <2>9, <2>15
    <3> QED
      BY <1>3, <2>6, <2>10, <3>1 DEF HeaderFirst, Whole
  <2>29. MetaAgree'
    BY <2>22, <2>23, <2>26, <2>27, <2>28 DEF MetaAgree
  <2>30. ~Heading'
    <3> SUFFICES ASSUME Heading' PROVE FALSE
      OBVIOUS
    <3>1. held' = <<Root>>
      BY DEF Heading
    <3>2. Len(held') = 1
      BY <3>1
    <3> QED
      BY <1>3, <3>2 DEF Adding
  <2>31. Headed'
    BY <2>17, <2>23, <2>28, <2>30 DEF Headed
  <2> QED
    BY <2>10, <2>11, <2>16, <2>18, <2>29, <2>31 DEF MInv
<1> QED
  BY <1>1, <1>2, <1>3


LEMMA InitMInv == Init => MInv
BY DEF Init, TInit, MInv, HeaderFirst, Fitting, Placed, TextsMerged, Headed, MetaAgree, Whole

LEMMA StuttersMInv == MInv /\ UNCHANGED vars => MInv'
<1> SUFFICES ASSUME MInv, UNCHANGED vars PROVE MInv'
  OBVIOUS
<1>1. UNCHANGED <<kids, par, lab, held, phase, work, metaq, in_link_body>>
  BY DEF vars, pvars, tvars
<1>2. HeaderFirst' /\ Placed' /\ TextsMerged' /\ MetaAgree'
  BY <1>1 DEF MInv, HeaderFirst, Placed, TextsMerged, MetaAgree, Whole
<1>3. Fitting'
  BY <1>1 DEF MInv, Fitting, Fits, Refers
<1>4. Headed'
  BY <1>1 DEF MInv, Headed, Heading, Whole, Do
<1> QED
  BY <1>2, <1>3, <1>4 DEF MInv

LEMMA NextMInv == PInv /\ MInv /\ [Next]_vars => MInv'
<1> SUFFICES ASSUME PInv, MInv, [Next]_vars PROVE MInv'
  OBVIOUS
<1>1. CASE Parses
  BY <1>1, ParsesKeep
<1>2. CASE Begin
  BY <1>2, ParseKeeps, HeaderKeeps, MetadataKeeps DEF Begin
<1>3. CASE Pop
  BY <1>3, PopKeeps
<1>4. CASE Out_of_memory
  BY <1>4, GoneKeeps DEF Out_of_memory, Fails, Failed
<1>5. CASE UNCHANGED vars
  BY <1>5, StuttersMInv
<1> QED
  BY <1>1, <1>2, <1>3, <1>4, <1>5 DEF Next, Step, Rest, Parses

LEMMA MetaInvariant == Spec => []MInv
<1>1. PInv /\ MInv /\ [Next]_vars => MInv'
  BY NextMInv
<1> QED
  BY <1>1, InitMInv, WorkInvariant, PTL DEF Spec

(***************************************************************************)
(* Whatever is parsed, text comes in as few nodes as it can: of two texts  *)
(* one after the other one is escaped and the other is not, though texts   *)
(* are added to, cut and taken back from, and nodes are moved              *)
(* (document.c:170, 1089, 3217).                                           *)
(***************************************************************************)
THEOREM TextsOnce == Spec => []TextsMerged
<1>1. MInv => TextsMerged
  BY DEF MInv
<1> QED
  BY <1>1, MetaInvariant, PTL

(***************************************************************************)
(* Whatever metadata there is, of the caller and of the document, what is  *)
(* returned and what is in the tree are the same, in the same order, each  *)
(* key once (document.c:4508-4577).                                        *)
(***************************************************************************)
THEOREM MetadataSame == Spec => []MetaAgree
<1>1. MInv => MetaAgree
  BY DEF MInv
<1> QED
  BY <1>1, MetaInvariant, PTL

-------------------------------------------------------------------------------
(***************************************************************************)
(* How many nodes are above one: no more than it was deep when it was      *)
(* made, and one more below a title that was moved, and one more where     *)
(* that is in a footnote.  What containers are in, up to a footnote, was   *)
(* never moved.                                                            *)
(***************************************************************************)
Unmoved == Containers \cup {"LIST", "DEFINITION", "DEFINITION_DATA"}

LEMMA MoreAbove ==
  ASSUME IInv, Whole, HeaderFirst, Placed, NEW L, Levelled(L), NEW S, Under("FOOTNOTE", S),
         NEW up,
         \A n \in DOMAIN lab : up[n] = IF par[n] = None THEN {} ELSE {par[n]} \cup up[par[n]],
         NEW n0 \in DOMAIN lab
  PROVE  /\ IsFiniteSet(up[n0])
         /\ Cardinality(up[n0]) <= L[n0] + 1
         /\ L[n0] \in Nat /\ (maxdepth # 0 => L[n0] <= maxdepth + 1)
<1> DEFINE K == DOMAIN lab
           foot(n) == IF n \in S \/ lab[n].type = "FOOTNOTE" THEN 1 ELSE 0
           moved(n) == IF lab[n].type \in Unmoved THEN 0 ELSE 1
           Fine_at(n) == IsFiniteSet(up[n]) /\ Cardinality(up[n]) <= L[n] - 1 + foot(n) + moved(n)
           B == {n \in K : ~Fine_at(n)}
<1>1. /\ Shaped /\ DOMAIN kids = K /\ DOMAIN par = K /\ nodes \in Nat /\ Root \in K
      /\ \A n \in K : par[n] = None <=> n = Root
      /\ lab[Root].type = "ROOT" /\ maxdepth \in Nat
  BY MaxdepthsAssumption DEF IInv, TTypeOK, TreeWhole, Shaped, Linked
<1>2. /\ \A n \in K : L[n] \in Nat
      /\ L[Root] = 1
      /\ \A n \in K : n # Root =>
           IF lab[n].type = "DEFINITION_TITLE" THEN L[n] = L[par[n]]
           ELSE L[n] = L[par[n]] + 1 /\ (maxdepth # 0 => L[par[n]] <= maxdepth)
  BY DEF Levelled
<1>3. \A n \in K : n # Root => par[n] \in K
  BY <1>1, MadeAfter
<1>4. ASSUME NEW n \in K, n # Root, Fine_at(par[n]) PROVE Fine_at(n)
  <2> DEFINE p == par[n]
  <2>1. p \in K /\ up[n] = {p} \cup up[p] /\ L[p] \in Nat /\ L[n] \in Nat
    BY <1>1, <1>2, <1>3, <1>4
  <2>2. /\ IsFiniteSet(up[p]) /\ Cardinality(up[p]) \in Nat
        /\ Cardinality(up[p]) <= L[p] - 1 + foot(p) + moved(p)
    BY <1>4, FS_CardinalityType
  <2>3. IsFiniteSet(up[n]) /\ Cardinality(up[n]) <= Cardinality(up[p]) + 1 /\ Cardinality(up[n]) \in Nat
    <3>1. up[n] = up[p] \cup {p}
      BY <2>1
    <3>2. /\ IsFiniteSet(up[p] \cup {p})
          /\ Cardinality(up[p] \cup {p}) = Cardinality(up[p]) \/ Cardinality(up[p] \cup {p}) = Cardinality(up[p]) + 1
      BY <2>2, FS_AddElement
    <3> QED
      BY <2>2, <3>1, <3>2
  <2>4. /\ Below(lab[n].type, lab[p].type)
        /\ lab[n].type # "ROOT"
        /\ lab[n].type = "DEFINITION_TITLE" => lab[p].type = "DEFINITION"
    BY <1>1, <1>4 DEF Placed, HeaderFirst, Shaped, Older
  <2>5. /\ n \in S <=> p \in S \/ lab[p].type = "FOOTNOTE"
        /\ lab[n].type = "FOOTNOTE" => n \notin S
    BY <1>4 DEF Under
  <2>6. /\ lab[n].type # "FOOTNOTE" => foot(n) = foot(p)
        /\ lab[n].type = "FOOTNOTE" => foot(n) = 1 /\ foot(p) = 0
    BY <2>5
  <2>7. /\ lab[n].type \in Unmoved /\ lab[n].type # "FOOTNOTE" => lab[p].type \in Unmoved
        /\ "DEFINITION" \in Unmoved /\ "DEFINITION_TITLE" \notin Unmoved /\ "FOOTNOTE" \in Unmoved
    BY <2>4 DEF Below, Unmoved, Containers, Wholes
  <2>8. /\ lab[n].type \in Unmoved => moved(n) = 0
        /\ lab[n].type \notin Unmoved => moved(n) = 1
        /\ lab[p].type \in Unmoved => moved(p) = 0
        /\ moved(p) \in {0, 1} /\ foot(p) \in {0, 1}
    OBVIOUS
  <2>9. /\ lab[n].type = "DEFINITION_TITLE" => L[n] = L[p]
        /\ lab[n].type # "DEFINITION_TITLE" => L[n] = L[p] + 1
    BY <1>2, <1>4
  <2> HIDE DEF p, foot, moved
  <2>10. Cardinality(up[n]) <= L[n] - 1 + foot(n) + moved(n)
    <3>1. CASE lab[n].type = "DEFINITION_TITLE"
      <4>1. moved(p) = 0 /\ moved(n) = 1 /\ foot(n) = foot(p) /\ L[n] = L[p]
        BY <2>4, <2>6, <2>7, <2>8, <2>9, <3>1
      <4> QED
        BY <2>1, <2>2, <2>3, <2>8, <4>1
    <3>2. CASE lab[n].type = "FOOTNOTE"
      <4>1. moved(n) = 0 /\ foot(n) = 1 /\ foot(p) = 0 /\ L[n] = L[p] + 1
        BY <2>6, <2>7, <2>8, <2>9, <3>2
      <4> QED
        BY <2>1, <2>2, <2>3, <2>8, <4>1
    <3>3. CASE lab[n].type \notin {"DEFINITION_TITLE", "FOOTNOTE"}
      <4>1. moved(p) <= moved(n) /\ moved(n) \in {0, 1} /\ foot(n) = foot(p) /\ L[n] = L[p] + 1
        BY <2>6, <2>7, <2>8, <2>9, <3>3
      <4> QED
        BY <2>1, <2>2, <2>3, <2>8, <4>1
    <3> QED
      BY <3>1, <3>2, <3>3
  <2> QED
    BY <2>3, <2>10
<1>5. Fine_at(Root)
  <2>1. up[Root] = {}
    BY <1>1
  <2>2. moved(Root) = 0
    BY <1>1 DEF Unmoved, Containers
  <2>3. foot(Root) \in Nat
    OBVIOUS
  <2>4. IsFiniteSet({}) /\ Cardinality({}) = 0
    BY FS_EmptySet
  <2> HIDE DEF foot, moved
  <2>5. 0 <= L[Root] - 1 + foot(Root) + moved(Root)
    BY <1>2, <2>2, <2>3
  <2> QED
    BY <2>1, <2>4, <2>5
<1> HIDE DEF Fine_at
<1>6. B = {}
  <2> SUFFICES ASSUME B # {} PROVE FALSE
    OBVIOUS
  <2>1. \A n \in B : n # Root
    BY <1>5
  <2>2. ASSUME NEW n \in B
        PROVE  /\ par[n] \in K /\ Made(n) \in Nat /\ Made(par[n]) \in Nat
               /\ Made(par[n]) < Made(n)
    <3>1. n \in DOMAIN kids /\ n # Root
      BY <1>1, <2>1
    <3>2. /\ par[n] \in K /\ Made(n) \in 0 .. 2 * nodes /\ Made(par[n]) \in 0 .. 2 * nodes
          /\ Made(par[n]) < Made(n)
      BY <1>1, <3>1, MadeAfter
    <3> QED
      BY <3>2
  <2> DEFINE M == {Made(n) : n \in B}
  <2>3. M \in SUBSET Nat /\ M # {}
    BY <2>2
  <2> HIDE DEF M
  <2>4. PICK x \in M : \A y \in M : x <= y
    BY <2>3, LeastOf
  <2>5. PICK n \in B : x = Made(n)
    BY <2>4 DEF M
  <2>6. par[n] \notin B
    <3>1. par[n] \in B => Made(n) <= Made(par[n])
      BY <2>4, <2>5 DEF M
    <3> QED
      BY <2>2, <3>1
  <2>7. Fine_at(par[n]) /\ n \in K /\ n # Root
    BY <2>1, <2>2, <2>6
  <2> QED
    BY <1>4, <2>7
<1>7. Fine_at(n0)
  BY <1>6
<1>8. IsFiniteSet(up[n0]) /\ Cardinality(up[n0]) <= L[n0] + 1
  <2>1. foot(n0) \in {0, 1} /\ moved(n0) \in {0, 1} /\ L[n0] \in Nat
    BY <1>2
  <2>2. IsFiniteSet(up[n0]) /\ Cardinality(up[n0]) <= L[n0] - 1 + foot(n0) + moved(n0)
    BY <1>7 DEF Fine_at
  <2> HIDE DEF foot, moved
  <2> QED
    BY <2>1, <2>2, FS_CardinalityType
<1>9. maxdepth # 0 => L[n0] <= maxdepth + 1
  <2> SUFFICES ASSUME maxdepth # 0 PROVE L[n0] <= maxdepth + 1
    OBVIOUS
  <2>1. CASE n0 = Root
    BY <1>1, <1>2, <2>1
  <2>2. CASE n0 # Root /\ lab[n0].type # "DEFINITION_TITLE"
    BY <1>1, <1>2, <1>3, <2>2
  <2>3. CASE n0 # Root /\ lab[n0].type = "DEFINITION_TITLE"
    <3>1. par[n0] \in K /\ lab[par[n0]].type = "DEFINITION" /\ par[n0] # Root
      BY <1>1, <1>3, <2>3 DEF Shaped, Older
    <3> QED
      BY <1>1, <1>2, <1>3, <2>3, <3>1
  <2> QED
    BY <2>1, <2>2, <2>3
<1> QED
  BY <1>2, <1>8, <1>9


\* Once a parse is done no node is held.
Emptied == phase = "done" => held = <<>>

LEMMA EmptiedNext ==
  ASSUME IInv, Emptied, [TNext]_tvars
  PROVE  Emptied'
<1>1. ASSUME NEW n, Popnode(n), phase' = "done" PROVE held' = <<>>
  <2>1. phase = "parsing" /\ depth = 1 /\ held' = SubSeq(held, 1, Len(held) - 1)
    BY <1>1 DEF Popnode
  <2>2. held \in Seq(DOMAIN kids) /\ Len(held) = 1
    BY <2>1 DEF IInv, StackIsPath, TTypeOK
  <2> QED
    BY <2>1, <2>2
<1>2. CASE UNCHANGED tvars
  BY <1>2 DEF tvars, Emptied
<1>3. CASE \E n \in DOMAIN lab : Popnode(n)
  BY <1>1, <1>3 DEF Emptied
<1>4. CASE Pushroot \/ Failed \/ Aborted
  BY <1>4 DEF Pushroot, Failed, Aborted, Emptied
<1>5. CASE Push \/ Leaf_node \/ Change
  BY <1>5 DEF Push, Leaf_node, Change, Pushnode, Pushleaf, Emptied
<1>6. CASE Cut_last \/ Enlist \/ (phase = "parsing" /\ Meta)
  BY <1>6 DEF Cut_last, Removelast, Enlist, Retitle, Entitle, Meta, Putmeta, Emptied
<1> QED
  BY <1>2, <1>3, <1>4, <1>5, <1>6 DEF TNext

LEMMA LevelInvariant == Spec => [](Levels /\ Emptied)
<1>1. TInit => Levels /\ Emptied
  BY LevelInit DEF TInit, Emptied
<1>2. IInv /\ Levels /\ Emptied /\ [TNext]_tvars => (Levels /\ Emptied)'
  BY LevelNext, EmptiedNext
<1>3. TSpec => [](Levels /\ Emptied)
  BY <1>1, <1>2, Invariant, PTL DEF TSpec
<1> QED
  BY <1>3, Implements, PTL

(***************************************************************************)
(* However a document nests, no more functions are in progress than        *)
(* maxdepth and one, and no node is more than two deeper: what is moved    *)
(* goes one deeper, and that happens once outside of footnotes and once    *)
(* inside (document.c:193, 3235).                                          *)
(***************************************************************************)
THEOREM DepthHeld == Spec => []DepthBounded
<1>1. PInv /\ MInv /\ Nesting /\ NoAbort /\ Levels /\ Emptied => DepthBounded
  <2> SUFFICES ASSUME PInv, MInv, Nesting, NoAbort, Levels, Emptied, Whole, maxdepth # 0
               PROVE  /\ Len(held) <= maxdepth + 1
                      /\ \A n \in DOMAIN par : Cardinality(Ancestors(n)) <= maxdepth + 2
    BY DEF DepthBounded
  <2>1. PICK L : Levelled(L)
    BY DEF Levels
  <2>2. PICK S : Under("FOOTNOTE", S)
    BY DEF Nesting, Unnested
  <2>3. /\ IInv /\ DOMAIN par = DOMAIN lab /\ \A x \in DOMAIN par : par[x] # None => par[x] \in DOMAIN par
        /\ maxdepth \in Nat /\ held \in Seq(DOMAIN lab)
    BY MaxdepthsAssumption DEF PInv, IInv, TTypeOK
  <2>4. PICK up : /\ up = [x \in DOMAIN par |-> IF par[x] = None THEN {} ELSE {par[x]} \cup up[par[x]]]
                  /\ \A x : Ancestors(x) = up[x]
    BY <2>3, AncestorsAre
  <2>5. \A x \in DOMAIN lab : up[x] = IF par[x] = None THEN {} ELSE {par[x]} \cup up[par[x]]
    BY <2>3, <2>4
  <2>6. ASSUME NEW n \in DOMAIN lab
        PROVE  /\ IsFiniteSet(up[n]) /\ Cardinality(up[n]) <= L[n] + 1
               /\ L[n] \in Nat /\ L[n] <= maxdepth + 1
    <3>1. HeaderFirst /\ Placed
      BY DEF MInv
    <3> QED
      BY <2>1, <2>2, <2>3, <2>5, <3>1, MoreAbove
  <2>7. ASSUME NEW n \in DOMAIN par PROVE Cardinality(Ancestors(n)) <= maxdepth + 2
    <3>1. Ancestors(n) = up[n]
      BY <2>4
    <3>2. Cardinality(up[n]) \in Nat
      BY <2>3, <2>6, FS_CardinalityType
    <3> QED
      BY <2>3, <2>6, <3>1, <3>2
  <2>8. Len(held) <= maxdepth + 1
    <3>1. CASE phase = "done"
      BY <2>3, <3>1 DEF Emptied
    <3>2. CASE phase = "parsing"
      <4>1. held # <<>>
        BY <2>3, <3>2 DEF IInv, StackIsPath
      <4>2. Len(held) \in DOMAIN held /\ held[Len(held)] \in DOMAIN lab
        BY <2>3, <4>1, EmptySeq, LenProperties, ElementOfSeq
      <4>3. L[held[Len(held)]] = Len(held)
        BY <2>1, <3>2, <4>2 DEF Levelled
      <4> QED
        BY <2>6, <4>2, <4>3
    <3> QED
      BY <3>1, <3>2 DEF Whole, NoAbort
  <2> QED
    BY <2>7, <2>8
<1> QED
  BY <1>1, WorkInvariant, MetaInvariant, NestingInvariant, NeverAborts, LevelInvariant, PTL

-------------------------------------------------------------------------------
CONSTANT Ln     \* of DiffTree, which IsTree does not look at

D == INSTANCE DiffTree

(***************************************************************************)
(* What lowdown_doc_parse() returns is what lowdown_diff() takes a tree to *)
(* be: the parser keeps the assumption that the proofs of the difference   *)
(* engine rest on (document.c:5165, diff.c:1387).                          *)
(***************************************************************************)
Given == [kids |-> kids, par |-> par, lab |-> lab]
GivenTree == phase = "done" => D!IsTree(Given)

THEOREM GivesTrees == TSpec => []GivenTree
<1>1. IInv /\ Maps /\ HeaderFirst => GivenTree
  <2> SUFFICES ASSUME IInv, Maps, HeaderFirst, phase = "done" PROVE D!IsTree(Given)
    BY DEF GivenTree
  <2> DEFINE K == DOMAIN kids
  <2>1. /\ K \subseteq Nat /\ DOMAIN par = K
        /\ \A n \in K : kids[n] \in Seq(K) /\ par[n] \in K \cup {None}
    BY DEF IInv, TTypeOK
  <2>2. Shaped
    BY DEF IInv, TreeWhole, Whole, Shaped
  <2>3. kids \in [K -> Seq(K)] /\ par \in [K -> K \cup {None}]
    BY <2>1 DEF Maps
  <2>4. D!Ids(Given) = K /\ D!Root = Root /\ D!None = None
        /\ Given.kids = kids /\ Given.par = par /\ Given.lab = lab
    BY DEF D!Ids, D!Root, D!None, Root, None, Given
  <2>5. \A n \in K : D!Kids(Given, n) = {kids[n][i] : i \in DOMAIN kids[n]}
    BY <2>4 DEF D!Kids
  <2>6. Root \in K /\ D!Type(Given, Root) = "ROOT"
    BY <2>2, <2>4 DEF D!Type, Shaped
  <2>7. \A n \in K : par[n] = None <=> n = Root
    BY <2>2 DEF Shaped, Linked
  <2>8. \A n \in K : \A i \in DOMAIN kids[n] : par[kids[n][i]] = n
    BY <2>2 DEF Shaped, Linked
  <2>9. ASSUME NEW n \in K \ {Root} PROVE n \in D!Kids(Given, par[n])
    <3>1. par[n] \in K
      BY <2>1, <2>7
    <3>2. PICK i \in DOMAIN kids[par[n]] : kids[par[n]][i] = n
      BY <2>2 DEF Shaped, Linked
    <3> QED
      BY <3>1, <3>2, <2>5
  <2>10. D!KidsOnce(Given)
    BY <2>2, <2>4 DEF D!KidsOnce, Shaped, Linked
  <2>11. D!Grounded(Given)
    <3> SUFFICES ASSUME NEW S \in SUBSET K, S # {}
                 PROVE  \E n \in S : D!Kids(Given, n) \cap S = {}
      BY <2>4 DEF D!Grounded
    <3>1. PICK n \in S : {kids[n][i] : i \in DOMAIN kids[n]} \cap S = {}
      BY <2>2, NoneBelowItself
    <3>2. D!Kids(Given, n) = {kids[n][i] : i \in DOMAIN kids[n]}
      BY <2>5, <3>1
    <3> QED
      BY <3>1, <3>2
  <2>12. D!HeaderFirst(Given)
    BY <2>4 DEF D!HeaderFirst, D!Type, HeaderFirst, Whole
  <2>13. D!TextsBare(Given)
    BY <2>4 DEF D!TextsBare, D!Type, IInv, TreeWhole, LeavesBare
  <2>14. \E last \in K : \A n \in K : n <= last
    <3>1. nodes \in Nat /\ \A n \in K : n \in Nat /\ n <= nodes
      BY DEF IInv, TTypeOK
    <3> DEFINE T == {x \in Nat : \A n \in K : n <= x}
    <3>2. PICK x \in T : \A y \in T : x <= y
      <4>1. nodes \in T /\ T \in SUBSET Nat
        BY <3>1
      <4> HIDE DEF T
      <4> QED
        BY <4>1, LeastOf
    <3>3. x \in Nat /\ \A n \in K : n <= x
      BY <3>2
    <3>4. SUFFICES ASSUME x \notin K PROVE FALSE
      BY <3>3
    <3>5. \A n \in K : n <= x - 1
      BY <3>1, <3>3, <3>4
    <3>6. x - 1 \in T
      BY <2>6, <3>1, <3>3, <3>5
    <3> QED
      BY <3>2, <3>3, <3>6
  <2> QED
    BY <2>1, <2>3, <2>4, <2>6, <2>7, <2>8, <2>9, <2>10, <2>11, <2>12, <2>13, <2>14 DEF D!IsTree
<1>2. TSpec => []Maps
  BY InitMaps, NextMaps, PTL DEF TSpec
<1>3. TInit => HeaderFirst
  BY DEF TInit, HeaderFirst, Whole
<1>4. TSpec => []HeaderFirst
  BY <1>3, HeaderNext, Invariant, PTL DEF TSpec
<1> QED
  BY <1>1, <1>2, <1>4, Invariant, PTL

(***************************************************************************)
(* The parser gives the difference engine trees that it takes (DiffTree).  *)
(***************************************************************************)
THEOREM ParserGives == Spec => []GivenTree
  BY Implements, GivesTrees, PTL
===============================================================================
