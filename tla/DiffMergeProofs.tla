--------------------------- MODULE DiffMergeProofs ---------------------------
(***************************************************************************)
(* Proofs about the whole of lowdown_diff(): what is proved of the         *)
(* matching holds to the end, and the merge goes through matched pairs;    *)
(* matches by digest are of whole sub-trees, and equal documents match as  *)
(* a whole.  Then lemmas on what trees show and on the scripts of texts.   *)
(***************************************************************************)
EXTENDS DiffMerge, DiffMatchProofs

-------------------------------------------------------------------------------
(***************************************************************************)
(* The matching, as a part of lowdown_diff().                              *)
(***************************************************************************)

\* The merge leaves the matching alone.
LEMMA MergeKeepsMatching ==
  MergeNext \/ Returned => UNCHANGED matching
BY DEF MergeNext, Returned, matching, vars, MergeRoots, FlushOld, FlushOldDone,
       FlushNew, FlushNewDone, MergeTexts, NoTexts, InsertMoved, DeleteMoved,
       KeepOpaque, Keep, FlushTail, Return, MergeDone

\* It goes on, or ends in one way or the other.
LEMMA MergePhase ==
  MergeNext => phase = "merge" /\ phase' \in {"merge", "done", "abort"}
BY DEF MergeNext, Merging, MAbort, MergeRoots, FlushOld, FlushOldDone,
       FlushNew, FlushNewDone, MergeTexts, NoTexts, InsertMoved, DeleteMoved,
       KeepOpaque, Keep, FlushTail, Return, MergeDone

\* Every step keeps the types of the matching.
LEMMA MergeTypeStep == TypeOK /\ [MNext]_<<vars, mvars>> => TypeOK'
<1> SUFFICES ASSUME TypeOK, [MNext]_<<vars, mvars>> PROVE TypeOK'
  OBVIOUS
<1>1. CASE [Next]_vars
  BY <1>1, TypeStep
<1>2. CASE MergeNext
  <2>1. UNCHANGED <<pair, om, nm, optm, queue, work, climb>>
    BY <1>2, MergeKeepsMatching DEF matching
  <2>2. phase' \in {"merge", "done", "abort"}
    BY <1>2, MergePhase
  <2> QED
    BY <2>1, <2>2, TypeKept DEF TypeOK, Phases
<1> QED
  BY <1>1, <1>2 DEF MNext, Next, Returned

(***************************************************************************)
(* For all trees, the matching is typed from the beginning of              *)
(* lowdown_diff() to its end.                                              *)
(***************************************************************************)
THEOREM MergeTypeCorrect == MSpec => []TypeOK
<1>1. MInit => TypeOK
  BY TypeInit DEF MInit
<1>2. TypeOK /\ [MNext]_<<vars, mvars>> => TypeOK'
  BY MergeTypeStep
<1> QED
  BY <1>1, <1>2, PTL DEF MSpec

\* Every step keeps an old node with the new one that matches it.
LEMMA MergeSoundStep ==
  TypeOK /\ OldMatchSound /\ [MNext]_<<vars, mvars>> => OldMatchSound'
<1> SUFFICES ASSUME TypeOK, OldMatchSound, [MNext]_<<vars, mvars>>
             PROVE  OldMatchSound'
  OBVIOUS
<1>1. CASE [Next]_vars
  BY <1>1, OldSoundStep
<1>2. CASE MergeNext
  BY <1>2, MergeKeepsMatching DEF matching, OldMatchSound
<1> QED
  BY <1>1, <1>2 DEF MNext, Next, Returned

(***************************************************************************)
(* For all trees, an old node's match points back at it until              *)
(* lowdown_diff() returns: the merge goes by the same matches.             *)
(***************************************************************************)
THEOREM MergeMatchCorrect == MSpec => []OldMatchSound
<1>1. MInit => OldMatchSound
  BY DEF MInit, Init, OldMatchSound
<1>2. TypeOK /\ OldMatchSound /\ [MNext]_<<vars, mvars>> => OldMatchSound'
  BY MergeSoundStep
<1> QED
  BY <1>1, <1>2, MergeTypeCorrect, PTL DEF MSpec

-------------------------------------------------------------------------------
(***************************************************************************)
(* The calls of node_merge().                                              *)
(***************************************************************************)

(***************************************************************************)
(* A call is for two mapped nodes that are not opaque, and is at one of    *)
(* their children or past the last.  M has the merged nodes.               *)
(***************************************************************************)
Calls(M) ==
  [m : M, o : {o \in Maps[pair[1]] : ~IsOpaque(old, o)},
   n : {n \in Maps[pair[2]] : ~IsOpaque(new, n)},
   oi : Nat \ {0}, ni : Nat \ {0}]

(***************************************************************************)
(* The calls that are under way are such calls, there are none before the  *)
(* merge, and a match is looked for only if there is a new child.          *)
(***************************************************************************)
OpenCalls ==
  /\ phase \notin {"merge", "abort"} => frames = <<>>
  /\ phase = "merge" =>
       /\ \E M : frames \in Seq(Calls(M))
       /\ frames # <<>> /\ loop = "pair" => HasNew

\* A call may be of a larger set.
LEMMA MoreCalls ==
  ASSUME NEW M, NEW N, M \subseteq N, NEW s \in Seq(Calls(M))
  PROVE  s \in Seq(Calls(N))
<1>1. Calls(M) \subseteq Calls(N)
  BY DEF Calls
<1>2. Len(s) \in Nat /\ s \in [1 .. Len(s) -> Calls(M)]
  BY LenProperties
<1>3. s \in [1 .. Len(s) -> Calls(N)]
  BY <1>1, <1>2
<1> QED
  BY <1>2, <1>3, SeqDef

\* The children of the innermost call are mapped.
LEMMA TopKids ==
  ASSUME TypeOK, NEW M, frames \in Seq(Calls(M)), frames # <<>>
  PROVE  /\ Top \in Calls(M) /\ Tail(frames) \in Seq(Calls(M))
         /\ OldLeft \in Seq(Maps[pair[1]]) /\ NewLeft \in Seq(Maps[pair[2]])
         /\ HasOld => OldKid \in Maps[pair[1]]
         /\ HasNew => NewKid \in Maps[pair[2]]
<1>1. Top \in Calls(M) /\ Tail(frames) \in Seq(Calls(M))
  BY HeadTailProperties DEF Top
<1>2. OldLeft \in Seq(Maps[pair[1]]) /\ NewLeft \in Seq(Maps[pair[2]])
  BY <1>1, PairOfTrees, MappedKids DEF TypeOK, Calls, OldLeft, NewLeft
<1>3. Top.oi \in Nat \ {0} /\ Top.ni \in Nat \ {0}
  BY <1>1 DEF Calls
<1>4. HasOld => OldKid \in Maps[pair[1]]
  BY <1>2, <1>3, ElementOfSeq, LenProperties DEF HasOld, OldKid
<1>5. HasNew => NewKid \in Maps[pair[2]]
  BY <1>2, <1>3, ElementOfSeq, LenProperties DEF HasNew, NewKid
<1> QED
  BY <1>1, <1>2, <1>4, <1>5

\* A call that goes on to its next child on either side stays one.
LEMMA NextKid ==
  ASSUME NEW M, NEW f \in Calls(M), NEW do \in Nat, NEW dn \in Nat
  PROVE  [f EXCEPT !.oi = @ + do, !.ni = @ + dn] \in Calls(M)
<1> DEFINE O == {o \in Maps[pair[1]] : ~IsOpaque(old, o)}
           N == {n \in Maps[pair[2]] : ~IsOpaque(new, n)}
           C == [m : M, o : O, n : N, oi : Nat \ {0}, ni : Nat \ {0}]
<1>1. Calls(M) = C
  BY DEF Calls
<1> HIDE DEF O, N
<1>2. f.oi + do \in Nat \ {0} /\ f.ni + dn \in Nat \ {0}
  BY <1>1
<1> DEFINE g == [f EXCEPT !.oi = f.oi + do]
           h == [g EXCEPT !.ni = f.ni + dn]
<1>3. g \in C
  BY <1>1, <1>2
<1>4. h \in C
  <2> HIDE DEF g
  <2> QED
    BY <1>2, <1>3
<1>5. [f EXCEPT !.oi = @ + do, !.ni = @ + dn] = h
  BY Zenon
<1> QED
  BY <1>1, <1>4, <1>5, Zenon

\* The innermost call is replaced, or a call is put before all of them.
LEMMA PutCall ==
  ASSUME NEW M, NEW f \in Calls(M), NEW s \in Seq(Calls(M))
  PROVE  /\ <<f>> \o s \in Seq(Calls(M))
         /\ <<f>> \o s # <<>> /\ Head(<<f>> \o s) = f
<1>1. <<f>> \in Seq(Calls(M)) /\ Len(<<f>>) = 1
  OBVIOUS
<1>2. /\ <<f>> \o s \in Seq(Calls(M))
      /\ Len(<<f>> \o s) = 1 + Len(s)
      /\ \A i \in 1 .. 1 + Len(s) :
           (<<f>> \o s)[i] = IF i <= 1 THEN <<f>>[i] ELSE s[i - 1]
  BY <1>1, ConcatProperties
<1>3. Len(s) \in Nat
  BY LenProperties
<1>4. (<<f>> \o s)[1] = f /\ <<f>> \o s # <<>>
  BY <1>2, <1>3
<1> QED
  BY <1>2, <1>4

\* The root of a document is not opaque.
LEMMA RootLooksIn ==
  ASSUME NEW t, IsTree(t) PROVE ~IsOpaque(t, Root)
BY DEF IsTree, IsOpaque

\* Every step keeps the calls to matched nodes.
LEMMA OpenCallsStep ==
  TypeOK /\ OpenCalls /\ [MNext]_<<vars, mvars>> => OpenCalls'
<1> SUFFICES ASSUME TypeOK, OpenCalls, [MNext]_<<vars, mvars>>
             PROVE  OpenCalls'
  OBVIOUS
<1>1. CASE UNCHANGED <<vars, mvars>>
  BY <1>1 DEF OpenCalls, Calls, vars, mvars, HasNew, NewLeft, Top, old, new
<1>2. CASE MatchNext /\ UNCHANGED mvars
  <2>1. frames = <<>> /\ frames' = <<>>
    BY <1>2 DEF OpenCalls, mvars, MatchNext, Dequeue, Enqueue, EnqueueDone,
       MatchDown, MatchDownDone, MatchUp, MatchUpDone, MatchRoots,
       MatchHeaders, TopDown, TopDownDone, BottomUp, BottomUpDone
  <2>2. frames' \in Seq(Calls({})')
    BY <2>1, EmptySeq
  <2> QED
    BY <2>1, <2>2 DEF OpenCalls
<1>3. CASE MergeNext
  <2> SUFFICES ASSUME phase' = "merge"
               PROVE  /\ \E M : frames' \in Seq(Calls(M))
                      /\ frames' # <<>> /\ loop' = "pair" => HasNew'
    <3>1. Maps[pair[1]]' = Maps[pair[1]] /\ Maps[pair[2]]' = Maps[pair[2]]
          /\ old' = old /\ new' = new
      BY <1>3, MergeKeepsMatching DEF matching, old, new
    <3>2. \A M : Calls(M)' = Calls(M)
      BY <3>1 DEF Calls
    <3>3. phase' = "done" => frames' = <<>>
      BY <1>3, MergePhase DEF MergeNext, Merging, MergeRoots, FlushOld,
         FlushOldDone, FlushNew, FlushNewDone, MergeTexts, NoTexts,
         InsertMoved, DeleteMoved, KeepOpaque, Keep, FlushTail, Return,
         MergeDone, MAbort
    <3> QED
      BY <1>3, <3>2, <3>3, MergePhase DEF OpenCalls
  <2>1. phase = "merge" /\ UNCHANGED <<pair, om, nm>> /\ new' = new
    BY <1>3, MergePhase, MergeKeepsMatching DEF matching, new
  <2>2. PICK M : frames \in Seq(Calls(M))
    BY <2>1 DEF OpenCalls
  <2>3. ASSUME frames # <<>>, NEW do \in Nat, NEW dn \in Nat,
               frames' = <<Past(do, dn)>> \o Tail(frames)
        PROVE  frames' \in Seq(Calls(M)) /\ (dn = 0 => HasNew' = HasNew)
    <3>1. Top \in Calls(M) /\ Tail(frames) \in Seq(Calls(M))
      BY <2>2, <2>3, TopKids
    <3>2. Past(do, dn) \in Calls(M)
      BY <3>1, NextKid DEF Past
    <3>3. frames' \in Seq(Calls(M)) /\ Top' = Past(do, dn)
      BY <2>3, <3>1, <3>2, PutCall DEF Top
    <3>4. dn = 0 => Top'.ni = Top.ni /\ Top'.n = Top.n
      BY <3>1, <3>3 DEF Past, Calls
    <3> QED
      BY <2>1, <3>3, <3>4 DEF HasNew, NewLeft
  <2>4. CASE MergeRoots
    <3>1. Root \in Maps[pair[1]] /\ ~IsOpaque(old, Root)
      <4>1. IsTree(old) /\ Maps[pair[1]] = Mapped(old)
        BY PairOfTrees DEF TypeOK
      <4> QED
        BY <4>1, MappedClosed, RootLooksIn
    <3>2. Root \in Maps[pair[2]] /\ ~IsOpaque(new, Root)
      <4>1. IsTree(new) /\ Maps[pair[2]] = Mapped(new)
        BY PairOfTrees DEF TypeOK
      <4> QED
        BY <4>1, MappedClosed, RootLooksIn
    <3>3. Call(0, Root, Root) \in Calls({0})
      BY <3>1, <3>2 DEF Call, Calls
    <3>4. frames' = <<Call(0, Root, Root)>> /\ loop' # "pair"
      BY <2>4 DEF MergeRoots, MAbort, LoopHead
    <3> QED
      BY <3>3, <3>4
  <2>5. CASE FlushOld \/ FlushTail
    BY <2>2, <2>3, <2>5
       DEF FlushOld, FlushTail, Merging, DeleteOld
  <2>6. CASE FlushNew
    BY <2>2, <2>3, <2>6 DEF FlushNew, Merging, InsertNew
  <2>7. CASE FlushOldDone \/ NoTexts
    BY <2>2, <2>7 DEF FlushOldDone, NoTexts, Merging
  <2>8. CASE FlushNewDone
    BY <2>1, <2>2, <2>8 DEF FlushNewDone, Merging, HasNew, NewLeft, Top
  <2>9. CASE MergeTexts
    BY <2>2, <2>3, <2>9 DEF MergeTexts, Merging
  <2>10. CASE InsertMoved
    BY <2>2, <2>3, <2>10 DEF InsertMoved, Merging, InsertNew, LoopHead
  <2>11. CASE DeleteMoved
    BY <2>1, <2>2, <2>3, <2>11 DEF DeleteMoved, Merging, DeleteOld, OpenCalls
  <2>12. CASE KeepOpaque
    BY <2>2, <2>3, <2>12 DEF KeepOpaque, Merging, MAbort, LoopHead
  <2>13. CASE Keep
    <3> DEFINE N == M \cup {Len(out)}
               f == Call(Len(out), OldKid, NewKid)
    <3>1. frames # <<>> /\ frames' = <<f>> \o frames /\ loop' # "pair"
          /\ MatchAhead /\ ~IsOpaque(new, NewKid) /\ ~IsOpaque(old, OldKid)
          /\ loop = "pair"
      BY <2>13 DEF Keep, Merging, MAbort, LoopHead
    <3>2. HasNew
      BY <2>1, <3>1 DEF OpenCalls
    <3>3. HasOld
      <4>1. Top \in Calls(M) /\ OldLeft \in Seq(Maps[pair[1]])
        BY <2>2, <3>1, TopKids
      <4>2. Top.oi \in Nat /\ Len(OldLeft) \in Nat
        BY <4>1, LenProperties DEF Calls
      <4> QED
        BY <3>1, <4>2 DEF MatchAhead, HasOld
    <3>4. OldKid \in Maps[pair[1]] /\ NewKid \in Maps[pair[2]]
      BY <2>2, <3>1, <3>2, <3>3, TopKids
    <3>5. f \in Calls(N)
      BY <3>1, <3>4 DEF Call, Calls
    <3>6. frames \in Seq(Calls(N))
      BY <2>2, MoreCalls
    <3> HIDE DEF f, N
    <3>7. frames' \in Seq(Calls(N))
      BY <3>1, <3>5, <3>6, PutCall
    <3> QED
      BY <3>1, <3>7
  <2>14. CASE Return
    <3> DEFINE f == [frames[2] EXCEPT !.oi = @ + 1, !.ni = @ + 1]
    <3>1. frames # <<>> /\ Len(frames) > 1 /\ loop' # "pair"
          /\ frames' = <<f>> \o Tail(Tail(frames))
      BY <2>14 DEF Return, Merging, LoopHead
    <3>2. Len(frames) \in Nat
      BY <2>2, LenProperties
    <3>3. frames[2] \in Calls(M)
      BY <2>2, <3>1, <3>2, ElementOfSeq
    <3>4. f \in Calls(M)
      BY <3>3, NextKid
    <3>5. Tail(frames) \in Seq(Calls(M)) /\ Len(Tail(frames)) = Len(frames) - 1
      BY <2>2, <3>1, HeadTailProperties
    <3>6. Tail(frames) # <<>>
      <4>1. Len(Tail(frames)) # 0
        BY <3>1, <3>2, <3>5, SMTT(30)
      <4> QED
        BY <4>1, EmptySeq
    <3>7. Tail(Tail(frames)) \in Seq(Calls(M))
      BY <3>5, <3>6, HeadTailProperties
    <3> HIDE DEF f
    <3>8. frames' \in Seq(Calls(M))
      BY <3>1, <3>4, <3>7, PutCall
    <3> QED
      BY <3>1, <3>8
  <2>15. CASE MergeDone
    BY <2>15 DEF MergeDone
  <2> QED
    BY <1>3, <2>4, <2>5, <2>6, <2>7, <2>8, <2>9, <2>10, <2>11, <2>12, <2>13,
       <2>14, <2>15 DEF MergeNext
<1>4. CASE Returned
  BY <1>1, <1>4 DEF Returned
<1> QED
  BY <1>1, <1>2, <1>3, <1>4 DEF MNext

(***************************************************************************)
(* For all trees, node_merge() is only called for mapped nodes that are    *)
(* not opaque: the children it walks have an entry in their map, and an    *)
(* opaque node is never looked into.                                       *)
(***************************************************************************)
THEOREM OpenCallsMatched == MSpec => []OpenCalls
<1>1. MInit => OpenCalls
  BY DEF MInit, Init, OpenCalls
<1>2. TypeOK /\ OpenCalls /\ [MNext]_<<vars, mvars>> => OpenCalls'
  BY OpenCallsStep
<1> QED
  BY <1>1, <1>2, MergeTypeCorrect, PTL DEF MSpec

(***************************************************************************)
(* When the walk over the children has come to a pair, the new node has    *)
(* the old one for its match, too.                                         *)
(***************************************************************************)
PairAgrees ==
  phase = "merge" /\ frames # <<>> /\ loop = "pair" /\ MatchAhead
    /\ OldMatch = NewKid => NewMatch = OldKid

\* The children that node_merge() goes on with point at each other.
LEMMA KidsAgree ==
  ASSUME TypeOK, OldMatchSound, OpenCalls,
         phase = "merge", frames # <<>>, loop = "pair",
         MatchAhead, OldMatch = NewKid
  PROVE  /\ NewMatch = OldKid
         /\ OldKid \in Maps[pair[1]] /\ NewKid \in Maps[pair[2]]
<1>1. PICK M : frames \in Seq(Calls(M))
  BY DEF OpenCalls
<1>2. Top \in Calls(M) /\ OldLeft \in Seq(Maps[pair[1]])
  BY <1>1, TopKids
<1>3. Top.oi \in Nat /\ Len(OldLeft) \in Nat
  BY <1>2, LenProperties DEF Calls
<1>4. HasOld /\ HasNew
  BY <1>3 DEF MatchAhead, HasOld, OpenCalls
<1>5. OldKid \in Maps[pair[1]] /\ NewKid \in Maps[pair[2]]
  BY <1>1, <1>4, TopKids
<1>6. om[OldKid] = NewKid /\ NewKid # None
  BY <1>5, NoneNotMapped DEF OldMatch
<1> QED
  BY <1>5, <1>6 DEF OldMatchSound, NewMatch, TypeOK

(***************************************************************************)
(* For all trees, node_merge()'s assertion that its two nodes are each     *)
(* other's match holds in every recursive call: it found the pair by the   *)
(* old node's match alone.                                                 *)
(***************************************************************************)
THEOREM PairsAgree == MSpec => []PairAgrees
<1>1. TypeOK /\ OldMatchSound /\ OpenCalls => PairAgrees
  BY KidsAgree DEF PairAgrees
<1> QED
  BY <1>1, MergeTypeCorrect, MergeMatchCorrect, OpenCallsMatched, PTL

-------------------------------------------------------------------------------
(***************************************************************************)
(* The roots are each other's match once they have been looked at, and the *)
(* bottom-up optimisation leaves them so: only a root could take one away. *)
(***************************************************************************)
RootsMatched ==
  phase \in {"roots", "topdown", "bottomup", "merge", "done"} =>
    nm[Root] = Root /\ om[Root] = Root

\* Every step of the matching keeps the roots together.
LEMMA RootsStep ==
  TypeOK /\ OldMatchSound /\ MatchesAgree /\ NewMatchSound /\ RootsMatched /\ [Next]_vars
    => RootsMatched'
<1> SUFFICES ASSUME TypeOK, OldMatchSound, MatchesAgree, NewMatchSound, RootsMatched,
                    [Next]_vars,
                    phase' \in {"roots", "topdown", "bottomup", "merge", "done"}
             PROVE  nm'[Root] = Root /\ om'[Root] = Root
  BY DEF RootsMatched
<1>1. /\ Root \in Maps[pair[1]] /\ Root \in Maps[pair[2]] /\ Root # None
      /\ nm \in [Maps[pair[2]] -> Maps[pair[1]] \cup {None}]
      /\ om \in [Maps[pair[1]] -> Maps[pair[2]] \cup {None}]
  BY PairOfTrees, MappedClosed DEF TypeOK, Root, None
<1>2. CASE MatchRoots
  <2>1. CASE UNCHANGED <<om, nm>> /\ nm[Root] # None
    <3>1. nm[Root] = Root
      BY <2>1, RootsMatchOnly
    <3>2. om[nm[Root]] = Root
      BY <1>1, <1>2, <2>1 DEF NewMatchSound, MatchRoots
    <3> QED
      BY <2>1, <3>1, <3>2
  <2>2. CASE nm' = [nm EXCEPT ![Root] = Root] /\ om' = [om EXCEPT ![Root] = Root]
    BY <1>1, <2>2
  <2> QED
    BY <1>2, <2>1, <2>2 DEF MatchRoots, Abort
<1>3. CASE RootsMatched /\ phase \in {"roots", "topdown", "bottomup", "merge", "done"}
           /\ ~MatchRoots
  <2>1. nm[Root] = Root /\ om[Root] = Root
    BY <1>3 DEF RootsMatched
  <2>2. ASSUME NEW n, NEW o, Joined(n, o)
        PROVE  nm'[Root] = Root /\ om'[Root] = Root
    <3>1. /\ n \in Maps[pair[2]] /\ o \in Maps[pair[1]] /\ n # Root
          /\ Type(new, n) = Type(old, o)
          /\ nm' = [nm EXCEPT ![n] = o] /\ om' = [om EXCEPT ![o] = n]
      BY <1>1, <2>1, <2>2 DEF Joined
    <3>2. o # Root
      <4>1. IsTree(new) /\ IsTree(old) /\ n \in Ids(new)
        BY <3>1, PairOfTrees, MappedClosed DEF TypeOK
      <4>2. \A t : IsTree(t) => HeaderFirst(t) /\ Type(t, Root) = "ROOT"
        BY DEF IsTree
      <4> QED
        BY <3>1, <4>1, <4>2 DEF HeaderFirst
    <3> QED
      BY <1>1, <2>1, <3>1, <3>2
  <2>3. CASE UNCHANGED <<om, nm>>
    BY <2>1, <2>3
  <2>4. ~MatchDown /\ ~MatchUp
    BY <1>3 DEF MatchDown, MatchUp
  <2> QED
    BY <1>3, <2>2, <2>3, <2>4, OtherSteps, JoinedHeaders, JoinedTopDown, JoinedBottomUp
<1>4. MatchRoots \/ phase \in {"roots", "topdown", "bottomup", "merge", "done"}
  BY DEF Next, MatchNext, Matched, vars, Dequeue, Abort, Enqueue, EnqueueDone,
     MatchDown, MatchDownDone, MatchUp, MatchUpDone, MatchHeaders, TopDown,
     TopDownDone, BottomUp, BottomUpDone
<1> QED
  BY <1>2, <1>3, <1>4

(***************************************************************************)
(* All that is known of the matching while lowdown_diff() runs.            *)
(***************************************************************************)
Matching ==
  /\ TypeOK /\ OldMatchSound /\ MatchesAgree /\ NewMatchSound
  /\ PairsAlike /\ QueueApart /\ RootsMatched /\ NoAbort

\* Every step of the matching keeps it what it is.
LEMMA MatchingStep == Matching /\ [Next]_vars => Matching'
<1> SUFFICES ASSUME Matching, [Next]_vars PROVE Matching'
  OBVIOUS
<1>1. /\ TypeOK /\ OldMatchSound /\ MatchesAgree /\ NewMatchSound
      /\ PairsAlike /\ QueueApart /\ RootsMatched /\ NoAbort
  BY DEF Matching
<1>2. OneToOne
  BY <1>1 DEF NewMatchSound, OneToOne, BySignature
<1>3. TypeOK' /\ OldMatchSound' /\ MatchesAgree' /\ NewMatchSound'
  BY <1>1, <1>2, TypeStep, OldSoundStep, AgreeStep, NewSoundStep
<1>4. PairsAlike' /\ QueueApart' /\ RootsMatched' /\ NoAbort'
  BY <1>1, AlikeStep, ApartStep, RootsStep, NoAbortStep
<1> QED
  BY <1>3, <1>4 DEF Matching

\* The merge does not abort: the pairs it comes to are of matched nodes.
LEMMA MergeNoAbort ==
  Matching /\ OpenCalls /\ MergeNext => NoAbort'
<1> SUFFICES ASSUME Matching, OpenCalls, MergeNext PROVE NoAbort'
  OBVIOUS
<1>1. TypeOK /\ OldMatchSound /\ MatchesAgree /\ RootsMatched
  BY DEF Matching
<1>2. phase = "merge"
  BY MergePhase
<1>3. nm[Root] = Root /\ om[Root] = Root /\ Root # None
  BY <1>1, <1>2 DEF RootsMatched, Root, None
<1>4. ASSUME frames # <<>>, loop = "pair", MatchAhead, OldMatch = NewKid
      PROVE  /\ NewMatch = OldKid
             /\ IsOpaque(new, NewKid) <=> IsOpaque(old, OldKid)
  <2>1. /\ nm[NewKid] = OldKid /\ OldKid \in Maps[pair[1]] /\ NewKid \in Maps[pair[2]]
    BY <1>1, <1>2, <1>4, KidsAgree DEF NewMatch
  <2>2. OldKid # None /\ NewKid \in DOMAIN nm
    BY <1>1, <2>1, NoneNotMapped DEF TypeOK
  <2>3. Type(new, NewKid) = Type(old, OldKid)
    BY <1>1, <2>1, <2>2 DEF MatchesAgree
  <2> QED
    BY <2>1, <2>3 DEF IsOpaque, NewMatch
<1>5. CASE MergeRoots
  BY <1>2, <1>3, <1>5 DEF MergeRoots, NoAbort
<1>6. CASE KeepOpaque
  BY <1>4, <1>6 DEF KeepOpaque, Merging, NoAbort
<1>7. CASE Keep
  BY <1>4, <1>7 DEF Keep, Merging, NoAbort
<1>8. CASE ~(MergeRoots \/ KeepOpaque \/ Keep)
  BY <1>2, <1>8 DEF MergeNext, NoAbort, Merging, FlushOld, FlushOldDone,
     FlushNew, FlushNewDone, MergeTexts, NoTexts, InsertMoved, DeleteMoved,
     FlushTail, Return, MergeDone
<1> QED
  BY <1>5, <1>6, <1>7, <1>8

\* Every step of lowdown_diff() does.
LEMMA MergeMatchingStep ==
  Matching /\ OpenCalls /\ [MNext]_<<vars, mvars>> => Matching'
<1> SUFFICES ASSUME Matching, OpenCalls, [MNext]_<<vars, mvars>> PROVE Matching'
  OBVIOUS
<1>1. CASE [Next]_vars
  BY <1>1, MatchingStep
<1>2. CASE MergeNext
  <2>1. UNCHANGED <<pair, om, nm, optm, queue, work, climb>>
    BY <1>2, MergeKeepsMatching DEF matching
  <2>2. phase = "merge" /\ phase' \in {"merge", "done", "abort"}
    BY <1>2, MergePhase
  <2>3. NoAbort'
    BY <1>2, MergeNoAbort
  <2>4. phase' \in {"merge", "done"}
    BY <2>2, <2>3 DEF NoAbort
  <2>5. TypeOK' /\ OldMatchSound'
    BY MergeTypeStep, MergeSoundStep DEF Matching
  <2>6. /\ old' = old /\ new' = new /\ Belows[pair[2]]' = Belows[pair[2]]
    BY <2>1 DEF old, new
  <2>7. MatchesAgree'
    BY <2>1, <2>6 DEF Matching, MatchesAgree, Type
  <2>8. NewMatchSound' /\ PairsAlike'
    BY <2>4 DEF NewMatchSound, PairsAlike
  <2>9. RootsMatched'
    BY <2>1, <2>2 DEF Matching, RootsMatched
  <2>10. QueueApart'
    BY <2>1, <2>2, <2>4, <2>6
       DEF Matching, QueueApart, Waiting, Apart, Free
  <2> QED
    BY <2>3, <2>5, <2>7, <2>8, <2>9, <2>10 DEF Matching
<1> QED
  BY <1>1, <1>2 DEF MNext, Next, Returned

\* The matching is what it is to the end.
LEMMA MatchingHolds == MSpec => []Matching
<1>1. MInit => Matching
  <2> SUFFICES ASSUME Init PROVE Matching
    BY DEF MInit
  <2>1. TypeOK
    BY TypeInit
  <2>2. QueueApart
    BY InitApart
  <2> QED
    BY <2>1, <2>2 DEF Init, Matching, OldMatchSound, MatchesAgree, NewMatchSound,
       PairsAlike, RootsMatched, NoAbort
<1> QED
  BY <1>1, MergeMatchingStep, OpenCallsMatched, PTL DEF MSpec

(***************************************************************************)
(* For all trees, no assertion of lowdown_diff() fails from its beginning  *)
(* to its end: to those of the matching come those of the merge, whose     *)
(* roots are each other's match, and so is every pair it goes on with, of  *)
(* two opaque nodes or of two that are not.                                *)
(***************************************************************************)
THEOREM MergeNoAbortCorrect == MSpec => []NoAbort
<1>1. Matching => NoAbort
  BY DEF Matching
<1> QED
  BY <1>1, MatchingHolds, PTL

(***************************************************************************)
(* For all trees and to the end, matched nodes have the same type, the     *)
(* matching is one-to-one up to the bottom-up optimisation, and what waits *)
(* in the queue is untouched.                                              *)
(***************************************************************************)
THEOREM MergeMatchingCorrect ==
  MSpec => [](MatchesAgree /\ NewMatchSound /\ QueueUntouched)
<1>1. Matching => MatchesAgree /\ NewMatchSound /\ QueueUntouched
  BY Untouched DEF Matching
<1> QED
  BY <1>1, MatchingHolds, PTL

-------------------------------------------------------------------------------
(***************************************************************************)
(* What is kept without a look inside.                                     *)
(***************************************************************************)

\* Two nodes whose insides are not compared, or that have none, are the same.
SameInside(n, o) ==
  IsOpaque(new, n) \/ (new.kids[n] = <<>> /\ old.kids[o] = <<>>)
    => Sigs[pair[1]][o] = Sigs[pair[2]][n]

\* It is so of every match.
MatchedSame == \A n \in DOMAIN nm : nm[n] # None => SameInside(n, nm[n])

\* A node with a child has one.
LEMMA ParentHasKid ==
  ASSUME NEW t, IsTree(t), NEW n \in Ids(t), t.par[n] # None
  PROVE  t.par[n] \in Ids(t) /\ t.kids[t.par[n]] # <<>>
<1>1. n # Root
  BY DEF IsTree
<1>2. t.par[n] \in Ids(t)
  BY DEF IsTree
<1>3. n \in Kids(t, t.par[n])
  BY <1>1 DEF IsTree
<1> QED
  BY <1>2, <1>3 DEF Kids

\* Roots, and headers, are the same if they have nothing below them.
LEMMA BareSame ==
  ASSUME TypeOK, NEW n \in Maps[pair[2]], NEW o \in Maps[pair[1]],
         Type(new, n) = Type(old, o), Type(new, n) \in {"ROOT", "DOC_HEADER"}
  PROVE  SameInside(n, o)
<1>1. /\ IsTree(old) /\ IsTree(new)
      /\ Maps[pair[1]] = Mapped(old) /\ Maps[pair[2]] = Mapped(new)
      /\ Sigs[pair[1]] = SigOf(old) /\ Sigs[pair[2]] = SigOf(new)
      /\ pair[1] \in Names /\ pair[2] \in Names /\ old = Tree(pair[1]) /\ new = Tree(pair[2])
  BY PairOfTrees, PairOfSigs DEF TypeOK, Docs, old, new
<1>2. n \in Ids(new) /\ o \in Ids(old)
  BY <1>1, MappedClosed
<1>3. ~IsOpaque(new, n)
  BY DEF IsOpaque
<1>4. new.lab[n].fields = <<>> /\ old.lab[o].fields = <<>>
  BY <1>1, <1>2, LabelsAreLabels
<1> SUFFICES ASSUME new.kids[n] = <<>>, old.kids[o] = <<>>
             PROVE  SigOf(old)[o] = SigOf(new)[n]
  BY <1>1, <1>3 DEF SameInside
<1>5. [i \in DOMAIN new.kids[n] |-> SigOf(new)[new.kids[n][i]]]
        = [i \in DOMAIN old.kids[o] |-> SigOf(old)[old.kids[o][i]]]
  OBVIOUS
<1>6. /\ SigOf(new)[n] = Digest(new.lab[n], [i \in DOMAIN new.kids[n] |-> SigOf(new)[new.kids[n][i]]])
      /\ SigOf(old)[o] = Digest(old.lab[o], [i \in DOMAIN old.kids[o] |-> SigOf(old)[old.kids[o][i]]])
  BY <1>1, <1>2, SigUnfold
<1>7. new.lab[n].type = old.lab[o].type
  BY DEF Type
<1> QED
  BY <1>4, <1>5, <1>6, <1>7 DEF Digest

\* A match that a step adds.
Adds(n, o) ==
  /\ n \in Maps[pair[2]] /\ o \in Maps[pair[1]]
  /\ nm' = [nm EXCEPT ![n] = o] /\ SameInside(n, o)

\* match_up() adds a match.
LEMMA AddsUp ==
  ASSUME TypeOK, MatchUp
  PROVE  \E n, o : Adds(n, o)
<1> DEFINE n == new.par[climb.n]
           o == old.par[climb.o]
<1>1. climb.n \in Maps[pair[2]] /\ climb.o \in Maps[pair[1]] /\ n # None /\ o # None
  BY DEF TypeOK, MatchUp, MayClimb
<1>2. /\ IsTree(new) /\ IsTree(old) /\ Maps[pair[2]] = Mapped(new) /\ Maps[pair[1]] = Mapped(old)
  BY PairOfTrees DEF TypeOK
<1>3. n \in Maps[pair[2]] /\ ~IsOpaque(new, n) /\ o \in Maps[pair[1]]
  BY <1>1, <1>2, MappedParent
<1>4. climb.n \in Ids(new)
  BY <1>1, <1>2, MappedClosed
<1>5. new.kids[n] # <<>>
  BY <1>1, <1>2, <1>4, ParentHasKid
<1>6. SameInside(n, o)
  BY <1>3, <1>5 DEF SameInside
<1>7. nm' = [nm EXCEPT ![n] = o]
  BY DEF MatchUp
<1> QED
  BY <1>3, <1>6, <1>7 DEF Adds

\* The roots and the headers add a match at most.
LEMMA AddsRoots ==
  ASSUME TypeOK, MatchRoots \/ MatchHeaders
  PROVE  UNCHANGED nm \/ \E n, o : Adds(n, o)
<1>1. CASE MatchRoots
  <2>1. CASE Joined(Root, Root)
    <3>1. IsTree(new)
      BY PairOfTrees DEF TypeOK
    <3>2. Type(new, Root) = "ROOT"
      BY <3>1 DEF IsTree
    <3>3. /\ Root \in Maps[pair[2]] /\ Root \in Maps[pair[1]]
          /\ Type(new, Root) = Type(old, Root)
          /\ nm' = [nm EXCEPT ![Root] = Root]
      BY <2>1 DEF Joined
    <3>4. SameInside(Root, Root)
      BY <3>2, <3>3, BareSame
    <3> QED
      BY <3>3, <3>4 DEF Adds
  <2> QED
    BY <1>1, <2>1, JoinedRoots
<1>2. CASE MatchHeaders
  <2>1. ASSUME NEW n, NEW o, Joined(n, o), IsHeader(new, n)
        PROVE  Adds(n, o)
    <3>1. /\ n \in Maps[pair[2]] /\ o \in Maps[pair[1]]
          /\ Type(new, n) = Type(old, o) /\ Type(new, n) = "DOC_HEADER"
          /\ nm' = [nm EXCEPT ![n] = o]
      BY <2>1 DEF Joined, IsHeader
    <3>2. SameInside(n, o)
      BY <3>1, BareSame
    <3> QED
      BY <3>1, <3>2 DEF Adds
  <2> QED
    BY <1>2, <2>1, JoinedHeaders
<1> QED
  BY <1>1, <1>2

\* What both optimisations match has children and is not opaque.
LEMMA AddsTopDown ==
  ASSUME TypeOK, TopDown
  PROVE  UNCHANGED nm \/ \E n, o : Adds(n, o)
<1> DEFINE n == Head(work)[1]
           i == Head(work)[2]
           cn == NextSibling(new, new.kids[n][i])
           mn == NextSibling(old, nm[new.kids[n][i]])
<1>0. phase = "topdown" /\ work # <<>>
  BY DEF TopDown
<1>1. n \in Maps[pair[2]] /\ i \in Nat \ {0}
  BY <1>0, VisitHead
<1> SUFFICES ASSUME ~UNCHANGED nm
             PROVE  \E x, y : Adds(x, y)
  OBVIOUS
<1>2. /\ ~Skipped(new, n) /\ nm[n] # None /\ i <= Len(new.kids[n]) /\ Adjacent(n, i)
      /\ nm' = [nm EXCEPT ![cn] = mn]
  BY DEF TopDown
<1>3. i \in DOMAIN new.kids[n]
  BY <1>1, <1>2, VisitIndex
<1>4. cn \in Maps[pair[2]] /\ mn \in Maps[pair[1]]
  BY <1>1, <1>2, <1>3, AdjacentMapped
<1>5. ~Skipped(new, cn)
  BY <1>2 DEF Adjacent
<1>6. SameInside(cn, mn)
  BY <1>5 DEF SameInside, Skipped
<1> QED
  BY <1>2, <1>4, <1>6 DEF Adds

\* A step of the bottom-up optimisation adds a match at most.
LEMMA AddsBottomUp ==
  ASSUME TypeOK, BottomUp
  PROVE  UNCHANGED nm \/ \E n, o : Adds(n, o)
<1> DEFINE n == Head(work)[1]
<1>0. phase = "bottomup" /\ work # <<>>
  BY DEF BottomUp
<1>1. n \in Maps[pair[2]]
  BY <1>0, VisitHead
<1> SUFFICES ASSUME ~UNCHANGED nm
             PROVE  \E x, y : Adds(x, y)
  OBVIOUS
<1>2. PICK v \in Voters(n) :
        /\ ~Skipped(new, n)
        /\ nm' = [nm EXCEPT ![n] = MatchParent(new.kids[n][v])]
  BY DEF BottomUp
<1>3. MatchParent(new.kids[n][v]) \in Maps[pair[1]]
  BY <1>1, <1>2, VoterMapped
<1>4. SameInside(n, MatchParent(new.kids[n][v]))
  BY <1>2 DEF SameInside, Skipped
<1> QED
  BY <1>1, <1>2, <1>3, <1>4 DEF Adds

(***************************************************************************)
(* A match of nodes that have nothing below them, or whose insides are not *)
(* compared, is by signature: each of the other four places that make a    *)
(* match makes it of a node with children, or of roots or headers.         *)
(***************************************************************************)
LEMMA MatchedSameStep ==
  ASSUME TypeOK, PairsAlike, MatchedSame, [Next]_vars
  PROVE  MatchedSame'
<1>1. /\ nm \in [Maps[pair[2]] -> Maps[pair[1]] \cup {None}]
      /\ \A m \in DOMAIN nm : nm[m] # None => SameInside(m, nm[m])
  BY DEF TypeOK, MatchedSame
<1>2. pair' = pair /\ new' = new /\ old' = old
  BY PairKept
<1>3. \A n, o : SameInside(n, o) <=> SameInside(n, o)'
  BY <1>2 DEF SameInside, IsOpaque, Type, Sigs
<1> SUFFICES ASSUME NEW m \in DOMAIN nm', nm'[m] # None
             PROVE  SameInside(m, nm'[m])
  <2>1. \A m \in DOMAIN nm' : nm'[m] # None => SameInside(m, nm'[m])
    OBVIOUS
  <2>2. \A m \in DOMAIN nm' : nm'[m] # None => SameInside(m, nm[m])'
    BY <1>2, <2>1 DEF SameInside, IsOpaque, Type, Sigs
  <2> QED
    BY <2>2 DEF MatchedSame
<1>4. ASSUME NEW n, NEW o, Adds(n, o) PROVE SameInside(m, nm'[m])
  <2>1. n \in Maps[pair[2]] /\ SameInside(n, o) /\ nm' = [nm EXCEPT ![n] = o]
    BY <1>4 DEF Adds
  <2>2. m \in DOMAIN nm
    BY <1>1, <2>1
  <2>3. CASE m = n
    <3>1. nm'[m] = o
      BY <1>1, <2>1, <2>3
    <3> QED
      BY <2>1, <2>3, <3>1
  <2>4. CASE m # n
    <3>1. nm'[m] = nm[m]
      BY <1>1, <2>1, <2>2, <2>4
    <3> QED
      BY <1>1, <2>2, <3>1
  <2> QED
    BY <2>3, <2>4
<1>5. CASE UNCHANGED nm
  BY <1>1, <1>5
<1>6. CASE MatchDown
  <2>1. CASE Abort
    BY <1>5, <2>1 DEF Abort
  <2>2. CASE ~Abort
    <3> DEFINE n == Head(work)[1]
               o == Head(work)[2]
    <3>1. nm' = [Freed(o) EXCEPT ![n] = o] /\ phase = "down" /\ work # <<>>
      BY <1>6, <2>2, DownStep
    <3>2. n \in Maps[pair[2]]
      BY <3>1, NextPair
    <3>3. Sigs[pair[2]][n] = Sigs[pair[1]][o]
      <4>1. 1 \in DOMAIN work /\ Head(work) = work[1]
        <5>1. work \in Seq(Maps[pair[2]] \X Ids(old))
          BY <3>1 DEF TypeOK
        <5> QED
          BY <3>1, <5>1, TailMembers
      <4> QED
        BY <3>1, <4>1 DEF PairsAlike
    <3> HIDE DEF n, o
    <3>4. /\ Freed(o) \in [Maps[pair[2]] -> Maps[pair[1]] \cup {None}]
          /\ \A x \in DOMAIN nm : Freed(o)[x] \in {nm[x], None}
      BY <1>1 DEF Freed
    <3>5. m \in DOMAIN nm
      BY <1>1, <3>1, <3>4
    <3>6. CASE m = n
      <4>1. nm'[m] = o
        BY <3>1, <3>2, <3>4, <3>6
      <4> QED
        BY <3>3, <3>6, <4>1 DEF SameInside
    <3>7. CASE m # n
      <4>1. nm'[m] = Freed(o)[m]
        BY <3>1, <3>4, <3>7
      <4>2. nm'[m] = nm[m]
        BY <3>4, <3>5, <4>1
      <4> QED
        BY <1>1, <3>5, <4>2
    <3> QED
      BY <3>6, <3>7
  <2> QED
    BY <2>1, <2>2
<1> QED
  BY <1>4, <1>5, <1>6, OtherSteps, AddsUp, AddsRoots, AddsTopDown, AddsBottomUp

-------------------------------------------------------------------------------
(***************************************************************************)
(* A document compared with its equal.                                     *)
(***************************************************************************)
Equal == Sigs[pair[1]][Root] = Sigs[pair[2]][Root]

\* Two nodes are the roots, or at the same place among the children of a match.
PairedBy(m, n, o) ==
  \/ n = Root /\ o = Root
  \/ \E p \in DOMAIN m : \E i \in DOMAIN new.kids[p] :
       /\ m[p] # None
       /\ i \in DOMAIN old.kids[m[p]]
       /\ n = new.kids[p][i] /\ o = old.kids[m[p]][i]

Paired(n, o) == PairedBy(nm, n, o)

\* A call of match_down() for two nodes is among those to come.
Among(w, n, o) == \E k \in DOMAIN w : w[k] = <<n, o>>

\* The children of a match are matched in their order, or are to be.
KidsPaired(n) ==
  nm[n] # None /\ ~IsOpaque(new, n) =>
    /\ Len(new.kids[n]) = Len(old.kids[nm[n]])
    /\ \A i \in DOMAIN new.kids[n] :
         \/ nm[new.kids[n][i]] = old.kids[nm[n]][i]
         \/ Among(work, new.kids[n][i], old.kids[nm[n]][i])

Mirroring ==
  /\ \A n \in DOMAIN nm : nm[n] # None => Paired(n, nm[n])
  /\ \A k \in DOMAIN work : Paired(work[k][1], work[k][2])
  /\ \A n \in DOMAIN nm : KidsPaired(n)
  /\ nm[Root] = Root \/ Among(work, Root, Root)

\* All nodes are matched, each with the one at its place.
Mirrored ==
  /\ nm[Root] = Root
  /\ \A n \in DOMAIN nm :
       /\ nm[n] # None /\ om[nm[n]] = n
       /\ ~IsOpaque(new, n) =>
            /\ Len(new.kids[n]) = Len(old.kids[nm[n]])
            /\ \A i \in DOMAIN new.kids[n] : nm[new.kids[n][i]] = old.kids[nm[n]][i]

(***************************************************************************)
(* The root is the first to be taken off the queue and its only candidate  *)
(* is the old root; match_down() then matches all there is.                *)
(***************************************************************************)
EqualMatched ==
  \/ /\ phase = "queue" /\ queue = <<Root>> /\ om[Root] = None
     /\ \A n \in DOMAIN nm : nm[n] = None
  \/ phase = "down" /\ queue = <<>> /\ climb.n = Root /\ Mirroring
  \/ /\ phase \in {"queue", "up", "roots", "topdown", "bottomup", "merge", "done"}
     /\ queue = <<>> /\ climb.n = Root /\ Mirrored

\* An old node has one place at most.
LEMMA PairedOnce ==
  ASSUME TypeOK, NewMatchSound, phase = "down", NEW n, NEW m, NEW o, Paired(n, o), Paired(m, o)
  PROVE  n = m
<1>1. /\ IsTree(old) /\ IsTree(new) /\ Maps[pair[1]] = Mapped(old) /\ Mapped(old) \subseteq Ids(old)
      /\ nm \in [Maps[pair[2]] -> Maps[pair[1]] \cup {None}]
  BY PairOfTrees, MappedClosed DEF TypeOK
<1>2. \A p \in DOMAIN nm : nm[p] # None => om[nm[p]] = p /\ nm[p] \in Ids(old)
  BY <1>1 DEF NewMatchSound
<1>3. \A x \in Ids(old) : \A i \in DOMAIN old.kids[x] :
        old.kids[x][i] # Root /\ old.par[old.kids[x][i]] = x
  BY <1>1 DEF IsTree, Root, None
<1>4. \A x \in Ids(old) : \A i, j \in DOMAIN old.kids[x] :
        old.kids[x][i] = old.kids[x][j] => i = j
  BY <1>1 DEF IsTree, KidsOnce
<1>5. CASE o = Root
  BY <1>2, <1>3, <1>5 DEF Paired, PairedBy
<1>6. CASE o # Root
  <2>1. PICK p \in DOMAIN nm : \E i \in DOMAIN new.kids[p] :
          /\ nm[p] # None /\ i \in DOMAIN old.kids[nm[p]]
          /\ n = new.kids[p][i] /\ o = old.kids[nm[p]][i]
    BY <1>6 DEF Paired, PairedBy
  <2>2. PICK i \in DOMAIN new.kids[p] :
          /\ nm[p] # None /\ i \in DOMAIN old.kids[nm[p]]
          /\ n = new.kids[p][i] /\ o = old.kids[nm[p]][i]
    BY <2>1
  <2>3. PICK q \in DOMAIN nm : \E j \in DOMAIN new.kids[q] :
          /\ nm[q] # None /\ j \in DOMAIN old.kids[nm[q]]
          /\ m = new.kids[q][j] /\ o = old.kids[nm[q]][j]
    BY <1>6 DEF Paired, PairedBy
  <2>4. PICK j \in DOMAIN new.kids[q] :
          /\ nm[q] # None /\ j \in DOMAIN old.kids[nm[q]]
          /\ m = new.kids[q][j] /\ o = old.kids[nm[q]][j]
    BY <2>3
  <2>5. nm[p] = nm[q]
    <3>1. nm[p] \in Ids(old) /\ nm[q] \in Ids(old)
      BY <1>2, <2>2, <2>4
    <3>2. old.par[o] = nm[p]
      BY <1>3, <2>2, <3>1, Zenon
    <3>3. old.par[o] = nm[q]
      BY <1>3, <2>4, <3>1, Zenon
    <3> QED
      BY <3>2, <3>3
  <2>6. p = q
    BY <1>2, <2>2, <2>4, <2>5
  <2>7. i = j
    BY <1>2, <1>4, <2>2, <2>4, <2>6
  <2> QED
    BY <2>2, <2>4, <2>6, <2>7
<1> QED
  BY <1>5, <1>6

(***************************************************************************)
(* match_down() takes no match away here: the old node could only have the *)
(* new one at its place.                                                   *)
(***************************************************************************)
LEMMA MirrorAdds ==
  ASSUME TypeOK, OldMatchSound, NewMatchSound, PairsAlike, Mirroring,
         phase = "down", work # <<>>, Freed(Head(work)[2])[Head(work)[1]] = None
  PROVE  LET n == Head(work)[1]
             o == Head(work)[2]
         IN  /\ nm[n] \in {None, o} /\ n \in DOMAIN nm /\ o \in DOMAIN om
             /\ [Freed(o) EXCEPT ![n] = o] = [nm EXCEPT ![n] = o]
<1> DEFINE n == Head(work)[1]
           o == Head(work)[2]
<1>1. /\ nm \in [Maps[pair[2]] -> Maps[pair[1]] \cup {None}]
      /\ om \in [Maps[pair[1]] -> Maps[pair[2]] \cup {None}]
      /\ work \in Seq(Maps[pair[2]] \X Ids(old))
  BY DEF TypeOK
<1>2. n \in Maps[pair[2]] /\ o \in Maps[pair[1]] /\ o # None
  BY NextPair, NoneNotMapped
<1>3. Paired(n, o)
  <2>1. 1 \in DOMAIN work /\ Head(work) = work[1]
    BY <1>1, TailMembers
  <2> QED
    BY <2>1 DEF Mirroring
<1>4. Freed(o)[n] = None
  OBVIOUS
<1> HIDE DEF n, o
<1>5. CASE om[o] = None
  <2>1. Freed(o) = nm
    BY <1>5 DEF Freed
  <2> QED
    BY <1>1, <1>2, <1>4, <2>1 DEF n, o
<1>6. CASE om[o] # None
  <2>1. om[o] \in DOMAIN nm /\ nm[om[o]] = o
    BY <1>1, <1>2, <1>6 DEF OldMatchSound
  <2>2. Paired(om[o], o)
    BY <1>2, <2>1 DEF Mirroring
  <2>3. om[o] = n
    BY <1>3, <2>2, PairedOnce
  <2>4. Freed(o) = [nm EXCEPT ![n] = None]
    BY <1>6, <2>3 DEF Freed
  <2>5. [Freed(o) EXCEPT ![n] = o] = [nm EXCEPT ![n] = o]
    BY <1>1, <1>2, <2>4
  <2> QED
    BY <1>1, <1>2, <2>1, <2>3, <2>5 DEF n, o
<1> QED
  BY <1>5, <1>6

\* The first node of the queue is the root, and the old root its candidate.
LEMMA EqualDequeue ==
  ASSUME Matching, Matching', Equal, Dequeue, queue = <<Root>>, om[Root] = None,
         \A n \in DOMAIN nm : nm[n] = None
  PROVE  /\ phase' = "down" /\ queue' = <<>> /\ climb'.n = Root
         /\ UNCHANGED <<pair, om, nm>> /\ work' = <<<<Root, Root>>>>
<1>1. /\ IsTree(old) /\ IsTree(new) /\ Maps[pair[1]] = Mapped(old)
      /\ Mapped(old) \subseteq Ids(old) /\ Root \in Mapped(old)
      /\ om \in [Maps[pair[1]] -> Maps[pair[2]] \cup {None}]
      /\ Root \in Ids(old) /\ Root \in Ids(new)
  BY PairOfTrees, MappedClosed DEF Matching, TypeOK, IsTree
<1>2. Head(queue) = Root /\ Tail(queue) = <<>>
  OBVIOUS
<1>3. Root \in Candidates(Root)
  BY <1>1 DEF Candidates, Equal
<1>4. \A o \in Candidates(Root) : o = Root
  <2>1. TAKE o \in Candidates(Root)
  <2>2. o \in Ids(old) /\ SigOf(new)[Root] = SigOf(old)[o]
    BY <1>1, PairOfSigs DEF Candidates, Matching
  <2>3. Type(new, Root) = Type(old, o)
    BY <1>1, <2>2, SameSig
  <2> QED
    BY <1>1, <2>2, <2>3 DEF IsTree, HeaderFirst
<1>5. phase' # "abort"
  BY DEF Matching, NoAbort
<1>6. PICK o \in Candidates(Root) :
        /\ work' = <<<<Root, o>>>>
        /\ climb' = [n |-> Root, o |-> o, i |-> 0, d |-> MaxHeight(Root)]
        /\ queue' = <<>> /\ phase' = "down" /\ UNCHANGED <<pair, om, nm>>
  BY <1>2, <1>3, <1>5 DEF Dequeue, Abort
<1> QED
  BY <1>4, <1>6

\* The two roots are the call that it starts with.
LEMMA MirrorStarts ==
  ASSUME UNCHANGED <<pair, om, nm>>, work' = <<<<Root, Root>>>>,
         new' = new, old' = old, \A n \in DOMAIN nm : nm[n] = None
  PROVE  Mirroring'
<1>1. DOMAIN work' = {1} /\ work'[1] = <<Root, Root>>
  OBVIOUS
<1>2. Among(work', Root, Root)
  BY <1>1 DEF Among
<1>3. \A n \in DOMAIN nm' : nm'[n] = None
  OBVIOUS
<1>5. \A k \in DOMAIN work' : Paired(work[k][1], work[k][2])'
  <2>1. TAKE k \in DOMAIN work'
  <2>2. work'[k][1] = Root /\ work'[k][2] = Root
    BY <1>1, <2>1
  <2> QED
    BY <2>2 DEF Paired, PairedBy
<1>6. \A n \in DOMAIN nm' : KidsPaired(n)'
  BY <1>3 DEF KidsPaired
<1> QED
  BY <1>2, <1>3, <1>5, <1>6 DEF Mirroring

(***************************************************************************)
(* match_down() takes the next call off and puts those for the children in *)
(* its place.                                                              *)
(***************************************************************************)
LEMMA MirrorDown ==
  ASSUME Matching, Matching', Mirroring, MatchDown
  PROVE  Mirroring'
<1>0. PICK n, o, c : n = Head(work)[1] /\ o = Head(work)[2] /\ c = Kidcalls(n, o)
  OBVIOUS
<1>1. /\ nm \in [Maps[pair[2]] -> Maps[pair[1]] \cup {None}]
      /\ work \in Seq(Maps[pair[2]] \X Ids(old))
      /\ IsTree(old) /\ IsTree(new)
      /\ Maps[pair[1]] = Mapped(old) /\ Mapped(old) \subseteq Ids(old)
      /\ Maps[pair[2]] = Mapped(new) /\ Mapped(new) \subseteq Ids(new)
  BY PairOfTrees, MappedClosed DEF Matching, TypeOK, MatchDown
<1>2. ~Abort
  BY DEF Matching, NoAbort, Abort
<1>3. /\ om' = [om EXCEPT ![o] = n] /\ nm' = [Freed(o) EXCEPT ![n] = o]
      /\ phase = "down" /\ work # <<>> /\ UNCHANGED pair
      /\ work' = c \o Tail(work)
  BY <1>0, <1>2, DownStep DEF Kidcalls
<1>4. Freed(o)[n] = None
  BY <1>0, <1>2 DEF MatchDown
<1>5. /\ n \in Maps[pair[2]] /\ o \in Maps[pair[1]] /\ o \in Ids(old)
      /\ Len(new.kids[n]) = Len(old.kids[o])
  BY <1>0, <1>3, NextPair DEF Matching
<1>6. nm[n] \in {None, o} /\ nm' = [nm EXCEPT ![n] = o]
  BY <1>0, <1>3, <1>4, MirrorAdds DEF Matching
<1>7. new' = new /\ old' = old
  BY <1>3 DEF new, old, Docs
<1>8. /\ c \in Seq(Maps[pair[2]] \X Maps[pair[1]])
      /\ \A k \in DOMAIN c :
           k \in DOMAIN new.kids[n] /\ c[k] = <<new.kids[n][k], old.kids[o][k]>>
  BY <1>0, <1>3, KidcallsAre DEF Matching
<1>9. ~IsOpaque(new, n) => DOMAIN c = DOMAIN new.kids[n]
  BY <1>0 DEF Kidcalls
<1>10. Head(work) = <<n, o>> /\ 1 \in DOMAIN work /\ work[1] = <<n, o>>
  <2>1. Head(work) \in Maps[pair[2]] \X Ids(old) /\ 1 \in DOMAIN work /\ Head(work) = work[1]
    BY <1>1, <1>3, TailMembers
  <2> QED
    BY <1>0, <2>1
<1>11. None \notin Ids(old) /\ nm \in [Maps[pair[2]] -> Int] /\ Ids(old) \subseteq Int
  BY <1>1 DEF IsTree, None
<1>12. new.kids[n] \in Seq(Ids(new)) /\ old.kids[o] \in Seq(Ids(old))
  BY <1>1, <1>5 DEF IsTree
<1>13. DOMAIN new.kids[n] = DOMAIN old.kids[o]
  BY <1>5, <1>12
<1>14. c \in Seq(Maps[pair[2]] \X Ids(old))
  BY <1>1, <1>8
<1>15. /\ work' \in Seq(Maps[pair[2]] \X Ids(old)) /\ Len(work') = Len(c) + Len(work) - 1
       /\ \A k \in DOMAIN work' :
            \/ k \in DOMAIN c /\ work'[k] = c[k]
            \/ k \notin DOMAIN c /\ k - Len(c) + 1 \in DOMAIN work \ {1}
               /\ work'[k] = work[k - Len(c) + 1]
  BY <1>1, <1>3, <1>14, PutCalls
<1>16. DOMAIN nm' = DOMAIN nm /\ nm'[n] = o /\ n \in DOMAIN nm
  BY <1>1, <1>5, <1>6
<1>17. \A x, y : Paired(x, y) => PairedBy(nm', x, y)
  <2>1. SUFFICES ASSUME NEW x, NEW y, Paired(x, y) PROVE PairedBy(nm', x, y)
    OBVIOUS
  <2>2. CASE x = Root /\ y = Root
    BY <2>2 DEF PairedBy
  <2>3. CASE ~(x = Root /\ y = Root)
    <3>1. PICK p \in DOMAIN nm : \E i \in DOMAIN new.kids[p] :
            /\ nm[p] # None /\ i \in DOMAIN old.kids[nm[p]]
            /\ x = new.kids[p][i] /\ y = old.kids[nm[p]][i]
      BY <2>1, <2>3 DEF Paired, PairedBy
    <3>2. p \in DOMAIN nm' /\ nm'[p] = nm[p]
      BY <1>5, <1>6, <1>11, <3>1
    <3> QED
      BY <3>1, <3>2 DEF PairedBy
  <2> QED
    BY <2>2, <2>3
<1>18. \A k \in DOMAIN new.kids[n] : PairedBy(nm', new.kids[n][k], old.kids[o][k])
  BY <1>5, <1>7, <1>11, <1>13, <1>16 DEF Paired, PairedBy
<1>19. \A x, y : Among(work, x, y) => nm'[x] = y \/ Among(work', x, y)
  <2>1. SUFFICES ASSUME NEW x, NEW y, NEW k \in DOMAIN work, work[k] = <<x, y>>
                 PROVE  nm'[x] = y \/ Among(work', x, y)
    BY DEF Among
  <2>2. CASE k = 1
    BY <1>10, <1>16, <2>1, <2>2
  <2>3. CASE k # 1
    <3> DEFINE j == Len(c) + k - 1
    <3>1. Len(c) \in Nat /\ Len(work) \in Nat /\ k \in 1 .. Len(work)
          /\ DOMAIN c = 1 .. Len(c) /\ DOMAIN work' = 1 .. Len(work')
      BY <1>1, <1>14, <1>15
    <3>2. j \in DOMAIN work' /\ j \notin DOMAIN c /\ j - Len(c) + 1 = k
      <4>1. j \in 1 .. Len(c) + Len(work) - 1 /\ j \notin 1 .. Len(c) /\ j - Len(c) + 1 = k
        BY <2>3, <3>1
      <4> QED
        BY <1>15, <3>1, <4>1
    <3>3. work'[j] = work[k]
      BY <1>15, <3>2
    <3> HIDE DEF j
    <3> QED
      BY <2>1, <3>2, <3>3 DEF Among
  <2> QED
    BY <2>2, <2>3
<1>20. \A k \in DOMAIN c : Among(work', new.kids[n][k], old.kids[o][k])
  <2>1. TAKE k \in DOMAIN c
  <2>2. k \in DOMAIN work' /\ work'[k] = c[k]
    <3>1. Len(c) \in Nat /\ Len(work) \in Nat /\ Len(work) > 0 /\ DOMAIN c = 1 .. Len(c)
          /\ DOMAIN work' = 1 .. Len(work')
      BY <1>1, <1>3, <1>14, <1>15
    <3>2. k \in DOMAIN work'
      BY <1>15, <2>1, <3>1
    <3> QED
      BY <1>15, <2>1, <3>2
  <2> QED
    BY <1>8, <2>1, <2>2 DEF Among
<1>21. \A x \in DOMAIN nm' : nm'[x] # None => PairedBy(nm', x, nm'[x])
  <2>1. SUFFICES ASSUME NEW x \in DOMAIN nm, nm'[x] # None PROVE PairedBy(nm', x, nm'[x])
    BY <1>16
  <2>2. Paired(n, o)
    BY <1>10 DEF Mirroring
  <2>3. CASE x = n
    <3>1. PairedBy(nm', n, o)
      BY <1>17, <2>2
    <3> QED
      BY <1>16, <2>3, <3>1 DEF Paired, PairedBy
  <2>4. CASE x # n
    <3>1. nm'[x] = nm[x] /\ Paired(x, nm[x])
      BY <1>6, <2>1, <2>4 DEF Mirroring
    <3>2. PICK y : y = nm[x] /\ y = nm'[x]
      BY <3>1
    <3>3. PairedBy(nm', x, y)
      BY <1>17, <3>1, <3>2
    <3> QED
      BY <3>2, <3>3 DEF Paired, PairedBy
  <2> QED
    BY <2>3, <2>4
<1>22. \A k \in DOMAIN work' : PairedBy(nm', work'[k][1], work'[k][2])
  <2>1. TAKE k \in DOMAIN work'
  <2> DEFINE w == work'[k]
  <2>2. \E x, y : w = <<x, y>> /\ PairedBy(nm', x, y)
    <3>1. CASE k \in DOMAIN c /\ work'[k] = c[k]
      BY <1>8, <1>18, <3>1
    <3>2. CASE k - Len(c) + 1 \in DOMAIN work \ {1} /\ work'[k] = work[k - Len(c) + 1]
      <4> DEFINE j == k - Len(c) + 1
      <4>1. work[j] \in Maps[pair[2]] \X Ids(old) /\ Paired(work[j][1], work[j][2])
        BY <1>1, <3>2 DEF Mirroring
      <4>2. PICK x, y : work[j] = <<x, y>> /\ Paired(x, y)
        BY <4>1
      <4> QED
        BY <1>17, <3>2, <4>2
    <3> QED
      BY <1>15, <2>1, <3>1, <3>2
  <2>3. PICK x, y : w = <<x, y>> /\ PairedBy(nm', x, y)
    BY <2>2
  <2> QED
    BY <2>3 DEF Paired, PairedBy
<1>23. ASSUME NEW x \in DOMAIN nm', nm'[x] # None, ~IsOpaque(new, x)
       PROVE  /\ Len(new.kids[x]) = Len(old.kids[nm'[x]])
              /\ \A i \in DOMAIN new.kids[x] :
                   \/ nm'[new.kids[x][i]] = old.kids[nm'[x]][i]
                   \/ Among(work', new.kids[x][i], old.kids[nm'[x]][i])
  <2>1. x \in DOMAIN nm /\ nm'[x] # None /\ ~IsOpaque(new, x)
    BY <1>16, <1>23
  <2>2. CASE x = n
    BY <1>5, <1>9, <1>16, <1>20, <2>1, <2>2
  <2>3. CASE x # n
    <3>1. nm'[x] = nm[x]
      BY <1>6, <2>1, <2>3
    <3>2. KidsPaired(x)
      BY <2>1 DEF Mirroring
    <3>3. /\ Len(new.kids[x]) = Len(old.kids[nm[x]])
          /\ \A i \in DOMAIN new.kids[x] :
               \/ nm[new.kids[x][i]] = old.kids[nm[x]][i]
               \/ Among(work, new.kids[x][i], old.kids[nm[x]][i])
      BY <2>1, <3>1, <3>2 DEF KidsPaired
    <3>4. nm[x] \in Ids(old) /\ x \in Ids(new)
      BY <1>1, <2>1, <3>1
    <3>5. new.kids[x] \in Seq(Ids(new)) /\ old.kids[nm[x]] \in Seq(Ids(old))
      BY <1>1, <3>4 DEF IsTree
    <3>6. \A i \in DOMAIN new.kids[x] :
            /\ old.kids[nm[x]][i] \in Ids(old)
            /\ new.kids[x][i] \in DOMAIN nm
      <4>1. DOMAIN new.kids[x] = DOMAIN old.kids[nm[x]]
        BY <3>3, <3>5
      <4>2. Kids(new, x) \subseteq Mapped(new)
        BY <1>1, <2>1, MappedClosed
      <4> QED
        BY <1>1, <3>5, <4>1, <4>2 DEF Kids
    <3>7. ASSUME NEW i \in DOMAIN new.kids[x]
          PROVE  \/ nm'[new.kids[x][i]] = old.kids[nm[x]][i]
                 \/ Among(work', new.kids[x][i], old.kids[nm[x]][i])
      <4>0. PICK a, b : a = new.kids[x][i] /\ b = old.kids[nm[x]][i]
        OBVIOUS
      <4>1. b # None /\ a \in DOMAIN nm
        BY <1>11, <3>6, <4>0
      <4>2. nm[a] = b \/ Among(work, a, b)
        BY <3>3, <4>0
      <4>3. nm'[a] = b \/ Among(work', a, b)
        <5>1. CASE nm[a] = b
          BY <1>5, <1>6, <1>11, <1>16, <4>1, <5>1
        <5>2. CASE Among(work, a, b)
          BY <1>19, <5>2
        <5> QED
          BY <4>2, <5>1, <5>2
      <4> QED
        BY <4>0, <4>3
    <3> QED
      BY <3>1, <3>3, <3>7 DEF Among
  <2> QED
    BY <2>2, <2>3
<1>24. nm'[Root] = Root \/ Among(work', Root, Root)
  <2>1. CASE nm[Root] = Root
    <3>1. nm[Root] # None
      BY <2>1 DEF Root, None
    <3>2. Root \in DOMAIN nm
      BY <1>1, MappedClosed
    <3> QED
      BY <1>6, <1>11, <1>16, <2>1, <3>1, <3>2
  <2>2. CASE Among(work, Root, Root)
    BY <1>19, <2>2
  <2> QED
    BY <2>1, <2>2 DEF Mirroring
<1>25. \A x \in DOMAIN nm' : KidsPaired(x)'
  <2>1. TAKE x \in DOMAIN nm'
  <2>2. IsOpaque(new, x)' = IsOpaque(new, x)
    BY <1>7 DEF IsOpaque, Type
  <2> QED
    BY <1>7, <1>23, <2>1, <2>2 DEF KidsPaired
<1> QED
  BY <1>7, <1>21, <1>22, <1>24, <1>25 DEF Mirroring, Paired, PairedBy

-------------------------------------------------------------------------------
(***************************************************************************)
(* When no call is left, every node that is matched has its children       *)
(* matched, and so all that are in the map are.                            *)
(***************************************************************************)
LEMMA MirrorDone ==
  ASSUME Matching, Mirroring, phase = "down", work = <<>>
  PROVE  Mirrored
<1>1. /\ IsTree(old) /\ IsTree(new) /\ Maps[pair[1]] = Mapped(old)
      /\ Mapped(old) \subseteq Ids(old) /\ Maps[pair[2]] = Mapped(new)
      /\ Mapped(new) \subseteq Ids(new) /\ Root \in Mapped(new)
      /\ nm \in [Mapped(new) -> Mapped(old) \cup {None}]
  BY PairOfTrees, MappedClosed DEF Matching, TypeOK
<1>2. None \notin Ids(old)
  BY <1>1 DEF IsTree, None
<1>3. \A x, y : ~Among(work, x, y)
  BY DEF Among
<1>4. nm[Root] = Root
  BY <1>3 DEF Mirroring
<1>5. \A n \in DOMAIN nm : nm[n] # None => om[nm[n]] = n
  BY DEF Matching, NewMatchSound
<1>6. ASSUME NEW n \in DOMAIN nm, nm[n] # None, ~IsOpaque(new, n)
      PROVE  /\ Len(new.kids[n]) = Len(old.kids[nm[n]])
             /\ \A i \in DOMAIN new.kids[n] : nm[new.kids[n][i]] = old.kids[nm[n]][i]
  BY <1>3, <1>6 DEF Mirroring, KidsPaired
<1> DEFINE S == {n \in Mapped(new) : nm[n] # None}
<1>7. Root \in S
  BY <1>1, <1>4 DEF Root, None
<1>8. ASSUME NEW n \in S, ~IsOpaque(new, n)
      PROVE  Kids(new, n) \subseteq S
  <2>1. n \in DOMAIN nm /\ n \in Mapped(new) /\ nm[n] # None /\ nm[n] \in Ids(old) /\ n \in Ids(new)
    BY <1>1, <1>8
  <2>2. new.kids[n] \in Seq(Ids(new)) /\ old.kids[nm[n]] \in Seq(Ids(old))
    BY <1>1, <2>1 DEF IsTree
  <2>3. Len(new.kids[n]) = Len(old.kids[nm[n]])
    BY <1>6, <1>8, <2>1
  <2>4. \A i \in DOMAIN new.kids[n] : i \in DOMAIN old.kids[nm[n]]
    BY <2>2, <2>3
  <2>5. \A i \in DOMAIN new.kids[n] : nm[new.kids[n][i]] \in Ids(old)
    BY <1>6, <1>8, <2>1, <2>2, <2>4
  <2>6. Kids(new, n) \subseteq Mapped(new)
    BY <1>1, <1>8, <2>1, MappedClosed
  <2> QED
    BY <1>2, <2>5, <2>6 DEF Kids
<1>9. S \in SUBSET Ids(new) /\ Closed(new, S)
  BY <1>1, <1>7, <1>8 DEF Closed
<1>10. \A n \in Mapped(new) : n \in S
  BY <1>9, MappedMember
<1>11. \A n \in DOMAIN nm : nm[n] # None
  BY <1>1, <1>10
<1> QED
  BY <1>4, <1>5, <1>6, <1>11 DEF Mirrored

\* The two are as they were, as long as the matching is.
LEMMA MirrorKept ==
  ASSUME new' = new, old' = old, UNCHANGED <<om, nm>>
  PROVE  /\ Mirrored => Mirrored'
         /\ Mirroring /\ UNCHANGED work => Mirroring'
<1>1. \A n : IsOpaque(new, n)' = IsOpaque(new, n)
  BY DEF IsOpaque, Type
<1> QED
  BY <1>1 DEF Mirrored, Mirroring, Paired, PairedBy, KidsPaired, Among

\* What comes after match_down() finds nothing to match.
LEMMA MirrorStays ==
  ASSUME Matching, Mirrored, [Next]_vars, phase # "down"
  PROVE  UNCHANGED <<om, nm>> \/ MatchUp
<1>1. TypeOK /\ \A n \in Maps[pair[2]] : nm[n] # None
  BY DEF Matching, TypeOK, Mirrored
<1>2. \A n, o : ~Joined(n, o)
  BY <1>1 DEF Joined
<1>3. CASE MatchDown
  BY <1>3 DEF MatchDown
<1>4. CASE MatchRoots
  BY <1>1, <1>2, <1>4, JoinedRoots
<1>5. CASE MatchHeaders
  BY <1>1, <1>2, <1>5, JoinedHeaders
<1>6. CASE TopDown
  BY <1>1, <1>2, <1>6, JoinedTopDown
<1>7. CASE BottomUp
  BY <1>1, <1>2, <1>7, JoinedBottomUp
<1> QED
  BY <1>3, <1>4, <1>5, <1>6, <1>7, OtherSteps

\* Every step of the matching keeps equal documents matched.
LEMMA EqualStays ==
  ASSUME Matching, Matching', Equal, EqualMatched, MatchNext
  PROVE  EqualMatched'
<1>1. [Next]_vars /\ new' = new /\ old' = old /\ pair' = pair /\ phase' # "abort"
  BY PairKept DEF Next, Matching, NoAbort
<1>2. CASE /\ phase = "queue" /\ queue = <<Root>> /\ om[Root] = None
           /\ \A n \in DOMAIN nm : nm[n] = None
  <2>1. Dequeue
    BY <1>2 DEF MatchNext, Enqueue, EnqueueDone, MatchDown, MatchDownDone, MatchUp,
                MatchUpDone, MatchRoots, MatchHeaders, TopDown, TopDownDone, BottomUp, BottomUpDone
  <2>2. /\ phase' = "down" /\ queue' = <<>> /\ climb'.n = Root
        /\ UNCHANGED <<pair, om, nm>> /\ work' = <<<<Root, Root>>>>
    BY <1>2, <2>1, EqualDequeue
  <2>3. Mirroring'
    BY <1>1, <1>2, <2>2, MirrorStarts
  <2> QED
    BY <2>2, <2>3 DEF EqualMatched
<1>3. CASE phase = "down" /\ queue = <<>> /\ climb.n = Root /\ Mirroring
  <2>1. MatchDown \/ MatchDownDone
    BY <1>3 DEF MatchNext, Dequeue, Enqueue, EnqueueDone, MatchUp,
                MatchUpDone, MatchRoots, MatchHeaders, TopDown, TopDownDone, BottomUp, BottomUpDone
  <2>2. CASE MatchDown
    <3>1. Mirroring'
      BY <1>3, <2>2, MirrorDown
    <3>2. phase' = "down" /\ UNCHANGED <<queue, climb>>
      BY <1>1, <2>2 DEF MatchDown, Abort
    <3> QED
      BY <1>3, <3>1, <3>2 DEF EqualMatched
  <2>3. CASE MatchDownDone
    <3>1. Mirrored
      BY <1>3, <2>3, MirrorDone DEF MatchDownDone
    <3>2. phase' = "up" /\ UNCHANGED <<pair, om, nm, queue, climb>>
      BY <2>3 DEF MatchDownDone
    <3>3. Mirrored'
      BY <1>1, <3>1, <3>2, MirrorKept
    <3> QED
      BY <1>3, <3>2, <3>3 DEF EqualMatched
  <2> QED
    BY <2>1, <2>2, <2>3
<1>4. CASE /\ phase \in {"queue", "up", "roots", "topdown", "bottomup", "merge", "done"}
           /\ queue = <<>> /\ climb.n = Root /\ Mirrored
  <2>1. ~MatchUp
    <3>1. new.par[Root] = None
      BY PairOfTrees DEF Matching, TypeOK, IsTree
    <3> QED
      BY <1>4, <3>1 DEF MatchUp, MayClimb
  <2>2. UNCHANGED <<om, nm>>
    BY <1>1, <1>4, <2>1, MirrorStays
  <2>3. Mirrored'
    BY <1>1, <1>4, <2>2, MirrorKept
  <2>4. \/ MatchUpDone \/ MatchRoots \/ MatchHeaders \/ TopDown \/ TopDownDone
        \/ BottomUp \/ BottomUpDone
    BY <1>4, <2>1 DEF MatchNext, Dequeue, Enqueue, EnqueueDone, MatchDown, MatchDownDone
  <2>5. UNCHANGED queue /\ (UNCHANGED climb \/ climb' = NoClimb)
    BY <2>4 DEF MatchUpDone, MatchRoots, MatchHeaders, TopDown, TopDownDone, BottomUp,
                BottomUpDone, Abort
  <2>6. phase' \in {"queue", "roots", "topdown", "bottomup", "merge"}
    BY <1>1, <2>4 DEF MatchUpDone, MatchRoots, MatchHeaders, TopDown, TopDownDone, BottomUp,
                      BottomUpDone, Abort
  <2> QED
    BY <1>4, <2>3, <2>5, <2>6 DEF EqualMatched, NoClimb
<1> QED
  BY <1>2, <1>3, <1>4 DEF EqualMatched

(***************************************************************************)
(* So the matching of a document with its equal stays on its way, through  *)
(* the merge too.                                                          *)
(***************************************************************************)
LEMMA EqualMatchedStep ==
  ASSUME Matching, Matching', Equal, EqualMatched, [MNext]_<<vars, mvars>>
  PROVE  EqualMatched' /\ Equal'
<1>1. pair' = pair /\ new' = new /\ old' = old
  <2>1. pair' = pair
    BY MergeKeepsMatching, PairKept DEF MNext, Next, matching, vars
  <2> QED
    BY <2>1 DEF new, old, Docs
<1>2. Equal'
  BY <1>1 DEF Equal, Sigs, Docs
<1>3. CASE MatchNext
  BY <1>2, <1>3, EqualStays
<1>4. CASE MergeNext \/ Returned
  <2>1. UNCHANGED matching /\ phase \in {"merge", "done"} /\ phase' \in {"merge", "done"}
    BY <1>4, MergeKeepsMatching, MergePhase DEF Returned, Matching, NoAbort, vars
  <2>2. queue = <<>> /\ climb.n = Root /\ Mirrored
    BY <2>1 DEF EqualMatched
  <2>3. Mirrored'
    BY <1>1, <2>1, <2>2, MirrorKept DEF matching
  <2> QED
    BY <1>2, <2>1, <2>2, <2>3 DEF EqualMatched, matching
<1>5. CASE UNCHANGED <<vars, mvars>>
  <2>1. UNCHANGED <<phase, queue, om, nm, work, climb>>
    BY <1>5 DEF vars
  <2>2. (Mirrored => Mirrored') /\ (Mirroring => Mirroring')
    BY <1>1, <2>1, MirrorKept
  <2> QED
    BY <1>2, <2>1, <2>2 DEF EqualMatched
<1> QED
  BY <1>2, <1>3, <1>4, <1>5 DEF MNext

-------------------------------------------------------------------------------
(***************************************************************************)
(* Sub-trees lie within each other, or apart.                              *)
(***************************************************************************)
LEMMA BelowWithin ==
  ASSUME NEW t, IsTree(t)
  PROVE  \A y \in Ids(t) : \A x \in Below(t)[y] : Below(t)[x] \subseteq Below(t)[y]
<1> DEFINE B == Below(t)
           S == {y \in Ids(t) : \E x \in B[y] : ~(B[x] \subseteq B[y])}
<1>1. SUFFICES ASSUME S # {} PROVE FALSE
  OBVIOUS
<1>2. PICK y \in S : \A i \in DOMAIN t.kids[y] : t.kids[y][i] \notin S
  <2>1. S \in SUBSET Ids(t)
    OBVIOUS
  <2> HIDE DEF S
  <2> QED
    BY <1>1, <2>1, Deepest
<1>3. PICK x \in B[y] : ~(B[x] \subseteq B[y])
  BY <1>2
<1>4. y \in Ids(t)
  BY <1>2
<1>5. PICK i \in DOMAIN t.kids[y] : x \in B[t.kids[y][i]]
  BY <1>3, <1>4, BelowUnfold
<1>6. t.kids[y][i] \in Ids(t) /\ t.kids[y][i] \notin S
  BY <1>2, <1>4, KidIsNode
<1>7. B[x] \subseteq B[t.kids[y][i]]
  BY <1>5, <1>6
<1>8. B[t.kids[y][i]] \subseteq B[y]
  BY <1>4, BelowClosed
<1> QED
  BY <1>3, <1>7, <1>8

\* Of two sub-trees with a node in common one is inside of the other.
LEMMA BelowNested ==
  ASSUME NEW t, IsTree(t), NEW y \in Ids(t), NEW x \in Ids(t), Below(t)[x] \cap Below(t)[y] # {}
  PROVE  x \in Below(t)[y] \/ y \in Below(t)[x]
<1> DEFINE B == Below(t)
           S == {v \in Ids(t) : B[v] \cap B[y] # {} /\ v \notin B[y] /\ y \notin B[v]}
<1>1. SUFFICES ASSUME S # {} PROVE FALSE
  OBVIOUS
<1>2. PICK v \in S : \A i \in DOMAIN t.kids[v] : t.kids[v][i] \notin S
  <2>1. S \in SUBSET Ids(t)
    OBVIOUS
  <2> HIDE DEF S
  <2> QED
    BY <1>1, <2>1, Deepest
<1>3. v \in Ids(t) /\ v \notin B[y] /\ y \notin B[v]
  BY <1>2
<1>4. PICK z : z \in B[v] /\ z \in B[y]
  BY <1>2
<1>5. PICK i \in DOMAIN t.kids[v] : z \in B[t.kids[v][i]]
  BY <1>3, <1>4, BelowUnfold
<1> DEFINE c == t.kids[v][i]
<1>6. c \in Ids(t) /\ c \notin S /\ t.par[c] = v
  BY <1>2, <1>3, KidIsNode
<1>7. B[c] \subseteq B[v] /\ c \in B[c]
  BY <1>3, <1>6, BelowClosed
<1> HIDE DEF c
<1>8. c \in B[y]
  BY <1>3, <1>4, <1>5, <1>6, <1>7 DEF c
<1>9. c # y
  BY <1>3, <1>7
<1>10. v \in B[y]
  BY <1>6, <1>8, <1>9, BelowClosed
<1> QED
  BY <1>3, <1>10

\* What is above a mapped node is mapped and is not opaque.
LEMMA MappedAbove ==
  ASSUME NEW t, IsTree(t)
  PROVE  \A y \in Ids(t) : \A x \in Below(t)[y] \cap Mapped(t) :
           y \in Mapped(t) /\ (x # y => ~IsOpaque(t, y))
<1> DEFINE B == Below(t)
           S == {y \in Ids(t) : \E x \in B[y] \cap Mapped(t) : y \notin Mapped(t)}
<1>1. \A y \in Ids(t) : \A x \in B[y] \cap Mapped(t) :
        x # y => \E i \in DOMAIN t.kids[y] :
                   /\ x \in B[t.kids[y][i]] /\ t.kids[y][i] \in Ids(t)
                   /\ t.par[t.kids[y][i]] = y
  <2>1. SUFFICES ASSUME NEW y \in Ids(t), NEW x \in B[y] \cap Mapped(t), x # y
                 PROVE  \E i \in DOMAIN t.kids[y] :
                          /\ x \in B[t.kids[y][i]] /\ t.kids[y][i] \in Ids(t)
                          /\ t.par[t.kids[y][i]] = y
    OBVIOUS
  <2>2. x # y
    BY <2>1
  <2>3. PICK i \in DOMAIN t.kids[y] : x \in B[t.kids[y][i]]
    BY <2>1, <2>2, BelowUnfold
  <2> QED
    BY <2>3, KidIsNode
<1>2. None \notin Ids(t)
  BY DEF IsTree, None
<1>3. S = {}
  <2>1. SUFFICES ASSUME S # {} PROVE FALSE
    OBVIOUS
  <2>2. PICK y \in S : \A i \in DOMAIN t.kids[y] : t.kids[y][i] \notin S
    <3>1. S \in SUBSET Ids(t)
      OBVIOUS
    <3> HIDE DEF S
    <3> QED
      BY <2>1, <3>1, Deepest
  <2>3. PICK x \in B[y] \cap Mapped(t) : y \notin Mapped(t)
    BY <2>2
  <2>4. y \in Ids(t) /\ x # y
    BY <2>2, <2>3
  <2>5. PICK i \in DOMAIN t.kids[y] :
          /\ x \in B[t.kids[y][i]] /\ t.kids[y][i] \in Ids(t)
          /\ t.par[t.kids[y][i]] = y
    BY <1>1, <2>3, <2>4
  <2>6. t.kids[y][i] \in Mapped(t)
    BY <2>2, <2>3, <2>5
  <2>7. t.par[t.kids[y][i]] \in Mapped(t)
    BY <1>2, <2>4, <2>5, <2>6, MappedParent
  <2> QED
    BY <2>3, <2>5, <2>7
<1>4. \A y \in Ids(t) : \A x \in B[y] \cap Mapped(t) : y \in Mapped(t)
  BY <1>3
<1>5. ASSUME NEW y \in Ids(t), NEW x \in B[y] \cap Mapped(t), x # y
      PROVE  ~IsOpaque(t, y)
  <2>1. PICK i \in DOMAIN t.kids[y] :
          /\ x \in B[t.kids[y][i]] /\ t.kids[y][i] \in Ids(t)
          /\ t.par[t.kids[y][i]] = y
    BY <1>1, <1>5
  <2>2. t.kids[y][i] \in Mapped(t)
    BY <1>4, <2>1
  <2> QED
    BY <1>2, <2>1, <2>2, MappedParent
<1> QED
  BY <1>4, <1>5

(***************************************************************************)
(* Two nodes of one signature are walked from alike: the k-th nodes of the *)
(* walks are at the same place among the children of two earlier ones.     *)
(***************************************************************************)
SamePlace(t, u, s, r, k) ==
  \E j \in 1 .. k - 1 : \E i \in DOMAIN t.kids[s[j]] :
    /\ i \in DOMAIN u.kids[r[j]]
    /\ s[k] = t.kids[s[j]][i] /\ r[k] = u.kids[r[j]][i]

WalksAlike(t, u, n) ==
  \A o \in Ids(u) : SigOf(t)[n] = SigOf(u)[o] =>
    /\ Len(PreOrder(t)[n]) = Len(PreOrder(u)[o])
    /\ \A k \in 2 .. Len(PreOrder(t)[n]) :
         SamePlace(t, u, PreOrder(t)[n], PreOrder(u)[o], k)

\* Walks go alike from two nodes if they do from their children.
LEMMA WalksAlikeStep ==
  ASSUME NEW t, IsTree(t), NEW u, IsTree(u), NEW n \in Ids(t),
         \A i \in DOMAIN t.kids[n] : WalksAlike(t, u, t.kids[n][i])
  PROVE  WalksAlike(t, u, n)
<1>1. SUFFICES ASSUME NEW o \in Ids(u), SigOf(t)[n] = SigOf(u)[o]
               PROVE  /\ Len(PreOrder(t)[n]) = Len(PreOrder(u)[o])
                      /\ \A k \in 2 .. Len(PreOrder(t)[n]) :
                           SamePlace(t, u, PreOrder(t)[n], PreOrder(u)[o], k)
  BY DEF WalksAlike
<1> DEFINE pt(i) == PreOrder(t)[t.kids[n][i]]
           pu(i) == PreOrder(u)[u.kids[o][i]]
           s == PreOrder(t)[n]
           r == PreOrder(u)[o]
<1>2. /\ Len(t.kids[n]) = Len(u.kids[o])
      /\ \A i \in DOMAIN t.kids[n] : SigOf(t)[t.kids[n][i]] = SigOf(u)[u.kids[o][i]]
  BY <1>1, SameSig
<1>3. /\ KidWalks(t, n) \in Seq(Seq(Ids(t))) /\ Len(KidWalks(t, n)) = Len(t.kids[n])
      /\ DOMAIN t.kids[n] = 1 .. Len(t.kids[n]) /\ Len(t.kids[n]) \in Nat
      /\ KidWalks(u, o) \in Seq(Seq(Ids(u))) /\ Len(KidWalks(u, o)) = Len(u.kids[o])
      /\ DOMAIN u.kids[o] = 1 .. Len(u.kids[o])
  BY KidWalksType
<1>4. DOMAIN t.kids[n] = DOMAIN u.kids[o]
  BY <1>2, <1>3
<1>5. \A i \in DOMAIN t.kids[n] :
        /\ Len(pt(i)) = Len(pu(i)) /\ t.kids[n][i] \in Ids(t) /\ u.kids[o][i] \in Ids(u)
        /\ \A k \in 2 .. Len(pt(i)) : SamePlace(t, u, pt(i), pu(i), k)
  <2>1. TAKE i \in DOMAIN t.kids[n]
  <2>2. t.kids[n][i] \in Ids(t) /\ u.kids[o][i] \in Ids(u)
    BY <1>4, <2>1, KidIsNode
  <2> QED
    BY <1>2, <2>2 DEF WalksAlike
<1>6. PICK off : Offsets(KidWalks(t, n), off)
  BY <1>3, FlatOffsets
<1>7. Offsets(KidWalks(u, o), off)
  <2>1. \A i \in 1 .. Len(t.kids[n]) : Len(KidWalks(t, n)[i]) = Len(KidWalks(u, o)[i])
    BY <1>3, <1>4, <1>5 DEF KidWalks
  <2> QED
    BY <1>2, <1>3, <1>6, <2>1 DEF Offsets
<1>8. /\ Len(s) \in Nat /\ s[1] = n /\ Len(s) = 1 + off[Len(t.kids[n]) + 1]
      /\ \A i \in DOMAIN t.kids[n] : off[i] \in Nat /\ \A j \in 1 .. Len(pt(i)) :
           1 + off[i] + j \in 2 .. Len(s) /\ s[1 + off[i] + j] = pt(i)[j]
      /\ \A m \in 2 .. Len(s) : \E i \in DOMAIN t.kids[n] : m - 1 - off[i] \in 1 .. Len(pt(i))
  BY <1>6, PrePlaces
<1>9. /\ Len(r) \in Nat /\ r[1] = o /\ Len(r) = 1 + off[Len(u.kids[o]) + 1]
      /\ \A i \in DOMAIN u.kids[o] : off[i] \in Nat /\ \A j \in 1 .. Len(pu(i)) :
           1 + off[i] + j \in 2 .. Len(r) /\ r[1 + off[i] + j] = pu(i)[j]
  BY <1>7, PrePlaces
<1>10. Len(s) = Len(r)
  BY <1>2, <1>8, <1>9
<1>11. \A i \in DOMAIN t.kids[n] :
         pt(i)[1] = t.kids[n][i] /\ pu(i)[1] = u.kids[o][i] /\ Len(pt(i)) \in Nat
  <2>1. TAKE i \in DOMAIN t.kids[n]
  <2>2. WalkGood(t, t.kids[n][i]) /\ WalkGood(u, u.kids[o][i])
    BY <1>5, WalksGood
  <2> QED
    BY <2>2 DEF WalkGood
<1> HIDE DEF pt, pu, s, r
<1>12. ASSUME NEW k \in 2 .. Len(s)
       PROVE  SamePlace(t, u, s, r, k)
  <2>1. PICK i \in DOMAIN t.kids[n] : k - 1 - off[i] \in 1 .. Len(pt(i))
    BY <1>8, <1>12
  <2> DEFINE q == k - 1 - off[i]
  <2>2. off[i] \in Nat /\ q \in 1 .. Len(pt(i)) /\ q \in 1 .. Len(pu(i)) /\ 1 + off[i] + q = k
    BY <1>5, <1>8, <1>12, <2>1
  <2>3. s[k] = pt(i)[q] /\ r[k] = pu(i)[q]
    <3>1. s[1 + off[i] + q] = pt(i)[q] /\ r[1 + off[i] + q] = pu(i)[q]
      BY <1>4, <1>8, <1>9, <2>1, <2>2
    <3> HIDE DEF q
    <3> QED
      BY <2>2, <3>1
  <2> HIDE DEF q
  <2>4. CASE q = 1
    <3>1. 1 \in 1 .. k - 1 /\ i \in DOMAIN u.kids[o]
      BY <1>4, <1>12, <2>1
    <3>2. s[k] = t.kids[s[1]][i] /\ r[k] = u.kids[r[1]][i]
      BY <1>8, <1>9, <1>11, <2>1, <2>3, <2>4
    <3> QED
      BY <1>8, <1>9, <2>1, <3>1, <3>2 DEF SamePlace
  <2>5. CASE q # 1
    <3>1. q \in 2 .. Len(pt(i))
      BY <1>11, <2>1, <2>2, <2>5
    <3>2. SamePlace(t, u, pt(i), pu(i), q)
      BY <1>5, <2>1, <3>1
    <3>3. PICK j \in 1 .. q - 1 : \E h \in DOMAIN t.kids[pt(i)[j]] :
            /\ h \in DOMAIN u.kids[pu(i)[j]]
            /\ pt(i)[q] = t.kids[pt(i)[j]][h] /\ pu(i)[q] = u.kids[pu(i)[j]][h]
      BY <3>2 DEF SamePlace
    <3>4. j \in 1 .. Len(pt(i)) /\ j \in 1 .. Len(pu(i))
      BY <1>11, <2>1, <2>2, <3>1, <3>3
    <3>5. s[1 + off[i] + j] = pt(i)[j] /\ r[1 + off[i] + j] = pu(i)[j]
      BY <1>4, <1>8, <1>9, <2>1, <3>4
    <3> DEFINE g == 1 + off[i] + j
    <3>6. g \in 1 .. k - 1
      BY <2>2, <3>3
    <3>7. s[g] = pt(i)[j] /\ r[g] = pu(i)[j]
      BY <3>5
    <3> HIDE DEF g
    <3> QED
      BY <2>3, <3>3, <3>6, <3>7 DEF SamePlace
  <2> QED
    BY <2>4, <2>5
<1> QED
  BY <1>10, <1>12 DEF s, r

\* From every node walks go as they do from a node of the same digest.
LEMMA AlikeWalks ==
  ASSUME NEW t, IsTree(t), NEW u, IsTree(u)
  PROVE  \A n \in Ids(t) : WalksAlike(t, u, n)
<1> DEFINE S == {n \in Ids(t) : ~WalksAlike(t, u, n)}
<1>1. SUFFICES ASSUME S # {} PROVE FALSE
  OBVIOUS
<1>2. PICK n \in S : \A i \in DOMAIN t.kids[n] : t.kids[n][i] \notin S
  <2>1. S \in SUBSET Ids(t)
    OBVIOUS
  <2> HIDE DEF S
  <2> QED
    BY <1>1, <2>1, Deepest
<1>3. \A i \in DOMAIN t.kids[n] : WalksAlike(t, u, t.kids[n][i])
  BY <1>2, KidIsNode
<1>4. WalksAlike(t, u, n)
  BY <1>2, <1>3, WalksAlikeStep
<1> QED
  BY <1>2, <1>4

-------------------------------------------------------------------------------
(***************************************************************************)
(* A sub-tree that was found by signature, with the root p of its match.   *)
(***************************************************************************)
NewBelow == Below(new)
OldBelow == Below(old)

\* It is matched as a whole.
WholeBy(m, n, p) ==
  LET s == PreOrder(new)[n]
      r == PreOrder(old)[p]
  IN  \A i \in DOMAIN s : s[i] \in DOMAIN m => m[s[i]] = r[i] /\ m[s[i]] \in OldBelow[p]

\* Nothing of it is matched with anything of p's.
LostBy(m, n, p) == \A y \in NewBelow[n] \cap DOMAIN m : m[y] \notin OldBelow[p]

\* Each of p's nodes has been matched at some time.
TakenBy(f, p) == \A q \in OldBelow[p] \cap DOMAIN f : f[q] # None

(***************************************************************************)
(* It is matched as a whole or not at all; while match_down() is under way *)
(* this is not so of a sub-tree within the one that is propagated.         *)
(***************************************************************************)
Settles(n) ==
  \/ phase = "down" /\ n = climb.n
  \/ /\ TakenBy(om, optm[n])
     /\ phase = "down" => climb.o \notin OldBelow[optm[n]]
     /\ \/ phase = "down" /\ optm[n] \in OldBelow[climb.o]
        \/ WholeBy(nm, n, optm[n])
        \/ LostBy(nm, n, optm[n])

\* Nothing of it waits, or is below what is propagated.
Outside(n) ==
  /\ \A i \in DOMAIN queue : queue[i] \notin NewBelow[n]
  /\ phase = "enqueue" => \A k \in DOMAIN work : work[k] \notin NewBelow[n]
  /\ phase = "down" /\ n # climb.n => NewBelow[n] \cap NewBelow[climb.n] = {}

(***************************************************************************)
(* What is propagated is matched, child by child, or will be; its old side *)
(* is matched with it, or is below one of the calls that are to come.      *)
(***************************************************************************)
Propagating ==
  /\ climb.n \in DOMAIN optm /\ climb.o \in DOMAIN om
  /\ optm[climb.n] = climb.o /\ Sigs[pair[2]][climb.n] = Sigs[pair[1]][climb.o]
  /\ nm[climb.n] = climb.o \/ Among(work, climb.n, climb.o)
  /\ \A x \in NewBelow[climb.n] \cap DOMAIN nm : KidsPaired(x)
  /\ \A k \in DOMAIN work :
       /\ work[k][1] \in NewBelow[climb.n] /\ work[k][2] \in OldBelow[climb.o]
       /\ \A o \in OldBelow[work[k][2]] \cap DOMAIN om : om[o] \notin NewBelow[climb.n]
       /\ \A l \in DOMAIN work :
            k # l => OldBelow[work[k][2]] \cap OldBelow[work[l][2]] = {}
  /\ \A o \in OldBelow[climb.o] \cap DOMAIN om :
       om[o] \in NewBelow[climb.n] \/ \E k \in DOMAIN work : o \in OldBelow[work[k][2]]

Settled ==
  /\ \A n \in DOMAIN optm : optm[n] # None => Settles(n) /\ Outside(n)
  /\ phase = "down" => Propagating

-------------------------------------------------------------------------------
\* The trees and the maps.
LEMMA SubTreeTypes ==
  ASSUME TypeOK
  PROVE  /\ IsTree(old) /\ IsTree(new)
         /\ DOMAIN nm = Mapped(new) /\ DOMAIN optm = Mapped(new) /\ DOMAIN om = Mapped(old)
         /\ Mapped(new) \subseteq Ids(new) /\ Mapped(old) \subseteq Ids(old)
         /\ None \notin Ids(new) /\ None \notin Ids(old)
         /\ \A n \in DOMAIN nm : nm[n] \in DOMAIN om \cup {None}
         /\ \A n \in DOMAIN optm : optm[n] \in DOMAIN om \cup {None}
         /\ \A o \in DOMAIN om : om[o] \in DOMAIN nm \cup {None}
         /\ NewBelow = Belows[pair[2]]
<1>1. /\ IsTree(old) /\ IsTree(new) /\ Maps[pair[1]] = Mapped(old) /\ Maps[pair[2]] = Mapped(new)
      /\ Mapped(new) \subseteq Ids(new) /\ Mapped(old) \subseteq Ids(old)
  BY PairOfTrees, MappedClosed DEF TypeOK
<1>2. None \notin Ids(new) /\ None \notin Ids(old)
  BY <1>1 DEF IsTree, None
<1>3. NewBelow = Belows[pair[2]]
  BY PairOfSigs DEF NewBelow
<1> QED
  BY <1>1, <1>2, <1>3 DEF TypeOK

(***************************************************************************)
(* Child by child is node by node.                                         *)
(***************************************************************************)
LEMMA WholeFromKids ==
  ASSUME TypeOK, NEW m \in DOMAIN nm, NEW q \in Ids(old), SigOf(new)[m] = SigOf(old)[q],
         nm[m] = q,
         \A x \in NewBelow[m] \cap DOMAIN nm : nm[x] # None /\ ~IsOpaque(new, x) =>
           \A i \in DOMAIN new.kids[x] : nm[new.kids[x][i]] = old.kids[nm[x]][i]
  PROVE  WholeBy(nm, m, q)
<1>1. /\ IsTree(old) /\ IsTree(new) /\ DOMAIN nm = Mapped(new) /\ m \in Ids(new)
      /\ Mapped(new) \subseteq Ids(new) /\ None \notin Ids(old) /\ None \notin Ids(new)
  BY SubTreeTypes
<1> DEFINE s == PreOrder(new)[m]
           r == PreOrder(old)[q]
<1>2. /\ s \in Seq(Ids(new)) /\ Len(s) \in Nat /\ s[1] = m
      /\ \A k \in 1 .. Len(s) : s[k] \in NewBelow[m]
  BY <1>1, WalksGood DEF WalkGood, NewBelow
<1>3. r \in Seq(Ids(old)) /\ r[1] = q
  BY <1>1, WalksGood DEF WalkGood
<1>4. Len(s) = Len(r) /\ \A k \in 2 .. Len(s) : SamePlace(new, old, s, r, k)
  BY <1>1, AlikeWalks DEF WalksAlike
<1> HIDE DEF s, r
<1> DEFINE T == {k \in 1 .. Len(s) : s[k] \in DOMAIN nm /\ nm[s[k]] # r[k]}
<1>5. T = {}
  <2>1. SUFFICES ASSUME T # {} PROVE FALSE
    OBVIOUS
  <2>2. PICK k \in T : \A y \in T : k <= y
    <3>1. T \in SUBSET Nat
      BY <1>2
    <3> HIDE DEF T
    <3> QED
      BY <2>1, <3>1, LeastOf
  <2>3. k \in 2 .. Len(s) /\ s[k] \in DOMAIN nm /\ nm[s[k]] # r[k]
    BY <1>2, <1>3, <2>2
  <2>4. PICK j \in 1 .. k - 1 : \E i \in DOMAIN new.kids[s[j]] :
          /\ i \in DOMAIN old.kids[r[j]]
          /\ s[k] = new.kids[s[j]][i] /\ r[k] = old.kids[r[j]][i]
    BY <1>4, <2>3 DEF SamePlace
  <2>5. PICK i \in DOMAIN new.kids[s[j]] :
          s[k] = new.kids[s[j]][i] /\ r[k] = old.kids[r[j]][i]
    BY <2>4
  <2>6. j \in 1 .. Len(s) /\ j \in 1 .. Len(r) /\ j \notin T
    BY <1>2, <1>4, <2>2, <2>3
  <2>7. s[j] \in Ids(new) /\ r[j] \in Ids(old) /\ s[j] \in NewBelow[m]
    BY <1>2, <1>3, <2>6
  <2>8. new.par[s[k]] = s[j]
    BY <1>1, <2>5, <2>7, KidIsNode
  <2>9. s[j] \in Mapped(new) /\ ~IsOpaque(new, s[j])
    BY <1>1, <2>3, <2>7, <2>8, MappedParent
  <2>10. nm[s[j]] = r[j]
    BY <1>1, <2>6, <2>9
  <2>11. nm[s[j]] # None
    BY <1>1, <2>7, <2>10
  <2>12. nm[new.kids[s[j]][i]] = old.kids[nm[s[j]]][i]
    BY <1>1, <2>5, <2>7, <2>9, <2>11
  <2> QED
    BY <2>3, <2>5, <2>10, <2>12
<1>6. DOMAIN s = 1 .. Len(s) /\ \A k \in 1 .. Len(r) : r[k] \in OldBelow[q]
  BY <1>1, <1>2, WalksGood DEF WalkGood, OldBelow, r
<1> QED
  BY <1>4, <1>5, <1>6 DEF WholeBy, s, r

(***************************************************************************)
(* Outside of match_down() a match is only added, to a node that has none, *)
(* of an old one that never had one or that no lost sub-tree comes to.     *)
(***************************************************************************)
LEMMA SettledJoin ==
  ASSUME TypeOK, Settled, NEW x, NEW q, Joined(x, q), phase # "down",
         phase' \notin {"down", "enqueue"}, UNCHANGED <<pair, optm, queue>>,
         \/ om[q] = None
         \/ \A n \in DOMAIN optm : optm[n] # None /\ x \in NewBelow[n]
              /\ LostBy(nm, n, optm[n]) => q \notin OldBelow[optm[n]]
  PROVE  Settled'
<1>1. /\ x \in DOMAIN nm /\ q \in DOMAIN om /\ nm[x] = None /\ x # None /\ q # None
      /\ nm' = [nm EXCEPT ![x] = q] /\ om' = [om EXCEPT ![q] = x]
  BY SubTreeTypes DEF Joined, TypeOK
<1>2. new' = new /\ old' = old
  BY DEF new, old, Docs
<1>3. NewBelow' = NewBelow /\ OldBelow' = OldBelow
  BY <1>2 DEF NewBelow, OldBelow, Below
<1>4. ASSUME NEW n \in DOMAIN optm, optm[n] # None
      PROVE  /\ TakenBy(om', optm[n])
             /\ WholeBy(nm', n, optm[n]) \/ LostBy(nm', n, optm[n])
             /\ \A i \in DOMAIN queue : queue[i] \notin NewBelow[n]
  <2>1. Settles(n) /\ Outside(n)
    BY <1>4 DEF Settled
  <2>2. TakenBy(om, optm[n]) /\ (WholeBy(nm, n, optm[n]) \/ LostBy(nm, n, optm[n]))
    BY <2>1 DEF Settles
  <2>3. TakenBy(om', optm[n])
    BY <1>1, <2>2 DEF TakenBy
  <2>4. CASE WholeBy(nm, n, optm[n])
    <3> DEFINE s == PreOrder(new)[n]
               r == PreOrder(old)[optm[n]]
    <3>1. \A i \in DOMAIN s : s[i] \in DOMAIN nm =>
            nm[s[i]] = r[i] /\ nm[s[i]] \in OldBelow[optm[n]]
      BY <2>4 DEF WholeBy
    <3>2. None \notin OldBelow[optm[n]]
      BY <1>4, SubTreeTypes, BelowClosed DEF OldBelow
    <3> HIDE DEF s, r
    <3>3. \A i \in DOMAIN s : s[i] \in DOMAIN nm' =>
            nm'[s[i]] = r[i] /\ nm'[s[i]] \in OldBelow[optm[n]]
      BY <1>1, <3>1, <3>2
    <3> QED
      BY <2>1, <2>3, <3>3 DEF WholeBy, Outside, s, r
  <2>5. CASE LostBy(nm, n, optm[n])
    <3>1. x \in NewBelow[n] => q \notin OldBelow[optm[n]]
      BY <1>1, <1>4, <2>2, <2>5 DEF TakenBy
    <3>2. LostBy(nm', n, optm[n])
      BY <1>1, <2>5, <3>1 DEF LostBy
    <3> QED
      BY <2>1, <2>3, <3>2 DEF Outside
  <2> QED
    BY <2>2, <2>4, <2>5
<1> QED
  BY <1>2, <1>3, <1>4 DEF Settled, Settles, Outside, TakenBy, WholeBy, LostBy

\* The trees stay, and what is below their nodes.
LEMMA BelowsKept ==
  ASSUME UNCHANGED pair
  PROVE  new' = new /\ old' = old /\ NewBelow' = NewBelow /\ OldBelow' = OldBelow
<1>1. new' = new /\ old' = old
  BY DEF new, old, Docs
<1> QED
  BY <1>1 DEF NewBelow, OldBelow, Below

\* Outside of match_down(), with a matching that does not change.
LEMMA SettledKept ==
  ASSUME Settled, phase # "down", phase' # "down", UNCHANGED <<pair, om, nm, optm>>,
         \A n \in DOMAIN optm : optm[n] # None /\ Outside(n) =>
           /\ \A i \in DOMAIN queue' : queue'[i] \notin NewBelow[n]
           /\ phase' = "enqueue" => \A k \in DOMAIN work' : work'[k] \notin NewBelow[n]
  PROVE  Settled'
<1>1. new' = new /\ old' = old /\ NewBelow' = NewBelow /\ OldBelow' = OldBelow
  BY BelowsKept
<1>2. ASSUME NEW n \in DOMAIN optm, optm[n] # None
      PROVE  /\ TakenBy(om, optm[n])
             /\ WholeBy(nm, n, optm[n]) \/ LostBy(nm, n, optm[n])
             /\ \A i \in DOMAIN queue' : queue'[i] \notin NewBelow[n]
             /\ phase' = "enqueue" => \A k \in DOMAIN work' : work'[k] \notin NewBelow[n]
  <2>1. Settles(n) /\ Outside(n)
    BY <1>2 DEF Settled
  <2> QED
    BY <1>2, <2>1 DEF Settles
<1> QED
  BY <1>1, <1>2 DEF Settled, Settles, Outside, TakenBy, WholeBy, LostBy

\* A step that leaves the matches alone leaves them settled.
LEMMA SettledSame ==
  ASSUME Settled, phase # "down", phase' \notin {"down", "enqueue"},
         UNCHANGED <<pair, om, nm, optm, queue>>
  PROVE  Settled'
<1>1. \A n \in DOMAIN optm : optm[n] # None /\ Outside(n) =>
        \A i \in DOMAIN queue' : queue'[i] \notin NewBelow[n]
  BY DEF Outside
<1> QED
  BY <1>1, SettledKept

(***************************************************************************)
(* The children that are enqueued are in no sub-tree that their parent was *)
(* not in, but for one of their own, and none of them was dequeued.        *)
(***************************************************************************)
LEMMA SettledEmpty ==
  ASSUME TypeOK, QueueApart, Settled, Dequeue, phase' = "enqueue"
  PROVE  Settled'
<1>1. /\ phase = "queue" /\ queue # <<>> /\ queue' = Tail(queue)
      /\ work' = IF IsOpaque(new, Head(queue)) THEN <<>> ELSE new.kids[Head(queue)]
      /\ UNCHANGED <<pair, om, nm, optm>>
  BY DEF Dequeue, Abort
<1>2. queue \in Seq(Mapped(new))
  BY PairOfTrees DEF TypeOK
<1>3. /\ 1 \in DOMAIN queue /\ Head(queue) = queue[1] /\ Head(queue) \in Mapped(new)
      /\ \A i \in DOMAIN Tail(queue) : i + 1 \in DOMAIN queue /\ Tail(queue)[i] = queue[i + 1]
  BY <1>1, <1>2, TailMembers
<1>4. /\ IsTree(new) /\ Mapped(new) \subseteq Ids(new) /\ DOMAIN optm = Mapped(new)
      /\ NewBelow = Belows[pair[2]]
  BY SubTreeTypes
<1>5. Free(NewBelow, Head(queue), optm)
  BY <1>3, <1>4 DEF QueueApart, Waiting
<1>6. ASSUME NEW n \in DOMAIN optm, optm[n] # None, Outside(n)
      PROVE  /\ \A i \in DOMAIN queue' : queue'[i] \notin NewBelow[n]
             /\ \A k \in DOMAIN work' : work'[k] \notin NewBelow[n]
  <2>1. \A i \in DOMAIN queue : queue[i] \notin NewBelow[n]
    BY <1>6 DEF Outside
  <2>2. ASSUME NEW k \in DOMAIN work', work'[k] \in NewBelow[n] PROVE FALSE
    <3> DEFINE h == Head(queue)
    <3>1. h \in Ids(new) /\ h \notin NewBelow[n] /\ n \in Ids(new)
      BY <1>3, <1>4, <2>1
    <3>2. k \in DOMAIN new.kids[h] /\ work'[k] = new.kids[h][k]
      BY <1>1, <2>2
    <3>3. new.kids[h][k] \in Ids(new) /\ new.par[new.kids[h][k]] = h
      BY <1>4, <3>1, <3>2, KidIsNode
    <3>4. work'[k] = n
      BY <1>4, <2>2, <3>1, <3>2, <3>3, BelowClosed DEF NewBelow
    <3>5. n \in NewBelow[h]
      BY <1>4, <3>1, <3>2, <3>4, BelowClosed DEF NewBelow
    <3> QED
      BY <1>4, <1>5, <1>6, <3>5 DEF Free
  <2> QED
    BY <1>1, <1>3, <2>1, <2>2
<1> QED
  BY <1>1, <1>6, SettledKept

\* What is entered in the queue changes no match.
LEMMA SettledEnqueue ==
  ASSUME TypeOK, Settled, Enqueue
  PROVE  Settled'
<1>1. /\ phase = "enqueue" /\ work # <<>> /\ queue' = PQueue(queue, Head(work))
      /\ work' = Tail(work) /\ UNCHANGED <<pair, phase, om, nm, optm>>
  BY DEF Enqueue
<1>2. work \in Seq(Maps[pair[2]]) /\ queue \in Seq(Maps[pair[2]])
  BY <1>1 DEF TypeOK
<1>3. /\ 1 \in DOMAIN work /\ Head(work) = work[1] /\ Head(work) \in Maps[pair[2]]
      /\ \A i \in DOMAIN Tail(work) : i + 1 \in DOMAIN work /\ Tail(work)[i] = work[i + 1]
  BY <1>1, <1>2, TailMembers
<1>4. \A i \in DOMAIN queue' : queue'[i] = Head(work) \/ \E j \in DOMAIN queue : queue'[i] = queue[j]
  BY <1>1, <1>2, <1>3, InsertMembers
<1>5. ASSUME NEW n \in DOMAIN optm, optm[n] # None, Outside(n)
      PROVE  /\ \A i \in DOMAIN queue' : queue'[i] \notin NewBelow[n]
             /\ \A k \in DOMAIN work' : work'[k] \notin NewBelow[n]
  <2>1. /\ \A i \in DOMAIN queue : queue[i] \notin NewBelow[n]
        /\ \A k \in DOMAIN work : work[k] \notin NewBelow[n]
    BY <1>1, <1>5 DEF Outside
  <2> QED
    BY <1>1, <1>3, <1>4, <2>1
<1> QED
  BY <1>1, <1>5, SettledKept

(***************************************************************************)
(* A candidate is taken: it has not been matched, so it is in no sub-tree  *)
(* that was, and nothing of the new side is matched.                       *)
(***************************************************************************)
LEMMA SettledDequeue ==
  ASSUME TypeOK, OldMatchSound, QueueApart, Settled, Dequeue, phase' = "down"
  PROVE  Settled'
<1>1. PICK n, o : /\ n = Head(queue) /\ o \in Candidates(n)
                  /\ optm' = [optm EXCEPT ![n] = o] /\ work' = <<<<n, o>>>>
                  /\ climb'.n = n /\ climb'.o = o /\ queue' = Tail(queue)
                  /\ phase = "queue" /\ queue # <<>>
                  /\ UNCHANGED <<pair, om, nm>>
  BY DEF Dequeue, Abort
<1>2. queue \in Seq(Mapped(new))
  BY PairOfTrees DEF TypeOK
<1>3. /\ 1 \in DOMAIN queue /\ n = queue[1] /\ n \in Mapped(new)
      /\ \A i \in DOMAIN Tail(queue) : i + 1 \in DOMAIN queue /\ i + 1 # 1
                                       /\ Tail(queue)[i] = queue[i + 1]
  BY <1>1, <1>2, TailMembers
<1>4. /\ IsTree(new) /\ IsTree(old) /\ Mapped(new) \subseteq Ids(new) /\ DOMAIN optm = Mapped(new)
      /\ Mapped(old) \subseteq Ids(old) /\ DOMAIN om = Mapped(old) /\ DOMAIN nm = Mapped(new)
      /\ NewBelow = Belows[pair[2]] /\ None \notin Ids(new) /\ None \notin Ids(old)
      /\ \A x \in DOMAIN om : om[x] \in DOMAIN nm \cup {None}
  BY SubTreeTypes
<1>5. Free(NewBelow, n, optm) /\ Free(NewBelow, n, nm) /\ Apart(NewBelow, queue)
  BY <1>3, <1>4 DEF QueueApart, Waiting
<1>6. new' = new /\ old' = old /\ NewBelow' = NewBelow /\ OldBelow' = OldBelow
  BY <1>1, BelowsKept
<1>7. o \in DOMAIN om /\ om[o] = None /\ Sigs[pair[1]][o] = Sigs[pair[2]][n]
  BY <1>1 DEF Candidates
<1>8. n \in NewBelow[n] /\ o \in OldBelow[o]
  BY <1>3, <1>4, <1>7, BelowClosed DEF NewBelow, OldBelow
<1>9. ASSUME NEW m \in DOMAIN optm, optm'[m] # None, m # n
      PROVE  /\ optm'[m] = optm[m] /\ TakenBy(om, optm[m]) /\ o \notin OldBelow[optm[m]]
             /\ WholeBy(nm, m, optm[m]) \/ LostBy(nm, m, optm[m])
             /\ \A i \in DOMAIN queue' : queue'[i] \notin NewBelow[m]
             /\ NewBelow[m] \cap NewBelow[n] = {}
  <2>1. optm'[m] = optm[m] /\ optm[m] # None
    BY <1>1, <1>9
  <2>2. Settles(m) /\ Outside(m)
    BY <2>1 DEF Settled
  <2>3. TakenBy(om, optm[m]) /\ (WholeBy(nm, m, optm[m]) \/ LostBy(nm, m, optm[m]))
    BY <1>1, <2>2 DEF Settles
  <2>4. o \notin OldBelow[optm[m]]
    BY <1>7, <2>3 DEF TakenBy
  <2>5. \A i \in DOMAIN queue : queue[i] \notin NewBelow[m]
    BY <2>2 DEF Outside
  <2>6. n \notin NewBelow[m] /\ m \notin NewBelow[n]
    BY <1>3, <1>5, <2>1, <2>5 DEF Free
  <2>7. NewBelow[m] \cap NewBelow[n] = {}
    BY <1>3, <1>4, <2>6, BelowNested DEF NewBelow
  <2> QED
    BY <1>1, <1>3, <2>1, <2>3, <2>4, <2>5, <2>7
<1>10. \A i \in DOMAIN queue' : queue'[i] \notin NewBelow[n]
  <2>1. SUFFICES ASSUME NEW i \in DOMAIN Tail(queue) PROVE Tail(queue)[i] \notin NewBelow[n]
    BY <1>1
  <2>2. i + 1 \in DOMAIN queue /\ i + 1 # 1 /\ Tail(queue)[i] = queue[i + 1]
    BY <1>3, <2>1
  <2>3. NewBelow[queue[i + 1]] \cap NewBelow[n] = {}
    BY <1>3, <1>5, <2>2 DEF Apart
  <2>4. queue[i + 1] \in Ids(new)
    BY <1>2, <1>4, <2>2
  <2> QED
    BY <1>4, <2>2, <2>3, <2>4, BelowClosed DEF NewBelow
<1>11. ASSUME NEW m \in DOMAIN optm', optm'[m] # None
       PROVE  Settles(m)' /\ Outside(m)'
  <2>1. m \in DOMAIN optm
    BY <1>1, <1>11
  <2>2. CASE m = n
    BY <1>1, <1>6, <1>10, <2>2 DEF Settles, Outside
  <2>3. CASE m # n
    <3>1. /\ optm'[m] = optm[m] /\ TakenBy(om, optm[m]) /\ o \notin OldBelow[optm[m]]
          /\ WholeBy(nm, m, optm[m]) \/ LostBy(nm, m, optm[m])
          /\ \A i \in DOMAIN queue' : queue'[i] \notin NewBelow[m]
          /\ NewBelow[m] \cap NewBelow[n] = {}
      BY <1>9, <1>11, <2>1, <2>3
    <3>2. Settles(m)'
      BY <1>1, <1>6, <3>1 DEF Settles, TakenBy, WholeBy, LostBy
    <3>3. Outside(m)'
      BY <1>1, <1>6, <3>1 DEF Outside
    <3> QED
      BY <3>2, <3>3
  <2> QED
    BY <2>2, <2>3
<1>12. Propagating'
  <2>1. DOMAIN work' = {1} /\ work'[1] = <<n, o>> /\ work'[1][1] = n /\ work'[1][2] = o
    BY <1>1
  <2>2. \A x \in NewBelow[n] \cap DOMAIN nm : nm[x] = None
    BY <1>5 DEF Free
  <2>3. \A x \in OldBelow[o] \cap DOMAIN om : om[x] \notin NewBelow[n]
    <3>1. SUFFICES ASSUME NEW x \in DOMAIN om, om[x] \in NewBelow[n] PROVE FALSE
      OBVIOUS
    <3>2. om[x] # None
      BY <1>3, <1>4, <3>1, BelowClosed DEF NewBelow
    <3>3. om[x] \in DOMAIN nm /\ nm[om[x]] = x
      BY <1>4, <3>1, <3>2 DEF OldMatchSound
    <3> QED
      BY <1>4, <2>2, <3>1, <3>3
  <2>4. \A x \in NewBelow[n] \cap DOMAIN nm : KidsPaired(x)'
    BY <1>1, <2>2 DEF KidsPaired
  <2>5. Sigs' = Sigs
    BY DEF Sigs, Docs
  <2>6. optm'[n] = o
    BY <1>1, <1>3, <1>4
  <2>7. Among(work', n, o)
    BY <2>1 DEF Among
  <2>8. /\ \A k \in DOMAIN work' : k = 1
        /\ \A x \in OldBelow[o] \cap DOMAIN om : \E k \in DOMAIN work' : x \in OldBelow[work'[k][2]]
    BY <2>1
  <2>9. n \in DOMAIN optm' /\ o \in DOMAIN om'
    BY <1>1, <1>3, <1>4, <1>7
  <2> QED
    BY <1>1, <1>6, <1>7, <1>8, <2>1, <2>3, <2>4, <2>5, <2>6, <2>7, <2>8, <2>9 DEF Propagating, Among
<1> QED
  BY <1>11, <1>12 DEF Settled

-------------------------------------------------------------------------------
(***************************************************************************)
(* A step of match_down(), for the nodes n and o and with the calls c for  *)
(* their children.                                                         *)
(***************************************************************************)
CallFor(n, o, c) ==
  /\ phase = "down" /\ work # <<>> /\ 1 \in DOMAIN work /\ work[1] = <<n, o>>
  /\ n \in DOMAIN nm /\ n \in Ids(new) /\ o \in DOMAIN om /\ o \in Ids(old)
  /\ Type(new, n) = Type(old, o) /\ Len(new.kids[n]) = Len(old.kids[o])
  /\ DOMAIN new.kids[n] = DOMAIN old.kids[o]
  /\ om[o] # None => nm[om[o]] = o
  /\ om' = [om EXCEPT ![o] = n] /\ nm' = [Freed(o) EXCEPT ![n] = o]
  /\ UNCHANGED <<pair, phase, optm, queue, climb>>
  /\ \A k \in DOMAIN c : /\ k \in DOMAIN new.kids[n]
                         /\ c[k] = <<new.kids[n][k], old.kids[o][k]>>
  /\ ~IsOpaque(new, n) => DOMAIN c = DOMAIN new.kids[n]
  /\ Len(c) \in Nat /\ DOMAIN c = 1 .. Len(c) /\ DOMAIN work = 1 .. Len(work)
  /\ Len(work) \in Nat /\ DOMAIN work' = 1 .. Len(c) + Len(work) - 1
  /\ work \in Seq(Maps[pair[2]] \X Ids(old))
  /\ \A k \in DOMAIN work' :
       \/ k \in DOMAIN c /\ work'[k] = c[k]
       \/ /\ k \notin DOMAIN c /\ k - Len(c) + 1 \in DOMAIN work \ {1}
          /\ work'[k] = work[k - Len(c) + 1]

\* It is such a step unless it aborts.
LEMMA DownCall ==
  ASSUME TypeOK, PairsAlike, MatchDown, ~Abort
  PROVE  \E n, o, c : CallFor(n, o, c)
<1>0. PICK n, o, c : n = Head(work)[1] /\ o = Head(work)[2] /\ c = Kidcalls(n, o)
  OBVIOUS
<1>1. /\ nm \in [Maps[pair[2]] -> Maps[pair[1]] \cup {None}]
      /\ om \in [Maps[pair[1]] -> Maps[pair[2]] \cup {None}]
      /\ work \in Seq(Maps[pair[2]] \X Ids(old))
      /\ IsTree(old) /\ IsTree(new)
      /\ Maps[pair[1]] = Mapped(old) /\ Mapped(old) \subseteq Ids(old)
      /\ Maps[pair[2]] = Mapped(new) /\ Mapped(new) \subseteq Ids(new)
  BY PairOfTrees, MappedClosed DEF TypeOK, MatchDown
<1>2. /\ om' = [om EXCEPT ![o] = n] /\ nm' = [Freed(o) EXCEPT ![n] = o]
      /\ phase = "down" /\ work # <<>> /\ UNCHANGED <<pair, phase, optm, queue, climb>>
      /\ work' = c \o Tail(work)
  BY <1>0, DownStep DEF Kidcalls
<1>3. om[o] # None => nm[om[o]] = o
  BY <1>0 DEF MatchDown
<1>4. /\ n \in Maps[pair[2]] /\ o \in Maps[pair[1]] /\ o \in Ids(old) /\ n \in Ids(new)
      /\ Len(new.kids[n]) = Len(old.kids[o]) /\ Type(new, n) = Type(old, o)
  BY <1>0, <1>2, NextPair
<1>5. /\ c \in Seq(Maps[pair[2]] \X Maps[pair[1]])
      /\ \A k \in DOMAIN c :
           k \in DOMAIN new.kids[n] /\ c[k] = <<new.kids[n][k], old.kids[o][k]>>
  BY <1>0, <1>2, KidcallsAre
<1>6. ~IsOpaque(new, n) => DOMAIN c = DOMAIN new.kids[n]
  BY <1>0 DEF Kidcalls
<1>7. 1 \in DOMAIN work /\ work[1] = <<n, o>>
  <2>1. Head(work) \in Maps[pair[2]] \X Ids(old) /\ 1 \in DOMAIN work /\ Head(work) = work[1]
    BY <1>1, <1>2, TailMembers
  <2> QED
    BY <1>0, <2>1
<1>8. new.kids[n] \in Seq(Ids(new)) /\ old.kids[o] \in Seq(Ids(old))
  BY <1>1, <1>4 DEF IsTree
<1>9. DOMAIN new.kids[n] = DOMAIN old.kids[o]
  BY <1>4, <1>8
<1>10. c \in Seq(Maps[pair[2]] \X Ids(old))
  BY <1>1, <1>5
<1>11. /\ work' \in Seq(Maps[pair[2]] \X Ids(old)) /\ Len(work') = Len(c) + Len(work) - 1
       /\ \A k \in DOMAIN work' :
            \/ k \in DOMAIN c /\ work'[k] = c[k]
            \/ k \notin DOMAIN c /\ k - Len(c) + 1 \in DOMAIN work \ {1}
               /\ work'[k] = work[k - Len(c) + 1]
  BY <1>1, <1>2, <1>10, PutCalls
<1>12. /\ Len(c) \in Nat /\ DOMAIN c = 1 .. Len(c) /\ DOMAIN work = 1 .. Len(work)
       /\ Len(work) \in Nat /\ DOMAIN work' = 1 .. Len(c) + Len(work) - 1
  BY <1>1, <1>10, <1>11
<1>13. n \in DOMAIN nm /\ o \in DOMAIN om
  BY <1>1, <1>4
<1>14. CallFor(n, o, c)
  BY <1>1, <1>2, <1>3, <1>4, <1>5, <1>6, <1>7, <1>9, <1>11, <1>12, <1>13 DEF CallFor
<1> QED
  BY <1>14

(***************************************************************************)
(* What it takes a match from is no part of a sub-tree matched elsewhere.  *)
(***************************************************************************)
LEMMA SettlesDown ==
  ASSUME TypeOK, Settled, NEW n, NEW o, NEW c, CallFor(n, o, c),
         NEW m \in DOMAIN optm, optm[m] # None
  PROVE  Settles(m)' /\ Outside(m)'
<1>1. /\ phase = "down" /\ 1 \in DOMAIN work /\ work[1] = <<n, o>>
      /\ n \in DOMAIN nm /\ n \in Ids(new) /\ o \in DOMAIN om /\ o \in Ids(old)
      /\ om[o] # None => nm[om[o]] = o
      /\ om' = [om EXCEPT ![o] = n] /\ nm' = [Freed(o) EXCEPT ![n] = o]
      /\ UNCHANGED <<pair, phase, optm, queue, climb>>
  BY DEF CallFor
<1>2. new' = new /\ old' = old /\ NewBelow' = NewBelow /\ OldBelow' = OldBelow
  BY <1>1, BelowsKept
<1>3. /\ IsTree(new) /\ IsTree(old) /\ None \notin Ids(new) /\ None \notin Ids(old)
      /\ DOMAIN nm = Mapped(new) /\ DOMAIN om = Mapped(old) /\ DOMAIN optm = Mapped(new)
      /\ Mapped(new) \subseteq Ids(new) /\ Mapped(old) \subseteq Ids(old)
      /\ \A x \in DOMAIN om : om[x] \in DOMAIN nm \cup {None}
      /\ \A x \in DOMAIN optm : optm[x] \in DOMAIN om \cup {None}
  BY SubTreeTypes
<1>4. Settles(m) /\ Outside(m) /\ Propagating
  BY <1>1 DEF Settled
<1>5. Outside(m)'
  BY <1>1, <1>2, <1>4 DEF Outside
<1>6. CASE m = climb.n
  BY <1>1, <1>5, <1>6 DEF Settles
<1>7. CASE m # climb.n
  <2>0. PICK p : p = optm[m]
    OBVIOUS
  <2>1. /\ TakenBy(om, p) /\ climb.o \notin OldBelow[p]
        /\ p \in OldBelow[climb.o] \/ WholeBy(nm, m, p) \/ LostBy(nm, m, p)
    BY <1>1, <1>4, <1>7, <2>0 DEF Settles
  <2>2. p \in Ids(old) /\ climb.o \in Ids(old) /\ m \in Ids(new)
    BY <1>3, <1>4, <2>0 DEF Propagating
  <2>3. TakenBy(om', p)
    BY <1>1, <1>3, <2>1 DEF TakenBy
  <2>4. n \in NewBelow[climb.n] /\ o \in OldBelow[climb.o]
    BY <1>1, <1>4 DEF Propagating
  <2>5. n \notin NewBelow[m]
    BY <1>1, <1>4, <1>7, <2>4 DEF Outside
  <2>6. ASSUME p \notin OldBelow[climb.o] PROVE o \notin OldBelow[p]
    BY <1>3, <2>1, <2>2, <2>4, <2>6, BelowNested DEF OldBelow
  <2>7. /\ DOMAIN nm' = DOMAIN nm
        /\ \A x \in DOMAIN nm : x # n => nm'[x] = nm[x] \/ (nm'[x] = None /\ nm[x] = o)
    BY <1>1, <1>3 DEF Freed
  <2>8. None \notin OldBelow[p]
    BY <1>3, <2>2, BelowClosed DEF OldBelow
  <2>9. ASSUME p \notin OldBelow[climb.o], LostBy(nm, m, p) PROVE LostBy(nm', m, p)
    BY <2>5, <2>7, <2>8, <2>9 DEF LostBy
  <2>10. ASSUME p \notin OldBelow[climb.o], WholeBy(nm, m, p) PROVE WholeBy(nm', m, p)
    <3> DEFINE s == PreOrder(new)[m]
               r == PreOrder(old)[p]
    <3>1. \A i \in DOMAIN s : s[i] \in DOMAIN nm => nm[s[i]] = r[i] /\ nm[s[i]] \in OldBelow[p]
      BY <2>10 DEF WholeBy
    <3>2. \A i \in DOMAIN s : s[i] \in NewBelow[m]
      <4>1. s \in Seq(Ids(new)) /\ \A i \in 1 .. Len(s) : s[i] \in Below(new)[m]
        BY <1>3, <2>2, WalksGood DEF WalkGood
      <4> HIDE DEF s
      <4> QED
        BY <4>1 DEF NewBelow
    <3> HIDE DEF s, r
    <3>3. \A i \in DOMAIN s : s[i] \in DOMAIN nm' => nm'[s[i]] = r[i] /\ nm'[s[i]] \in OldBelow[p]
      BY <2>5, <2>6, <2>7, <2>10, <3>1, <3>2
    <3> QED
      BY <3>3 DEF WholeBy, s, r
  <2>11. p \in OldBelow[climb.o] \/ WholeBy(nm', m, p) \/ LostBy(nm', m, p)
    BY <2>1, <2>9, <2>10
  <2>12. p = optm'[m]
    BY <1>1, <2>0
  <2>13. Settles(m)'
    BY <1>1, <1>2, <2>1, <2>3, <2>11, <2>12 DEF Settles, TakenBy, WholeBy, LostBy
  <2> QED
    BY <1>5, <2>13
<1> QED
  BY <1>6, <1>7

\* Below what is propagated only the head of the calls gets another match.
LEMMA CallAdds ==
  ASSUME TypeOK, QueueApart, Propagating, NEW n, NEW o, NEW c, CallFor(n, o, c)
  PROVE  /\ n \in NewBelow[climb.n] /\ o \in OldBelow[climb.o]
         /\ om[o] \notin NewBelow[climb.n] /\ nm[n] = None /\ nm'[n] = o /\ om'[o] = n
         /\ DOMAIN nm' = DOMAIN nm /\ DOMAIN om' = DOMAIN om
         /\ \A x \in NewBelow[climb.n] \cap DOMAIN nm : x # n => nm'[x] = nm[x]
         /\ \A q \in DOMAIN om : q # o => om'[q] = om[q]
<1>1. /\ phase = "down" /\ 1 \in DOMAIN work /\ work[1] = <<n, o>>
      /\ n \in DOMAIN nm /\ n \in Ids(new) /\ o \in DOMAIN om /\ o \in Ids(old)
      /\ om' = [om EXCEPT ![o] = n] /\ nm' = [Freed(o) EXCEPT ![n] = o]
  BY DEF CallFor
<1>2. IsTree(new) /\ IsTree(old) /\ NewBelow = Belows[pair[2]]
  BY SubTreeTypes
<1>3. n \in NewBelow[n] /\ o \in OldBelow[o]
  BY <1>1, <1>2, BelowClosed DEF NewBelow, OldBelow
<1>4. /\ n \in NewBelow[climb.n] /\ o \in OldBelow[climb.o]
      /\ om[o] \notin NewBelow[climb.n]
  BY <1>1, <1>3 DEF Propagating
<1>5. nm[n] = None
  BY <1>1, <1>2, <1>3 DEF QueueApart, Descending, Free
<1>6. nm \in [DOMAIN nm -> Maps[pair[1]] \cup {None}] /\ om \in [DOMAIN om -> DOMAIN nm \cup {None}]
  BY DEF TypeOK
<1> QED
  BY <1>1, <1>4, <1>5, <1>6 DEF Freed

\* The calls stay, or what they are for has been matched.
LEMMA CallsStay ==
  ASSUME NEW n, NEW o, NEW c, CallFor(n, o, c), nm'[n] = o
  PROVE  /\ \A x, y : Among(work, x, y) => nm'[x] = y \/ Among(work', x, y)
         /\ \A k \in DOMAIN c : Among(work', new.kids[n][k], old.kids[o][k])
         /\ \A j \in DOMAIN work \ {1} : \E k \in DOMAIN work' : work'[k] = work[j]
         /\ DOMAIN c \subseteq DOMAIN work'
<1>1. /\ work[1] = <<n, o>> /\ Len(work) > 0
      /\ \A k \in DOMAIN c : c[k] = <<new.kids[n][k], old.kids[o][k]>>
      /\ Len(c) \in Nat /\ DOMAIN c = 1 .. Len(c) /\ DOMAIN work = 1 .. Len(work)
      /\ Len(work) \in Nat /\ DOMAIN work' = 1 .. Len(c) + Len(work) - 1
      /\ \A k \in DOMAIN work' :
           \/ k \in DOMAIN c /\ work'[k] = c[k]
           \/ /\ k \notin DOMAIN c /\ k - Len(c) + 1 \in DOMAIN work \ {1}
              /\ work'[k] = work[k - Len(c) + 1]
  BY DEF CallFor
<1>2. \A k \in DOMAIN c : k \in DOMAIN work' /\ work'[k] = c[k]
  BY <1>1
<1>3. ASSUME NEW j \in DOMAIN work \ {1}
      PROVE  \E k \in DOMAIN work' : work'[k] = work[j]
  <2> DEFINE k == Len(c) + j - 1
  <2>1. k \in 1 .. Len(c) + Len(work) - 1 /\ k \notin 1 .. Len(c) /\ k - Len(c) + 1 = j
    BY <1>1, <1>3
  <2>2. k \in DOMAIN work' /\ work'[k] = work[j]
    BY <1>1, <2>1
  <2> QED
    BY <2>2
<1>4. \A x, y : Among(work, x, y) => nm'[x] = y \/ Among(work', x, y)
  <2>1. SUFFICES ASSUME NEW x, NEW y, NEW k \in DOMAIN work, work[k] = <<x, y>>
                 PROVE  nm'[x] = y \/ Among(work', x, y)
    BY DEF Among
  <2>2. CASE k = 1
    BY <1>1, <2>1, <2>2
  <2>3. CASE k # 1
    BY <1>3, <2>1, <2>3 DEF Among
  <2> QED
    BY <2>2, <2>3
<1>5. \A k \in DOMAIN c : Among(work', new.kids[n][k], old.kids[o][k])
  BY <1>1, <1>2 DEF Among
<1> QED
  BY <1>2, <1>3, <1>4, <1>5

\* Every match below the root is of the children in order, after the step too.
LEMMA CallKids ==
  ASSUME TypeOK, QueueApart, Propagating, NEW n, NEW o, NEW c, CallFor(n, o, c),
         NEW x \in NewBelow[climb.n] \cap DOMAIN nm
  PROVE  KidsPaired(x)'
<1>1. /\ n \in NewBelow[climb.n] /\ nm[n] = None /\ nm'[n] = o /\ DOMAIN nm' = DOMAIN nm
      /\ \A z \in NewBelow[climb.n] \cap DOMAIN nm : z # n => nm'[z] = nm[z]
  BY CallAdds
<1>2. /\ IsTree(new) /\ IsTree(old) /\ None \notin Ids(new) /\ None \notin Ids(old)
      /\ DOMAIN nm = Mapped(new) /\ DOMAIN optm = Mapped(new) /\ Mapped(new) \subseteq Ids(new)
      /\ Mapped(old) \subseteq Ids(old) /\ DOMAIN om = Mapped(old)
      /\ \A z \in DOMAIN nm : nm[z] \in DOMAIN om \cup {None}
  BY SubTreeTypes
<1>3. /\ \A u, v : Among(work, u, v) => nm'[u] = v \/ Among(work', u, v)
      /\ \A k \in DOMAIN c : Among(work', new.kids[n][k], old.kids[o][k])
  BY <1>1, CallsStay
<1>4. /\ n \in DOMAIN nm /\ Len(new.kids[n]) = Len(old.kids[o]) /\ pair' = pair
      /\ ~IsOpaque(new, n) => DOMAIN c = DOMAIN new.kids[n]
  BY DEF CallFor
<1>5. new' = new /\ old' = old
  BY <1>4, BelowsKept
<1>6. IsOpaque(new, x)' = IsOpaque(new, x)
  BY <1>5 DEF IsOpaque, Type
<1>7. ASSUME nm'[x] # None, ~IsOpaque(new, x)
      PROVE  /\ Len(new.kids[x]) = Len(old.kids[nm'[x]])
             /\ \A i \in DOMAIN new.kids[x] :
                  \/ nm'[new.kids[x][i]] = old.kids[nm'[x]][i]
                  \/ Among(work', new.kids[x][i], old.kids[nm'[x]][i])
  <2>1. CASE x = n
    BY <1>1, <1>3, <1>4, <1>7, <2>1
  <2>2. CASE x # n
    <3>1. nm'[x] = nm[x] /\ x \in Ids(new) /\ climb.n \in Ids(new) /\ nm[x] \in Ids(old)
      BY <1>1, <1>2, <1>7, <2>2 DEF Propagating
    <3>2. KidsPaired(x)
      BY DEF Propagating
    <3>3. /\ Len(new.kids[x]) = Len(old.kids[nm[x]])
          /\ \A i \in DOMAIN new.kids[x] :
               \/ nm[new.kids[x][i]] = old.kids[nm[x]][i]
               \/ Among(work, new.kids[x][i], old.kids[nm[x]][i])
      BY <1>7, <3>1, <3>2 DEF KidsPaired
    <3>4. new.kids[x] \in Seq(Ids(new)) /\ old.kids[nm[x]] \in Seq(Ids(old))
      BY <1>2, <3>1 DEF IsTree
    <3>5. ASSUME NEW i \in DOMAIN new.kids[x]
          PROVE  \/ nm'[new.kids[x][i]] = old.kids[nm'[x]][i]
                 \/ Among(work', new.kids[x][i], old.kids[nm'[x]][i])
      <4>0. PICK a, b : a = new.kids[x][i] /\ b = old.kids[nm[x]][i]
        OBVIOUS
      <4>1. b \in Ids(old)
        BY <3>3, <3>4, <4>0
      <4>2. a \in DOMAIN nm
        BY <1>2, <1>7, <3>4, <4>0, MappedClosed DEF Kids
      <4>3. a \in NewBelow[climb.n]
        <5>1. a \in Below(new)[x]
          BY <1>2, <3>1, <4>0, BelowUnfold, KidIsNode, BelowClosed
        <5> QED
          BY <1>2, <3>1, <5>1, BelowWithin DEF NewBelow
      <4>4. nm[a] = b \/ Among(work, a, b)
        BY <3>3, <4>0
      <4>5. nm'[a] = b \/ Among(work', a, b)
        <5>1. CASE nm[a] = b
          BY <1>1, <1>2, <4>1, <4>2, <4>3, <5>1
        <5>2. CASE Among(work, a, b)
          BY <1>3, <5>2
        <5> QED
          BY <4>4, <5>1, <5>2
      <4> QED
        BY <3>1, <4>0, <4>5
    <3> QED
      BY <3>1, <3>3, <3>5
  <2> QED
    BY <2>1, <2>2
<1> QED
  BY <1>5, <1>6, <1>7 DEF KidsPaired

\* A call is for nodes below the two that are propagated, and away from what
\* is matched there.
CallWithin(f, x, y) ==
  /\ x \in NewBelow[climb.n] /\ y \in OldBelow[climb.o]
  /\ \A q \in OldBelow[y] \cap DOMAIN f : f[q] \notin NewBelow[climb.n]

\* So are those for the children, whose old sides have nothing in common.
LEMMA KidCallWithin ==
  ASSUME TypeOK, QueueApart, Propagating, NEW n, NEW o, NEW c, CallFor(n, o, c)
  PROVE  /\ \A k \in DOMAIN c : /\ CallWithin(om', c[k][1], c[k][2])
                                /\ OldBelow[c[k][2]] \subseteq OldBelow[o]
         /\ \A k, l \in DOMAIN c :
              k # l => OldBelow[c[k][2]] \cap OldBelow[c[l][2]] = {}
         /\ \A k \in DOMAIN work \ {1} :
              /\ CallWithin(om', work[k][1], work[k][2])
              /\ OldBelow[work[k][2]] \cap OldBelow[o] = {}
         /\ \A k, l \in DOMAIN work \ {1} :
              k # l => OldBelow[work[k][2]] \cap OldBelow[work[l][2]] = {}
<1>1. /\ n \in NewBelow[climb.n] /\ o \in OldBelow[climb.o] /\ DOMAIN om' = DOMAIN om
      /\ \A q \in DOMAIN om : q # o => om'[q] = om[q]
  BY CallAdds
<1>2. /\ IsTree(new) /\ IsTree(old) /\ DOMAIN optm = Mapped(new) /\ DOMAIN om = Mapped(old)
      /\ Mapped(old) \subseteq Ids(old) /\ Mapped(new) \subseteq Ids(new)
  BY SubTreeTypes
<1>3. /\ n \in Ids(new) /\ o \in Ids(old) /\ DOMAIN new.kids[n] = DOMAIN old.kids[o]
      /\ 1 \in DOMAIN work /\ work[1] = <<n, o>>
      /\ \A k \in DOMAIN c : /\ k \in DOMAIN new.kids[n]
                             /\ c[k] = <<new.kids[n][k], old.kids[o][k]>>
  BY DEF CallFor
<1>4. climb.n \in Ids(new) /\ climb.o \in Ids(old)
  BY <1>2 DEF Propagating
<1>5. /\ \A k \in DOMAIN work :
           /\ work[k][1] \in NewBelow[climb.n] /\ work[k][2] \in OldBelow[climb.o]
           /\ \A q \in OldBelow[work[k][2]] \cap DOMAIN om : om[q] \notin NewBelow[climb.n]
      /\ \A k, l \in DOMAIN work :
           k # l => OldBelow[work[k][2]] \cap OldBelow[work[l][2]] = {}
  BY DEF Propagating
<1>6. ASSUME NEW k \in DOMAIN c
      PROVE  /\ CallWithin(om', c[k][1], c[k][2])
             /\ OldBelow[c[k][2]] \subseteq OldBelow[o]
  <2>0. PICK a, b : a = new.kids[n][k] /\ b = old.kids[o][k]
    OBVIOUS
  <2>1. a \in NewBelow[climb.n]
    BY <1>1, <1>2, <1>3, <1>4, <2>0, BelowClosed DEF NewBelow
  <2>2. b \in OldBelow[climb.o]
    BY <1>1, <1>2, <1>3, <1>4, <2>0, BelowClosed DEF OldBelow
  <2>3. OldBelow[b] \subseteq OldBelow[o] /\ o \notin OldBelow[b]
    BY <1>2, <1>3, <2>0, KidsApart DEF OldBelow
  <2>4. \A q \in OldBelow[o] \cap DOMAIN om : om[q] \notin NewBelow[climb.n]
    BY <1>3, <1>5
  <2>5. CallWithin(om', a, b)
    BY <1>1, <2>1, <2>2, <2>3, <2>4 DEF CallWithin
  <2>6. c[k][1] = a /\ c[k][2] = b
    BY <1>3, <2>0
  <2> QED
    BY <2>3, <2>5, <2>6
<1>7. ASSUME NEW k \in DOMAIN c, NEW l \in DOMAIN c, k # l
      PROVE  OldBelow[c[k][2]] \cap OldBelow[c[l][2]] = {}
  <2>1. k \in DOMAIN old.kids[o] /\ l \in DOMAIN old.kids[o]
    BY <1>3, <1>7
  <2>2. OldBelow[old.kids[o][k]] \cap OldBelow[old.kids[o][l]] = {}
    BY <1>2, <1>3, <1>7, <2>1, SiblingsApart DEF OldBelow
  <2> QED
    BY <1>3, <2>2
<1>8. ASSUME NEW k \in DOMAIN work \ {1}
      PROVE  /\ CallWithin(om', work[k][1], work[k][2])
             /\ OldBelow[work[k][2]] \cap OldBelow[o] = {}
  <2>1. OldBelow[work[k][2]] \cap OldBelow[o] = {}
    BY <1>3, <1>5, <1>8
  <2>2. o \notin OldBelow[work[k][2]]
    BY <1>2, <1>3, <2>1, BelowClosed DEF OldBelow
  <2> QED
    BY <1>1, <1>5, <1>8, <2>1, <2>2 DEF CallWithin
<1> QED
  BY <1>5, <1>6, <1>7, <1>8

\* The calls after the step.
LEMMA CallsWithin ==
  ASSUME TypeOK, QueueApart, Propagating, NEW n, NEW o, NEW c, CallFor(n, o, c)
  PROVE  /\ \A k \in DOMAIN work' : CallWithin(om', work'[k][1], work'[k][2])
         /\ \A k, l \in DOMAIN work' :
              k # l => OldBelow[work'[k][2]] \cap OldBelow[work'[l][2]] = {}
<1>1. /\ Len(c) \in Nat /\ DOMAIN c = 1 .. Len(c) /\ DOMAIN work = 1 .. Len(work)
      /\ Len(work) \in Nat /\ DOMAIN work' = 1 .. Len(c) + Len(work) - 1
      /\ \A k \in DOMAIN work' :
           \/ k \in DOMAIN c /\ work'[k] = c[k]
           \/ /\ k \notin DOMAIN c /\ k - Len(c) + 1 \in DOMAIN work \ {1}
              /\ work'[k] = work[k - Len(c) + 1]
  BY DEF CallFor
<1>2. /\ \A k \in DOMAIN c : /\ CallWithin(om', c[k][1], c[k][2])
                             /\ OldBelow[c[k][2]] \subseteq OldBelow[o]
      /\ \A k, l \in DOMAIN c :
           k # l => OldBelow[c[k][2]] \cap OldBelow[c[l][2]] = {}
      /\ \A k \in DOMAIN work \ {1} :
           /\ CallWithin(om', work[k][1], work[k][2])
           /\ OldBelow[work[k][2]] \cap OldBelow[o] = {}
      /\ \A k, l \in DOMAIN work \ {1} :
           k # l => OldBelow[work[k][2]] \cap OldBelow[work[l][2]] = {}
  BY KidCallWithin
<1>3. ASSUME NEW k \in DOMAIN work' PROVE CallWithin(om', work'[k][1], work'[k][2])
  BY <1>1, <1>2, <1>3
<1>4. ASSUME NEW k \in DOMAIN work', NEW l \in DOMAIN work', k # l
      PROVE  OldBelow[work'[k][2]] \cap OldBelow[work'[l][2]] = {}
  <2>1. k - Len(c) + 1 # l - Len(c) + 1
    BY <1>1, <1>4
  <2>2. CASE k \in DOMAIN c /\ l \in DOMAIN c
    BY <1>1, <1>2, <1>4, <2>2
  <2>3. CASE k \in DOMAIN c /\ l \notin DOMAIN c
    BY <1>1, <1>2, <1>4, <2>3
  <2>4. CASE k \notin DOMAIN c /\ l \in DOMAIN c
    BY <1>1, <1>2, <1>4, <2>4
  <2>5. CASE k \notin DOMAIN c /\ l \notin DOMAIN c
    <3>1. PICK i, j : i = k - Len(c) + 1 /\ j = l - Len(c) + 1
      OBVIOUS
    <3>2. /\ i \in DOMAIN work \ {1} /\ j \in DOMAIN work \ {1} /\ i # j
          /\ work'[k] = work[i] /\ work'[l] = work[j]
      BY <1>1, <1>4, <2>1, <2>5, <3>1
    <3>3. OldBelow[work[i][2]] \cap OldBelow[work[j][2]] = {}
      BY <1>2, <3>2
    <3> QED
      BY <3>2, <3>3
  <2> QED
    BY <2>2, <2>3, <2>4, <2>5
<1> QED
  BY <1>3, <1>4

\* Below the old root what is not matched with this sub-tree is to come.
LEMMA OldSideComes ==
  ASSUME TypeOK, QueueApart, Propagating, NEW n, NEW o, NEW c, CallFor(n, o, c),
         NEW q \in OldBelow[climb.o] \cap DOMAIN om
  PROVE  om'[q] \in NewBelow[climb.n] \/ \E k \in DOMAIN work' : q \in OldBelow[work'[k][2]]
<1>1. /\ n \in NewBelow[climb.n] /\ om[o] \notin NewBelow[climb.n] /\ om'[o] = n
      /\ nm'[n] = o /\ \A z \in DOMAIN om : z # o => om'[z] = om[z]
  BY CallAdds
<1>12. nm'[n] = o
  BY <1>1
<1>13. \A j \in DOMAIN work \ {1} : \E k \in DOMAIN work' : work'[k] = work[j]
  BY <1>12, CallsStay
<1>14. DOMAIN c \subseteq DOMAIN work'
  BY <1>12, CallsStay
<1>15. \A k \in DOMAIN c : work'[k] = c[k]
  BY <1>14 DEF CallFor
<1>2. /\ \A j \in DOMAIN work \ {1} : \E k \in DOMAIN work' : work'[k] = work[j]
      /\ \A k \in DOMAIN c : k \in DOMAIN work' /\ work'[k] = c[k]
  BY <1>13, <1>14, <1>15
<1>3. /\ IsTree(old) /\ DOMAIN om = Mapped(old) /\ Mapped(old) \subseteq Ids(old)
  BY SubTreeTypes
<1>4. /\ o \in Ids(old) /\ Type(new, n) = Type(old, o) /\ work[1] = <<n, o>>
      /\ DOMAIN new.kids[n] = DOMAIN old.kids[o]
      /\ ~IsOpaque(new, n) => DOMAIN c = DOMAIN new.kids[n]
      /\ \A k \in DOMAIN c : c[k] = <<new.kids[n][k], old.kids[o][k]>>
  BY DEF CallFor
<1>5. om[q] \in NewBelow[climb.n] \/ \E k \in DOMAIN work : q \in OldBelow[work[k][2]]
  BY DEF Propagating
<1>6. CASE om[q] \in NewBelow[climb.n]
  BY <1>1, <1>6
<1>7. ASSUME NEW j \in DOMAIN work \ {1}, q \in OldBelow[work[j][2]]
      PROVE  \E k \in DOMAIN work' : q \in OldBelow[work'[k][2]]
  BY <1>2, <1>7
<1>8. CASE q = o
  BY <1>1, <1>8
<1>9. CASE q # o /\ q \in OldBelow[work[1][2]]
  <2>1. q \in Below(old)[o]
    BY <1>4, <1>9 DEF OldBelow
  <2>2. ~IsOpaque(old, o)
    BY <1>3, <1>4, <1>9, <2>1, MappedAbove
  <2>3. DOMAIN c = DOMAIN old.kids[o]
    BY <1>4, <2>2 DEF IsOpaque
  <2>4. PICK i \in DOMAIN old.kids[o] : q \in Below(old)[old.kids[o][i]]
    BY <1>3, <1>4, <1>9, <2>1, BelowUnfold
  <2>5. i \in DOMAIN work' /\ work'[i][2] = old.kids[o][i]
    BY <1>2, <1>4, <2>3, <2>4
  <2> QED
    BY <2>4, <2>5 DEF OldBelow
<1> QED
  BY <1>5, <1>6, <1>7, <1>8, <1>9

\* One step of match_down() leaves all this so.
LEMMA SettledDown ==
  ASSUME TypeOK, PairsAlike, QueueApart, Settled, MatchDown, ~Abort
  PROVE  Settled'
<1>1. PICK n, o, c : CallFor(n, o, c)
  BY DownCall
<1>2. /\ phase = "down" /\ UNCHANGED <<pair, phase, optm, queue, climb>>
  BY <1>1 DEF CallFor
<1>3. Propagating
  BY <1>2 DEF Settled
<1>4. new' = new /\ old' = old /\ NewBelow' = NewBelow /\ OldBelow' = OldBelow
  BY <1>2, BelowsKept
<1>5. \A m \in DOMAIN optm : optm[m] # None => Settles(m)' /\ Outside(m)'
  BY <1>1, SettlesDown
<1>6. /\ nm'[n] = o /\ nm[n] = None /\ DOMAIN nm' = DOMAIN nm /\ DOMAIN om' = DOMAIN om
      /\ \A x \in NewBelow[climb.n] \cap DOMAIN nm : x # n => nm'[x] = nm[x]
  BY <1>1, <1>3, CallAdds
<1>7. nm'[climb.n] = climb.o \/ Among(work', climb.n, climb.o)
  <2>1. CASE Among(work, climb.n, climb.o)
    BY <1>1, <1>6, <2>1, CallsStay
  <2>2. CASE nm[climb.n] = climb.o
    <3>1. /\ IsTree(new) /\ DOMAIN nm = Mapped(new) /\ DOMAIN optm = Mapped(new)
          /\ Mapped(new) \subseteq Ids(new) /\ None \notin Ids(old) /\ DOMAIN om = Mapped(old)
          /\ Mapped(old) \subseteq Ids(old)
      BY SubTreeTypes
    <3>2. climb.n \in DOMAIN nm /\ climb.n \in NewBelow[climb.n] /\ climb.o # None
      BY <1>3, <3>1, BelowClosed DEF Propagating, NewBelow
    <3> QED
      BY <1>6, <2>2, <3>2
  <2> QED
    BY <1>3, <2>1, <2>2 DEF Propagating
<1>8. \A x \in NewBelow[climb.n] \cap DOMAIN nm : KidsPaired(x)'
  BY <1>1, <1>3, CallKids
<1>9. /\ \A k \in DOMAIN work' : CallWithin(om', work'[k][1], work'[k][2])
      /\ \A k, l \in DOMAIN work' :
           k # l => OldBelow[work'[k][2]] \cap OldBelow[work'[l][2]] = {}
  BY <1>1, <1>3, CallsWithin
<1>10. \A q \in OldBelow[climb.o] \cap DOMAIN om :
         om'[q] \in NewBelow[climb.n] \/ \E k \in DOMAIN work' : q \in OldBelow[work'[k][2]]
  BY <1>1, <1>3, OldSideComes
<1>11. /\ climb.n \in DOMAIN optm /\ climb.o \in DOMAIN om
       /\ optm[climb.n] = climb.o /\ Sigs[pair[2]][climb.n] = Sigs[pair[1]][climb.o]
  BY <1>3 DEF Propagating
<1>12. Propagating'
  BY <1>2, <1>4, <1>6, <1>7, <1>8, <1>9, <1>10, <1>11 DEF Propagating, CallWithin, Among
<1> QED
  BY <1>2, <1>5, <1>12 DEF Settled

-------------------------------------------------------------------------------
(***************************************************************************)
(* When no call is left, all of the new sub-tree is matched, node by node, *)
(* and a sub-tree whose root it was given before has nothing left of it.   *)
(***************************************************************************)
LEMMA SettledDownDone ==
  ASSUME TypeOK, NewMatchSound, Settled, MatchDownDone
  PROVE  Settled'
<1>1. /\ phase = "down" /\ work = <<>> /\ phase' = "up"
      /\ UNCHANGED <<pair, om, nm, optm, queue, work, climb>>
  BY DEF MatchDownDone
<1>2. new' = new /\ old' = old /\ NewBelow' = NewBelow /\ OldBelow' = OldBelow
  BY <1>1, BelowsKept
<1>3. /\ IsTree(new) /\ IsTree(old) /\ None \notin Ids(new) /\ None \notin Ids(old)
      /\ DOMAIN nm = Mapped(new) /\ DOMAIN om = Mapped(old) /\ DOMAIN optm = Mapped(new)
      /\ Mapped(new) \subseteq Ids(new) /\ Mapped(old) \subseteq Ids(old)
      /\ \A x \in DOMAIN nm : nm[x] \in DOMAIN om \cup {None}
      /\ \A x \in DOMAIN optm : optm[x] \in DOMAIN om \cup {None}
  BY SubTreeTypes
<1>4. Propagating
  BY <1>1 DEF Settled
<1>5. /\ climb.n \in DOMAIN nm /\ climb.n \in Ids(new) /\ climb.o \in Ids(old)
      /\ optm[climb.n] = climb.o /\ SigOf(new)[climb.n] = SigOf(old)[climb.o]
  BY <1>3, <1>4, PairOfSigs DEF Propagating
<1>6. \A x, y : ~Among(work, x, y)
  BY <1>1 DEF Among
<1>7. \A q \in OldBelow[climb.o] \cap DOMAIN om : om[q] \in NewBelow[climb.n]
  BY <1>1, <1>4 DEF Propagating
<1>8. nm[climb.n] = climb.o
  BY <1>4, <1>6 DEF Propagating
<1>9. WholeBy(nm, climb.n, climb.o)
  <2>1. ASSUME NEW x \in NewBelow[climb.n] \cap DOMAIN nm, nm[x] # None, ~IsOpaque(new, x)
        PROVE  \A i \in DOMAIN new.kids[x] : nm[new.kids[x][i]] = old.kids[nm[x]][i]
    <3>1. KidsPaired(x)
      BY <1>4 DEF Propagating
    <3> QED
      BY <1>6, <2>1, <3>1 DEF KidsPaired
  <2> QED
    BY <1>5, <1>8, <2>1, WholeFromKids
<1>10. TakenBy(om, climb.o)
  BY <1>3, <1>5, <1>7, BelowClosed DEF TakenBy, NewBelow
<1>11. ASSUME NEW m \in DOMAIN optm, optm[m] # None
       PROVE  /\ TakenBy(om, optm[m])
              /\ WholeBy(nm, m, optm[m]) \/ LostBy(nm, m, optm[m])
              /\ \A i \in DOMAIN queue : queue[i] \notin NewBelow[m]
  <2>1. Settles(m) /\ Outside(m)
    BY <1>11 DEF Settled
  <2>2. CASE m = climb.n
    BY <1>5, <1>9, <1>10, <2>1, <2>2 DEF Outside
  <2>3. CASE m # climb.n
    <3>1. /\ TakenBy(om, optm[m]) /\ climb.o \notin OldBelow[optm[m]]
          /\ \/ optm[m] \in OldBelow[climb.o]
             \/ WholeBy(nm, m, optm[m]) \/ LostBy(nm, m, optm[m])
      BY <1>1, <2>1, <2>3 DEF Settles
    <3>2. ASSUME optm[m] \in OldBelow[climb.o] PROVE LostBy(nm, m, optm[m])
      <4>1. SUFFICES ASSUME NEW y \in NewBelow[m] \cap DOMAIN nm, nm[y] \in OldBelow[optm[m]]
                     PROVE  FALSE
        BY DEF LostBy
      <4>2. nm[y] \in OldBelow[climb.o]
        BY <1>3, <1>5, <3>2, <4>1, BelowWithin DEF OldBelow
      <4>3. nm[y] # None
        BY <1>3, <1>5, <4>2, BelowClosed DEF OldBelow
      <4>4. om[nm[y]] = y /\ nm[y] \in DOMAIN om
        BY <1>1, <1>3, <4>1, <4>3 DEF NewMatchSound
      <4>5. y \in NewBelow[climb.n]
        BY <1>7, <4>2, <4>4
      <4> QED
        BY <1>1, <2>1, <2>3, <4>1, <4>5 DEF Outside
    <3> QED
      BY <2>1, <3>1, <3>2 DEF Outside
  <2> QED
    BY <2>2, <2>3
<1> QED
  BY <1>1, <1>2, <1>11 DEF Settled, Settles, Outside, TakenBy, WholeBy, LostBy

(***************************************************************************)
(* Bottom up a node is given the parent of a match of its child: a lost    *)
(* sub-tree has no such child.                                             *)
(***************************************************************************)
LEMMA SettledBottomUp ==
  ASSUME TypeOK, Settled, BottomUp
  PROVE  Settled'
<1>1. /\ phase = "bottomup" /\ phase' = "bottomup" /\ work # <<>>
      /\ UNCHANGED <<pair, optm, queue>>
  BY DEF BottomUp
<1>2. CASE UNCHANGED <<om, nm>>
  BY <1>1, <1>2, SettledSame
<1>3. CASE ~UNCHANGED <<om, nm>>
  <2>1. PICK x, v : /\ x = Head(work)[1] /\ ~Skipped(new, x) /\ v \in Voters(x) /\ Adopts(x, v)
                    /\ nm' = [nm EXCEPT ![x] = MatchParent(new.kids[x][v])]
                    /\ om' = [om EXCEPT ![MatchParent(new.kids[x][v])] = x]
    BY <1>3 DEF BottomUp
  <2>2. PICK k, q : k = new.kids[x][v] /\ q = MatchParent(k)
    OBVIOUS
  <2>3. /\ IsTree(new) /\ IsTree(old) /\ None \notin Ids(old)
        /\ DOMAIN nm = Mapped(new) /\ DOMAIN om = Mapped(old) /\ DOMAIN optm = Mapped(new)
        /\ Mapped(new) \subseteq Ids(new) /\ Mapped(old) \subseteq Ids(old)
        /\ \A z \in DOMAIN nm : nm[z] \in DOMAIN om \cup {None}
        /\ \A z \in DOMAIN optm : optm[z] \in DOMAIN om \cup {None}
    BY SubTreeTypes
  <2>4. x \in Mapped(new) /\ x \in Maps[pair[2]]
    BY <1>1, <2>1, <2>3, VisitHead DEF TypeOK
  <2>5. q \in DOMAIN om /\ q \in Maps[pair[1]]
    BY <2>1, <2>2, <2>4, VoterMapped DEF TypeOK
  <2>6. v \in DOMAIN new.kids[x] /\ q # None /\ Type(new, x) = Type(old, q)
    BY <2>1, <2>2 DEF Voters, MatchEq, Type
  <2>7. Joined(x, q)
    BY <2>1, <2>2, <2>4, <2>5, <2>6 DEF Joined, Adopts
  <2>8. nm[k] # None /\ old.par[nm[k]] = q
    BY <2>2, <2>6 DEF MatchParent
  <2>9. k \in Mapped(new)
    BY <2>1, <2>2, <2>3, <2>4, <2>6, MappedClosed DEF Skipped, Kids
  <2>10. nm[k] \in Ids(old) /\ nm[k] # Root
    BY <2>3, <2>6, <2>8, <2>9 DEF IsTree
  <2>11. PICK j \in DOMAIN old.kids[q] : nm[k] = old.kids[q][j]
    BY <2>3, <2>8, <2>10 DEF IsTree, Kids
  <2>12. ASSUME NEW n \in DOMAIN optm, optm[n] # None, x \in NewBelow[n], LostBy(nm, n, optm[n])
         PROVE  q \notin OldBelow[optm[n]]
    <3>1. k \in NewBelow[n] \cap DOMAIN nm
      BY <2>2, <2>3, <2>6, <2>9, <2>12, BelowClosed DEF NewBelow
    <3>2. nm[k] \notin OldBelow[optm[n]]
      BY <2>12, <3>1 DEF LostBy
    <3>3. optm[n] \in Ids(old)
      BY <2>3, <2>12
    <3> QED
      BY <2>3, <2>11, <3>2, <3>3, BelowClosed DEF OldBelow
  <2> QED
    BY <1>1, <2>7, <2>12, SettledJoin
<1> QED
  BY <1>2, <1>3

\* Every step of the matching leaves it so.
LEMMA SettledStep ==
  ASSUME Matching, Matching', Settled, MatchNext
  PROVE  Settled'
<1>0. TypeOK /\ OldMatchSound /\ NewMatchSound /\ MatchesAgree /\ PairsAlike /\ QueueApart
  BY DEF Matching
<1>1. phase # "abort" /\ phase' # "abort" /\ ~Abort
  BY DEF Matching, NoAbort, Abort
<1>2. CASE Dequeue
  <2>1. phase' \in {"enqueue", "down"}
    BY <1>1, <1>2 DEF Dequeue
  <2> QED
    BY <1>0, <1>2, <2>1, SettledEmpty, SettledDequeue
<1>3. CASE Enqueue
  BY <1>0, <1>3, SettledEnqueue
<1>4. CASE EnqueueDone \/ MatchUpDone \/ TopDownDone \/ BottomUpDone
  <2>1. /\ phase # "down" /\ phase' \notin {"down", "enqueue"}
        /\ UNCHANGED <<pair, om, nm, optm, queue>>
    BY <1>4 DEF EnqueueDone, MatchUpDone, TopDownDone, BottomUpDone
  <2> QED
    BY <2>1, SettledSame
<1>5. CASE MatchDown
  BY <1>0, <1>1, <1>5, SettledDown
<1>6. CASE MatchDownDone
  BY <1>0, <1>6, SettledDownDone
<1>7. ASSUME phase # "down", phase' \notin {"down", "enqueue"}, UNCHANGED <<pair, optm, queue>>,
             UNCHANGED <<om, nm>> \/ \E n, o : Joined(n, o) /\ om[o] = None
      PROVE  Settled'
  BY <1>0, <1>7, SettledSame, SettledJoin
<1>8. CASE MatchUp
  <2>1. /\ phase = "up" /\ phase' = "up" /\ UNCHANGED <<pair, optm, queue>>
    BY <1>8 DEF MatchUp
  <2>2. \E n, o : Joined(n, o) /\ om[o] = None
    BY <1>0, <1>8, JoinedUp
  <2> QED
    BY <1>7, <2>1, <2>2
<1>9. CASE MatchRoots
  <2>1. /\ phase = "queue" /\ phase' = "roots" /\ UNCHANGED <<pair, optm, queue>>
    BY <1>1, <1>9 DEF MatchRoots
  <2>2. UNCHANGED <<om, nm>> \/ \E n, o : Joined(n, o) /\ om[o] = None
    BY <1>0, <1>9, JoinedRoots
  <2> QED
    BY <1>7, <2>1, <2>2
<1>10. CASE MatchHeaders
  <2>1. /\ phase = "roots" /\ phase' = "topdown" /\ UNCHANGED <<pair, optm, queue>>
    BY <1>10 DEF MatchHeaders
  <2>2. UNCHANGED <<om, nm>> \/ \E n, o : Joined(n, o) /\ IsHeader(new, n) /\ IsHeader(old, o)
    BY <1>0, <1>10, JoinedHeaders
  <2>3. ASSUME NEW n, NEW o, Joined(n, o), IsHeader(new, n), IsHeader(old, o)
        PROVE  om[o] = None
    BY <1>0, <2>3, HeaderUnmatched DEF Joined
  <2> QED
    BY <1>7, <2>1, <2>2, <2>3
<1>11. CASE TopDown
  <2>1. /\ phase = "topdown" /\ phase' = "topdown" /\ UNCHANGED <<pair, optm, queue>>
    BY <1>11 DEF TopDown
  <2>2. UNCHANGED <<om, nm>> \/ \E n, o : Joined(n, o) /\ om[o] = None
    BY <1>0, <1>11, JoinedTopDown
  <2> QED
    BY <1>7, <2>1, <2>2
<1>12. CASE BottomUp
  BY <1>0, <1>12, SettledBottomUp
<1> QED
  BY <1>2, <1>3, <1>4, <1>5, <1>6, <1>8, <1>9, <1>10, <1>11, <1>12 DEF MatchNext

\* What is settled is so to the end: the merge matches nothing.
LEMMA SettledHolds == MSpec => [](Matching /\ Settled)
<1>1. MInit => Settled
  <2> SUFFICES ASSUME MInit PROVE Settled
    OBVIOUS
  <2>1. phase = "queue" /\ \A n \in DOMAIN optm : optm[n] = None
    BY DEF MInit, Init
  <2> QED
    BY <2>1 DEF Settled
<1>2. Matching /\ Matching' /\ Settled /\ [MNext]_<<vars, mvars>> => Settled'
  <2> SUFFICES ASSUME Matching, Matching', Settled, [MNext]_<<vars, mvars>>
               PROVE  Settled'
    OBVIOUS
  <2>1. CASE MatchNext
    BY <2>1, SettledStep
  <2>2. CASE MergeNext \/ Returned
    <3>1. UNCHANGED matching /\ phase \in {"merge", "done"} /\ phase' \in {"merge", "done"}
      BY <2>2, MergeKeepsMatching, MergePhase DEF Returned, Matching, NoAbort, vars
    <3> QED
      BY <3>1, SettledSame DEF matching
  <2>3. CASE UNCHANGED <<vars, mvars>>
    <3>1. UNCHANGED <<pair, phase, om, nm, optm, queue, work, climb>>
      BY <2>3 DEF vars
    <3>2. new' = new /\ old' = old /\ NewBelow' = NewBelow /\ OldBelow' = OldBelow
      BY <3>1, BelowsKept
    <3>3. \A n \in DOMAIN optm : optm[n] # None => Settles(n)' /\ Outside(n)'
      BY <3>1, <3>2 DEF Settled, Settles, Outside, TakenBy, WholeBy, LostBy
    <3>4. Propagating => Propagating'
      BY <3>1, <3>2 DEF Propagating, KidsPaired, Among, Sigs, Docs, IsOpaque, Type
    <3> QED
      BY <3>1, <3>3, <3>4 DEF Settled
  <2> QED
    BY <2>1, <2>2, <2>3 DEF MNext
<1> QED
  BY <1>1, <1>2, MatchingHolds, PTL DEF MSpec

(***************************************************************************)
(* For all trees, a sub-tree that was found by signature and whose root    *)
(* has its match is matched as a whole, node by node: when match_down()    *)
(* takes old nodes from it, it takes all of it, its root too, and neither  *)
(* the climb nor the two optimisations puts anything of it back.           *)
(***************************************************************************)
THEOREM SubTreesCorrect == MSpec => []SubTreesWhole
<1>1. Matching /\ Settled => SubTreesWhole
  <2> SUFFICES ASSUME Matching, Settled, phase # "down",
                      NEW n \in DOMAIN nm, optm[n] # None, nm[n] = optm[n],
                      NEW i \in DOMAIN SubTrees[pair[2]][n],
                      SubTrees[pair[2]][n][i] \in DOMAIN nm
               PROVE  nm[SubTrees[pair[2]][n][i]] = SubTrees[pair[1]][nm[n]][i]
    BY DEF SubTreesWhole
  <2>0. TypeOK
    BY DEF Matching
  <2>1. /\ SubTrees[pair[2]] = PreOrder(new) /\ SubTrees[pair[1]] = PreOrder(old)
    BY <2>0 DEF TypeOK, SubTrees, new, old, Docs
  <2>2. /\ IsTree(new) /\ IsTree(old) /\ DOMAIN nm = Mapped(new) /\ DOMAIN optm = Mapped(new)
        /\ Mapped(new) \subseteq Ids(new) /\ Mapped(old) \subseteq Ids(old)
        /\ DOMAIN om = Mapped(old) /\ optm[n] \in DOMAIN om \cup {None}
    BY <2>0, SubTreeTypes
  <2>3. Settles(n)
    BY <2>2 DEF Settled
  <2>4. ~LostBy(nm, n, optm[n])
    <3>1. n \in NewBelow[n] /\ optm[n] \in OldBelow[optm[n]]
      BY <2>2, BelowClosed DEF NewBelow, OldBelow
    <3> QED
      BY <3>1 DEF LostBy
  <2>5. WholeBy(nm, n, optm[n])
    BY <2>3, <2>4 DEF Settles
  <2> QED
    BY <2>1, <2>5 DEF WholeBy
<1> QED
  BY <1>1, SettledHolds, PTL

-------------------------------------------------------------------------------
(***************************************************************************)
(* What a tree shows, below one of its nodes.                              *)
(***************************************************************************)

\* The symbols of the texts.
Symbols ==
  UNION {{TextOf(Tree(x[1]), x[2])[i] : i \in DOMAIN TextOf(Tree(x[1]), x[2])} :
           x \in {y \in Names \X UNION {Ids(Tree(e)) : e \in Names} :
                    y[2] \in Ids(Tree(y[1])) /\ IsText(Tree(y[1]), y[2])}}

\* What there is to be shown of a tree.
Atoms(t) ==
  {<<None, "stray">>}
    \cup {<<p, "node", n>> : p \in Ids(t) \cup {None}, n \in Ids(t)}
    \cup {<<p, "word", w>> : p \in Ids(t) \cup {None}, w \in Symbols}

\* It is one of the documents.
IsDoc(t) == \E d \in Names : t = Tree(d)

\* A document is a tree.
LEMMA DocIsTree ==
  ASSUME NEW t, IsDoc(t) PROVE IsTree(t)
BY TreesAreTrees DEF IsDoc

\* A text is a sequence of symbols, and has no children.
LEMMA TextIsSeq ==
  ASSUME NEW t, IsDoc(t), NEW n \in Ids(t), IsText(t, n)
  PROVE  /\ TextOf(t, n) \in Seq(Symbols \ {NoWord})
         /\ t.kids[n] = <<>>
<1>1. PICK d \in Names : t = Tree(d)
  BY DEF IsDoc
<1> DEFINE text == TextOf(t, n)
           U == {text[i] : i \in DOMAIN text}
<1>2. text \in Seq(U \ {NoWord})
  BY <1>1, LabelsAreLabels DEF Plain
<1>3. U \subseteq Symbols
  <2>1. <<d, n>> \in {y \in Names \X UNION {Ids(Tree(e)) : e \in Names} :
                       y[2] \in Ids(Tree(y[1])) /\ IsText(Tree(y[1]), y[2])}
    BY <1>1
  <2> QED
    BY <1>1, <2>1 DEF Symbols
<1>4. U \ {NoWord} \subseteq Symbols \ {NoWord}
  BY <1>3
<1>5. text \in Seq(Symbols \ {NoWord})
  <2> DEFINE A == U \ {NoWord}
             B == Symbols \ {NoWord}
             v == text
  <2>1. v \in Seq(A) /\ A \subseteq B
    BY <1>2, <1>4
  <2> HIDE DEF A, B, v
  <2>2. v \in Seq(B)
    BY <2>1, SeqMonotonic
  <2> QED
    BY <2>2 DEF B, v
<1>6. t.kids[n] = <<>>
  BY DocIsTree DEF IsTree, TextsBare, IsText
<1> QED
  BY <1>5, <1>6

\* The words of a text are its symbols but the space.
LEMMA WordsType ==
  ASSUME NEW U, NEW text \in Seq(U)
  PROVE  /\ Words(text) \in Seq(U \ {Space})
         /\ [i \in DOMAIN text |-> IF text[i] = Space THEN <<>> ELSE <<text[i]>>]
              \in Seq(Seq(U \ {Space}))
<1> DEFINE g == [i \in DOMAIN text |-> IF text[i] = Space THEN <<>> ELSE <<text[i]>>]
           V == U \ {Space}
<1>1. DOMAIN text = 1 .. Len(text) /\ Len(text) \in Nat /\ \A i \in 1 .. Len(text) : text[i] \in U
  BY LenProperties, ElementOfSeq
<1>2. ASSUME NEW i \in DOMAIN text
      PROVE  (IF text[i] = Space THEN <<>> ELSE <<text[i]>>) \in Seq(V)
  <2>1. CASE text[i] = Space
    BY <2>1, EmptySeq
  <2>2. CASE text[i] # Space
    <3>1. text[i] \in V
      BY <1>1, <2>2
    <3> HIDE DEF V
    <3> QED
      BY <2>2, <3>1
  <2> QED
    BY <2>1, <2>2
<1>3. g \in [1 .. Len(text) -> Seq(V)]
  <2> HIDE DEF V
  <2> QED
    BY <1>1, <1>2
<1>4. g \in Seq(Seq(V))
  <2> HIDE DEF g, V
  <2> QED
    BY <1>1, <1>3, SeqDef
<1>5. Seqs!FlattenSeq(g) \in Seq(V)
  <2> HIDE DEF g, V
  <2> QED
    BY <1>4, FlatType
<1> QED
  BY <1>4, <1>5 DEF Words

\* What a node shows is a sequence of atoms.
LEMMA ShownType ==
  ASSUME NEW t, IsDoc(t), NEW n \in Ids(t), NEW p \in Ids(t) \cup {None}, NEW P
  PROVE  Shown(t, n, p, P) \in Seq(Atoms(t))
<1> DEFINE A == Atoms(t)
<1>1. <<p, "node", n>> \in A
  BY DEF Atoms
<1>2. CASE p \notin P \cup {None}
  <2>1. Shown(t, n, p, P) = <<>>
    BY <1>2 DEF Shown
  <2> QED
    BY <2>1, EmptySeq
<1>3. CASE p \in P \cup {None} /\ ~IsText(t, n)
  <2>1. Shown(t, n, p, P) = <<<<p, "node", n>>>>
    BY <1>3 DEF Shown
  <2> DEFINE x == <<p, "node", n>>
  <2>2. x \in A
    BY <1>1
  <2> HIDE DEF x, A
  <2>3. <<x>> \in Seq(A)
    BY <2>2
  <2> QED
    BY <2>1, <2>3 DEF x, A
<1>4. CASE p \in P \cup {None} /\ IsText(t, n)
  <2> DEFINE w == Words(TextOf(t, n))
             s == [k \in DOMAIN w |-> <<p, "word", w[k]>>]
             B == Symbols \ {NoWord}
  <2>1. Shown(t, n, p, P) = s
    BY <1>4 DEF Shown
  <2>2. w \in Seq(B \ {Space})
    BY <1>4, TextIsSeq, WordsType
  <2>3. DOMAIN w = 1 .. Len(w) /\ Len(w) \in Nat /\ \A k \in 1 .. Len(w) : w[k] \in Symbols
    <3> HIDE DEF w
    <3> QED
      BY <2>2, LenProperties, ElementOfSeq
  <2> HIDE DEF w
  <2>4. \A k \in DOMAIN w : <<p, "word", w[k]>> \in Atoms(t)
    BY <2>3 DEF Atoms
  <2>5. s \in [1 .. Len(w) -> A]
    BY <2>3, <2>4
  <2> HIDE DEF s, A
  <2>6. s \in Seq(A)
    BY <2>3, <2>5, SeqDef
  <2> QED
    BY <2>1, <2>6 DEF A
<1> QED
  BY <1>2, <1>3, <1>4

\* What each node of a tree shows.
ShownBy(t, P) == [n \in Ids(t) |-> Shown(t, n, t.par[n], P)]

\* So it is for all nodes.
LEMMA ShownByType ==
  ASSUME NEW t, IsDoc(t), NEW P
  PROVE  Lists(ShownBy(t, P), Ids(t), Atoms(t))
<1>1. \A n \in Ids(t) : t.par[n] \in Ids(t) \cup {None}
  BY DocIsTree DEF IsTree
<1>2. \A n \in Ids(t) : Shown(t, n, t.par[n], P) \in Seq(Atoms(t))
  BY <1>1, ShownType
<1> QED
  BY <1>2 DEF ShownBy, Lists

\* What some nodes show is what each of them shows.
LEMMA ShownIsOver ==
  ASSUME NEW t, NEW P, NEW nodes \in Seq(Ids(t))
  PROVE  ShownOf(t, nodes, P) = Over(ShownBy(t, P), nodes)
<1>1. \A k \in DOMAIN nodes : nodes[k] \in Ids(t)
  BY LenProperties, ElementOfSeq
<1>2. [k \in DOMAIN nodes |-> Shown(t, nodes[k], t.par[nodes[k]], P)]
        = [k \in DOMAIN nodes |-> ShownBy(t, P)[nodes[k]]]
  BY <1>1 DEF ShownBy
<1> QED
  BY <1>2 DEF ShownOf, Over

\* What a sub-tree shows, and what those of a node's children from the i-th on do.
Reading(t, P, n) == ShownOf(t, PreOrder(t)[n], P)

KidReadings(t, P, n) == [i \in DOMAIN t.kids[n] |-> Reading(t, P, t.kids[n][i])]

KidsFrom(t, P, n, i) ==
  Seqs!FlattenSeq(SubSeq(KidReadings(t, P, n), i, Len(t.kids[n])))

\* What a sub-tree shows is a sequence of atoms.
LEMMA ReadingType ==
  ASSUME NEW t, IsDoc(t), NEW P, NEW n \in Ids(t)
  PROVE  Reading(t, P, n) \in Seq(Atoms(t))
<1>1. PreOrder(t)[n] \in Seq(Ids(t))
  BY DocIsTree, PreType
<1>2. Over(ShownBy(t, P), PreOrder(t)[n]) \in Seq(Atoms(t))
  BY <1>1, ShownByType, OverSeq
<1> QED
  BY <1>1, <1>2, ShownIsOver DEF Reading

\* What the children show, one by one.
LEMMA KidReadingsType ==
  ASSUME NEW t, IsDoc(t), NEW P, NEW n \in Ids(t)
  PROVE  /\ KidReadings(t, P, n) \in Seq(Seq(Atoms(t)))
         /\ Len(KidReadings(t, P, n)) = Len(t.kids[n]) /\ Len(t.kids[n]) \in Nat
         /\ \A i \in 1 .. Len(t.kids[n]) : KidReadings(t, P, n)[i] = Reading(t, P, t.kids[n][i])
<1>1. DOMAIN t.kids[n] = 1 .. Len(t.kids[n]) /\ Len(t.kids[n]) \in Nat
  BY DocIsTree, LenProperties DEF IsTree
<1>2. \A i \in DOMAIN t.kids[n] : Reading(t, P, t.kids[n][i]) \in Seq(Atoms(t))
  BY DocIsTree, KidIsNode, ReadingType
<1>3. KidReadings(t, P, n) \in [1 .. Len(t.kids[n]) -> Seq(Atoms(t))]
  BY <1>1, <1>2 DEF KidReadings
<1>4. KidReadings(t, P, n) \in Seq(Seq(Atoms(t))) /\ Len(KidReadings(t, P, n)) = Len(t.kids[n])
  BY <1>1, <1>3, SeqDef
<1> QED
  BY <1>1, <1>4 DEF KidReadings

\* What is shown from a child on is a sequence of atoms.
LEMMA KidsFromType ==
  ASSUME NEW t, IsDoc(t), NEW P, NEW n \in Ids(t), NEW i \in Nat \ {0}
  PROVE  /\ SubSeq(KidReadings(t, P, n), i, Len(t.kids[n])) \in Seq(Seq(Atoms(t)))
         /\ KidsFrom(t, P, n, i) \in Seq(Atoms(t))
<1> DEFINE r == KidReadings(t, P, n)
           l == Len(t.kids[n])
           E == Seq(Atoms(t))
<1>1. r \in Seq(E) /\ Len(r) = l /\ l \in Nat
  BY KidReadingsType
<1> HIDE DEF r, l, E
<1>2. \A j \in i .. l : r[j] \in E
  BY <1>1, ElementOfSeq
<1>3. SubSeq(r, i, l) \in Seq(E)
  BY <1>1, <1>2, SubSeqProperties
<1>4. Seqs!FlattenSeq(SubSeq(r, i, l)) \in E
  BY <1>3, FlatType DEF E
<1> QED
  BY <1>3, <1>4 DEF KidsFrom, r, l, E

\* It is what the child shows, and what is shown from the next on.
LEMMA KidsFromStep ==
  ASSUME NEW t, IsDoc(t), NEW P, NEW n \in Ids(t), NEW i \in 1 .. Len(t.kids[n])
  PROVE  KidsFrom(t, P, n, i) = Reading(t, P, t.kids[n][i]) \o KidsFrom(t, P, n, i + 1)
<1> DEFINE r == KidReadings(t, P, n)
           l == Len(t.kids[n])
           A == Atoms(t)
           x == Reading(t, P, t.kids[n][i])
<1>1. r \in Seq(Seq(A)) /\ Len(r) = l /\ l \in Nat /\ r[i] = x /\ i \in 1 .. l
  BY KidReadingsType
<1>2. i + 1 \in Nat \ {0}
  BY <1>1
<1>3. SubSeq(r, i + 1, l) \in Seq(Seq(A))
  BY <1>2, KidsFromType
<1> DEFINE E == Seq(A)
<1> HIDE DEF r, l, A, x
<1>4. SubSeq(r, i, l) = <<r[i]>> \o SubSeq(r, i + 1, l)
  <2>1. r \in Seq(E) /\ i \in 1 .. Len(r) /\ l \in i .. Len(r)
    BY <1>1
  <2> HIDE DEF E
  <2> QED
    BY <2>1, SubSeqRecursiveFirst
<1>5. x \in Seq(A)
  <2>1. \A j \in 1 .. Len(r) : r[j] \in E
    <3> HIDE DEF E
    <3>1. r \in Seq(E)
      BY <1>1 DEF E
    <3> QED
      BY <3>1, ElementOfSeq
  <2> QED
    BY <1>1, <2>1
<1>6. Seqs!FlattenSeq(<<x>> \o SubSeq(r, i + 1, l)) = x \o Seqs!FlattenSeq(SubSeq(r, i + 1, l))
  BY <1>3, <1>5, FlatCons
<1> QED
  BY <1>1, <1>4, <1>6 DEF KidsFrom, r, l, x

\* Behind the last child nothing is shown.
LEMMA KidsFromEnd ==
  ASSUME NEW t, IsDoc(t), NEW P, NEW n \in Ids(t), NEW i \in Nat, ~(i <= Len(t.kids[n]))
  PROVE  KidsFrom(t, P, n, i) = <<>>
<1>1. Len(t.kids[n]) \in Nat
  BY KidReadingsType
<1>2. SubSeq(KidReadings(t, P, n), i, Len(t.kids[n])) = <<>>
  BY <1>1, SubSeqEmpty
<1> QED
  BY <1>2, FlatEmpty DEF KidsFrom

\* A sub-tree shows what its root does and what its children show.
LEMMA ReadingUnfold ==
  ASSUME NEW t, IsDoc(t), NEW P, NEW n \in Ids(t)
  PROVE  Reading(t, P, n) = Shown(t, n, t.par[n], P) \o KidsFrom(t, P, n, 1)
<1> DEFINE g == ShownBy(t, P)
           kw == KidWalks(t, n)
           I == Ids(t)
           A == Atoms(t)
<1>1. /\ kw \in Seq(Seq(I)) /\ PreOrder(t)[n] = <<n>> \o Seqs!FlattenSeq(kw)
      /\ DOMAIN t.kids[n] = 1 .. Len(t.kids[n])
      /\ DOMAIN kw = DOMAIN t.kids[n]
  BY DocIsTree, KidWalksType DEF KidWalks
<1>2. Lists(g, I, A)
  BY ShownByType
<1>3. \A i \in DOMAIN t.kids[n] : kw[i] \in Seq(I) /\ kw[i] = PreOrder(t)[t.kids[n][i]]
  BY DocIsTree, PreType, KidIsNode DEF KidWalks
<1>4. PreOrder(t)[n] \in Seq(I)
  BY DocIsTree, PreType
<1>5. Reading(t, P, n) = Over(g, PreOrder(t)[n])
  BY <1>4, ShownIsOver DEF Reading
<1>6. \A i \in DOMAIN t.kids[n] : Over(g, kw[i]) = Reading(t, P, t.kids[n][i])
  BY <1>3, ShownIsOver DEF Reading
<1>7. g[n] = Shown(t, n, t.par[n], P)
  BY DEF ShownBy
<1>8. [i \in DOMAIN kw |-> Over(g, kw[i])] = KidReadings(t, P, n)
  <2> HIDE DEF kw, g
  <2> QED
    BY <1>1, <1>6 DEF KidReadings
<1>9. n \in I
  OBVIOUS
<1> HIDE DEF kw, g, I, A
<1>10. Over(g, Seqs!FlattenSeq(kw)) = Seqs!FlattenSeq(KidReadings(t, P, n))
  <2>1. kw \in Seq(Seq(I))
    BY <1>1
  <2>2. Over(g, Seqs!FlattenSeq(kw)) = Seqs!FlattenSeq([i \in DOMAIN kw |-> Over(g, kw[i])])
    BY <1>2, <2>1, OverFlat
  <2> QED
    BY <1>8, <2>2
<1>11. Seqs!FlattenSeq(kw) \in Seq(I)
  BY <1>1, FlatType
<1> DEFINE y == <<n>>
<1>12. y \in Seq(I)
  BY <1>9
<1>13. Over(g, y) = g[n]
  BY <1>2, <1>9, OverSingle
<1> HIDE DEF y
<1>14. Over(g, y \o Seqs!FlattenSeq(kw)) = Over(g, y) \o Over(g, Seqs!FlattenSeq(kw))
  BY <1>2, <1>11, <1>12, OverConcat
<1>15. SubSeq(KidReadings(t, P, n), 1, Len(t.kids[n])) = KidReadings(t, P, n)
  <2>1. KidReadings(t, P, n) \in Seq(Seq(Atoms(t))) /\ Len(KidReadings(t, P, n)) = Len(t.kids[n])
    BY KidReadingsType DEF I
  <2> DEFINE r == KidReadings(t, P, n)
             E == Seq(Atoms(t))
  <2>2. r \in Seq(E)
    BY <2>1
  <2> HIDE DEF r, E
  <2>3. SubSeq(r, 1, Len(r)) = r
    BY <2>2, SubSeqFull
  <2> QED
    BY <2>1, <2>3 DEF r
<1> QED
  BY <1>1, <1>5, <1>7, <1>10, <1>13, <1>14, <1>15 DEF KidsFrom, y

-------------------------------------------------------------------------------
(***************************************************************************)
(* The edit scripts.                                                       *)
(***************************************************************************)

\* What the scripts of a pair of lengths are, from those of smaller ones.
ScriptsAt(a, b, key, f, p) ==
  LET i == p[1]
      j == p[2]
  IN  IF i = 0 /\ j = 0 THEN {<<>>}
      ELSE Shorter(
        (IF i = 0 THEN {}
         ELSE Longer(f[<<i - 1, j>>], Op("delete", a[i])))
        \cup
        (IF j = 0 THEN {}
         ELSE Longer(f[<<i, j - 1>>], Op("add", b[j])))
        \cup
        (IF i = 0 \/ j = 0 \/ key[a[i]] # key[b[j]] THEN {}
         ELSE Longer(f[<<i - 1, j - 1>>], Op("common", a[i]))))

\* Scripts depend on those for smaller lengths only.
LEMMA ScriptsSame ==
  ASSUME NEW a, NEW b, NEW key, NEW f, NEW g, NEW i \in Nat, NEW j \in Nat,
         \A x \in 0 .. i : \A y \in 0 .. j : x + y < i + j => f[<<x, y>>] = g[<<x, y>>]
  PROVE  ScriptsAt(a, b, key, f, <<i, j>>) = ScriptsAt(a, b, key, g, <<i, j>>)
<1>1. i # 0 => f[<<i - 1, j>>] = g[<<i - 1, j>>]
  <2> SUFFICES ASSUME i # 0 PROVE f[<<i - 1, j>>] = g[<<i - 1, j>>]
    OBVIOUS
  <2>1. i - 1 \in 0 .. i /\ j \in 0 .. j /\ (i - 1) + j < i + j
    OBVIOUS
  <2> QED
    BY <2>1
<1>2. j # 0 => f[<<i, j - 1>>] = g[<<i, j - 1>>]
  <2> SUFFICES ASSUME j # 0 PROVE f[<<i, j - 1>>] = g[<<i, j - 1>>]
    OBVIOUS
  <2>1. j - 1 \in 0 .. j /\ i \in 0 .. i /\ i + (j - 1) < i + j
    OBVIOUS
  <2> QED
    BY <2>1
<1>3. i # 0 /\ j # 0 => f[<<i - 1, j - 1>>] = g[<<i - 1, j - 1>>]
  <2> SUFFICES ASSUME i # 0, j # 0 PROVE f[<<i - 1, j - 1>>] = g[<<i - 1, j - 1>>]
    OBVIOUS
  <2>1. i - 1 \in 0 .. i /\ j - 1 \in 0 .. j /\ (i - 1) + (j - 1) < i + j
    OBVIOUS
  <2> QED
    BY <2>1
<1> DEFINE D(h) == IF i = 0 THEN {} ELSE Longer(h[<<i - 1, j>>], Op("delete", a[i]))
           A(h) == IF j = 0 THEN {} ELSE Longer(h[<<i, j - 1>>], Op("add", b[j]))
           C(h) == IF i = 0 \/ j = 0 \/ key[a[i]] # key[b[j]] THEN {}
                   ELSE Longer(h[<<i - 1, j - 1>>], Op("common", a[i]))
<1>4. \A h : ScriptsAt(a, b, key, h, <<i, j>>)
                = IF i = 0 /\ j = 0 THEN {<<>>} ELSE Shorter(D(h) \cup A(h) \cup C(h))
  <2> SUFFICES ASSUME NEW h
               PROVE  ScriptsAt(a, b, key, h, <<i, j>>)
                        = IF i = 0 /\ j = 0 THEN {<<>>} ELSE Shorter(D(h) \cup A(h) \cup C(h))
    OBVIOUS
  <2>1. <<i, j>>[1] = i /\ <<i, j>>[2] = j
    OBVIOUS
  <2> QED
    BY <2>1, Zenon DEF ScriptsAt
<1>5. D(f) = D(g) /\ A(f) = A(g) /\ C(f) = C(g)
  BY <1>1, <1>2, <1>3
<1> HIDE DEF D, A, C
<1> QED
  BY <1>4, <1>5

\* The function has the scripts of all pairs of lengths.
AllScripts(a, b, key, la, lb, f) ==
  f = [p \in (0 .. la) \X (0 .. lb) |-> ScriptsAt(a, b, key, f, p)]

\* There is such a function of all pairs of lengths.
LEMMA ScriptsExist ==
  ASSUME NEW a, NEW b, NEW key, NEW la \in Nat, NEW lb \in Nat
  PROVE  \E f : AllScripts(a, b, key, la, lb, f)
<1> DEFINE X == (0 .. la) \X (0 .. lb)
           S(f, i, j) == ScriptsAt(a, b, key, f, <<i, j>>)
           Sol(k, f) == \A i \in 0 .. la : \A j \in 0 .. lb : i + j <= k => f[<<i, j>>] = S(f, i, j)
           T == {k \in Nat : \E f : Sol(k, f)}
<1>1. 0 \in T
  <2> DEFINE f == [p \in X |-> {<<>>}]
  <2>1. Sol(0, f)
    <3> SUFFICES ASSUME NEW i \in 0 .. la, NEW j \in 0 .. lb, i + j <= 0
                 PROVE  f[<<i, j>>] = S(f, i, j)
      OBVIOUS
    <3>1. i = 0 /\ j = 0 /\ <<i, j>> \in X
      OBVIOUS
    <3>2. f[<<i, j>>] = {<<>>}
      BY <3>1
    <3>3. <<i, j>>[1] = 0 /\ <<i, j>>[2] = 0
      BY <3>1
    <3>4. S(f, i, j) = {<<>>}
      BY <3>3 DEF ScriptsAt
    <3> QED
      BY <3>2, <3>4
  <2> HIDE DEF Sol, f
  <2> QED
    BY <2>1
<1>2. ASSUME NEW k \in Nat, k \in T PROVE k + 1 \in T
  <2>1. PICK f : Sol(k, f)
    BY <1>2
  <2> DEFINE g == [p \in X |-> IF p[1] + p[2] <= k THEN f[p] ELSE ScriptsAt(a, b, key, f, p)]
  <2>2. ASSUME NEW i \in 0 .. la, NEW j \in 0 .. lb
        PROVE  g[<<i, j>>] = IF i + j <= k THEN f[<<i, j>>] ELSE S(f, i, j)
    <3>1. <<i, j>> \in X /\ <<i, j>>[1] = i /\ <<i, j>>[2] = j
      OBVIOUS
    <3> QED
      BY <3>1
  <2> HIDE DEF g
  <2>3. ASSUME NEW i \in 0 .. la, NEW j \in 0 .. lb, i + j <= k + 1
        PROVE  g[<<i, j>>] = S(g, i, j)
    <3>1. \A x \in 0 .. i : \A y \in 0 .. j : x + y < i + j => f[<<x, y>>] = g[<<x, y>>]
      <4> SUFFICES ASSUME NEW x \in 0 .. i, NEW y \in 0 .. j, x + y < i + j
                   PROVE  f[<<x, y>>] = g[<<x, y>>]
        OBVIOUS
      <4>1. x \in 0 .. la /\ y \in 0 .. lb /\ x + y <= k
        BY <2>3
      <4> QED
        BY <2>2, <4>1
    <3>2. i \in Nat /\ j \in Nat
      OBVIOUS
    <3>3. S(f, i, j) = S(g, i, j)
      <4> HIDE DEF X
      <4> QED
        BY <3>1, <3>2, ScriptsSame
    <3>4. CASE i + j <= k
      BY <2>1, <2>2, <3>3, <3>4
    <3>5. CASE ~(i + j <= k)
      BY <2>2, <3>3, <3>5
    <3> QED
      BY <3>4, <3>5
  <2>4. Sol(k + 1, g)
    BY <2>3
  <2>5. k + 1 \in Nat
    OBVIOUS
  <2> HIDE DEF Sol
  <2> QED
    BY <2>4, <2>5
<1>3. la + lb \in T
  <2> DEFINE k == la + lb
  <2>1. k \in Nat
    OBVIOUS
  <2> HIDE DEF k, T
  <2>2. \A i \in 0 .. k - 1 : i \in T => i + 1 \in T
    BY <1>2, <2>1
  <2>3. \A i \in 0 .. k : i \in T
    BY <1>1, <2>1, <2>2, UpTo
  <2>4. k \in 0 .. k
    BY <2>1
  <2> QED
    BY <2>3, <2>4 DEF k
<1>4. PICK f : Sol(la + lb, f)
  BY <1>3
<1> DEFINE h == [p \in X |-> f[p]]
<1>5. ASSUME NEW p \in X PROVE h[p] = ScriptsAt(a, b, key, h, p)
  <2>1. PICK i \in 0 .. la, j \in 0 .. lb : p = <<i, j>>
    OBVIOUS
  <2>2. h[p] = S(f, i, j)
    <3>1. i + j <= la + lb
      OBVIOUS
    <3> QED
      BY <1>4, <2>1, <3>1
  <2>3. \A x \in 0 .. i : \A y \in 0 .. j : x + y < i + j => f[<<x, y>>] = h[<<x, y>>]
    <3> SUFFICES ASSUME NEW x \in 0 .. i, NEW y \in 0 .. j PROVE f[<<x, y>>] = h[<<x, y>>]
      OBVIOUS
    <3>1. <<x, y>> \in X
      OBVIOUS
    <3> QED
      BY <3>1
  <2>4. i \in Nat /\ j \in Nat
    OBVIOUS
  <2> HIDE DEF h
  <2>5. S(f, i, j) = S(h, i, j)
    <3> HIDE DEF X
    <3> QED
      BY <2>3, <2>4, ScriptsSame
  <2> QED
    BY <2>1, <2>2, <2>5
<1>6. h = [p \in X |-> ScriptsAt(a, b, key, h, p)]
  <2>1. h = [p \in X |-> h[p]]
    OBVIOUS
  <2> HIDE DEF h, X
  <2> QED
    BY <1>5, <2>1
<1>7. AllScripts(a, b, key, la, lb, h)
  BY <1>6 DEF AllScripts
<1> QED
  BY <1>7

\* There are scripts for all lengths, and those for all of both are the shortest.
LEMMA ShortestIs ==
  ASSUME NEW a, NEW b, NEW key, Len(a) \in Nat, Len(b) \in Nat
  PROVE  \E f : /\ AllScripts(a, b, key, Len(a), Len(b), f)
                /\ Shortest(a, b, key) = f[<<Len(a), Len(b)>>]
<1> DEFINE f == CHOOSE g : AllScripts(a, b, key, Len(a), Len(b), g)
<1>1. Shortest(a, b, key) = f[<<Len(a), Len(b)>>]
  BY Zenon DEF Shortest, ScriptsAt, AllScripts
<1>2. \E g : AllScripts(a, b, key, Len(a), Len(b), g)
  BY ScriptsExist
<1>3. AllScripts(a, b, key, Len(a), Len(b), f)
  BY <1>2
<1> HIDE DEF f
<1> QED
  BY <1>1, <1>3

-------------------------------------------------------------------------------
(***************************************************************************)
(* What a script says: without what it deletes or without what it adds.    *)
(***************************************************************************)

\* The tokens and the operations on them.
WordsOnly == Symbols \ {NoWord, Space}

Toks == [word : WordsOnly, head : BOOLEAN, tail : BOOLEAN]

Ops == [type : {"delete", "add", "common"}, e : Toks]

\* The words that are not of a kind.
Says(kind) == [op \in Ops |-> IF op.type = kind THEN <<>> ELSE <<op.e.word>>]

Said(a, i) == [k \in 1 .. i |-> a[k].word]

\* An operation says one word at most.
LEMMA SaysType ==
  ASSUME NEW kind PROVE Lists(Says(kind), Ops, WordsOnly)
<1>1. ASSUME NEW op \in Ops
      PROVE  (IF op.type = kind THEN <<>> ELSE <<op.e.word>>) \in Seq(WordsOnly)
  <2> DEFINE x == op.e.word
             W == WordsOnly
  <2>1. x \in W
    BY DEF Ops, Toks
  <2> HIDE DEF x, W
  <2>2. <<x>> \in Seq(W) /\ <<>> \in Seq(W)
    BY <2>1, EmptySeq
  <2> QED
    BY <2>2 DEF x, W
<1> QED
  BY <1>1 DEF Says, Lists

\* One word more of a text.
LEMMA SaidMore ==
  ASSUME NEW a \in Seq(Toks), NEW i \in 1 .. Len(a)
  PROVE  /\ Said(a, i - 1) \in Seq(WordsOnly) /\ a[i] \in Toks
         /\ Said(a, i) = Said(a, i - 1) \o <<a[i].word>>
<1> DEFINE W == WordsOnly
           x == a[i].word
           s == Said(a, i - 1)
           r == Said(a, i)
<1>1. Len(a) \in Nat /\ \A k \in 1 .. Len(a) : a[k] \in Toks /\ a[k].word \in W
  <2>1. Len(a) \in Nat /\ \A k \in 1 .. Len(a) : a[k] \in Toks
    BY LenProperties, ElementOfSeq
  <2> QED
    BY <2>1 DEF Toks
<1>2. s \in [1 .. i - 1 -> W] /\ r \in [1 .. i -> W]
  BY <1>1 DEF Said
<1>3. x \in W /\ a[i] \in Toks
  BY <1>1
<1>4. /\ \A k \in 1 .. i - 1 : s[k] = a[k].word
      /\ \A k \in 1 .. i : r[k] = a[k].word
  BY DEF Said
<1> HIDE DEF W, s, r, x
<1>5. s \in Seq(W) /\ Len(s) = i - 1
  <2>1. i - 1 \in Nat
    BY <1>1
  <2> QED
    BY <1>2, <2>1, SeqDef
<1>6. r \in Seq(W) /\ Len(r) = i
  <2>1. i \in Nat
    BY <1>1
  <2> QED
    BY <1>2, <2>1, SeqDef
<1>7. Append(s, x) \in Seq(W) /\ Len(Append(s, x)) = i
      /\ \A k \in 1 .. i - 1 : Append(s, x)[k] = s[k]
      /\ Append(s, x)[i] = x
  BY <1>1, <1>3, <1>5, AppendProperties
<1>8. \A k \in 1 .. Len(r) : r[k] = Append(s, x)[k]
  <2> SUFFICES ASSUME NEW k \in 1 .. i PROVE r[k] = Append(s, x)[k]
    BY <1>6
  <2>1. CASE k = i
    BY <1>4, <1>7, <2>1 DEF x
  <2>2. CASE k # i
    <3>1. k \in 1 .. i - 1
      BY <2>2
    <3> QED
      BY <1>4, <1>7, <3>1
  <2> QED
    BY <2>1, <2>2
<1>9. r = Append(s, x)
  BY <1>6, <1>7, <1>8, SeqEqual
<1>10. Append(s, x) = s \o <<x>>
  BY <1>3, <1>5, AppendIsConcat
<1> QED
  BY <1>3, <1>5, <1>9, <1>10 DEF W, s, r, x

\* The script goes from the first i of a to the first j of b.
Leads(s, a, b, i, j) ==
  /\ s \in Seq(Ops)
  /\ Over(Says("add"), s) = Said(a, i)
  /\ Over(Says("delete"), s) = Said(b, j)

\* One operation more says a word more, unless it is of the kind left out.
LEMMA SaysMore ==
  ASSUME NEW s \in Seq(Ops), NEW op \in Ops, NEW kind
  PROVE  /\ Append(s, op) \in Seq(Ops)
         /\ Over(Says(kind), Append(s, op))
              = Over(Says(kind), s) \o (IF op.type = kind THEN <<>> ELSE <<op.e.word>>)
         /\ Over(Says(kind), s) \in Seq(WordsOnly)
<1> DEFINE O == Ops
           W == WordsOnly
           g == Says(kind)
           x == <<op>>
<1>1. g[op] = IF op.type = kind THEN <<>> ELSE <<op.e.word>>
  BY DEF Says
<1>2. Lists(g, O, W) /\ op \in O /\ s \in Seq(O)
  BY SaysType
<1> HIDE DEF O, W, g
<1>3. Append(s, op) = s \o x /\ Append(s, op) \in Seq(O)
  BY <1>2, AppendIsConcat, AppendProperties
<1>4. x \in Seq(O)
  BY <1>2
<1>5. Over(g, x) = g[op]
  BY <1>2, OverSingle
<1> HIDE DEF x
<1>6. Over(g, s \o x) = Over(g, s) \o Over(g, x)
  BY <1>2, <1>4, OverConcat
<1>7. Over(g, s) \in Seq(W)
  BY <1>2, OverSeq
<1> QED
  BY <1>1, <1>3, <1>5, <1>6, <1>7 DEF O, W, g

\* One operation more leads a word further on a side, or on both.
LEMMA LeadsOn ==
  ASSUME NEW a \in Seq(Toks), NEW b \in Seq(Toks), NEW s,
         NEW i \in 0 .. Len(a), NEW j \in 0 .. Len(b)
  PROVE  /\ i # 0 /\ Leads(s, a, b, i - 1, j) => Leads(Append(s, Op("delete", a[i])), a, b, i, j)
         /\ j # 0 /\ Leads(s, a, b, i, j - 1) => Leads(Append(s, Op("add", b[j])), a, b, i, j)
         /\ i # 0 /\ j # 0 /\ a[i].word = b[j].word /\ Leads(s, a, b, i - 1, j - 1)
              => Leads(Append(s, Op("common", a[i])), a, b, i, j)
<1>0. Len(a) \in Nat /\ Len(b) \in Nat
  BY LenProperties
<1>1. i # 0 => /\ a[i] \in Toks /\ Said(a, i) = Said(a, i - 1) \o <<a[i].word>>
               /\ Said(a, i - 1) \in Seq(WordsOnly)
  <2> SUFFICES ASSUME i # 0
               PROVE  /\ a[i] \in Toks /\ Said(a, i) = Said(a, i - 1) \o <<a[i].word>>
                      /\ Said(a, i - 1) \in Seq(WordsOnly)
    OBVIOUS
  <2>1. i \in 1 .. Len(a)
    BY <1>0
  <2> QED
    BY <2>1, SaidMore
<1>2. j # 0 => /\ b[j] \in Toks /\ Said(b, j) = Said(b, j - 1) \o <<b[j].word>>
               /\ Said(b, j - 1) \in Seq(WordsOnly)
  <2> SUFFICES ASSUME j # 0
               PROVE  /\ b[j] \in Toks /\ Said(b, j) = Said(b, j - 1) \o <<b[j].word>>
                      /\ Said(b, j - 1) \in Seq(WordsOnly)
    OBVIOUS
  <2>1. j \in 1 .. Len(b)
    BY <1>0
  <2> QED
    BY <2>1, SaidMore
<1>3. ASSUME NEW r \in Seq(WordsOnly) PROVE r \o <<>> = r
  <2> DEFINE W == WordsOnly
  <2> HIDE DEF W
  <2>1. r \in Seq(W)
    BY <1>3 DEF W
  <2> QED
    BY <2>1, ConcatEmptySeq
<1>4. ASSUME NEW kind, NEW op \in Ops, s \in Seq(Ops)
      PROVE  /\ Append(s, op) \in Seq(Ops)
             /\ op.type = kind => Over(Says(kind), Append(s, op)) = Over(Says(kind), s)
             /\ op.type # kind =>
                  Over(Says(kind), Append(s, op)) = Over(Says(kind), s) \o <<op.e.word>>
  <2>1. /\ Append(s, op) \in Seq(Ops)
        /\ Over(Says(kind), Append(s, op))
             = Over(Says(kind), s) \o (IF op.type = kind THEN <<>> ELSE <<op.e.word>>)
        /\ Over(Says(kind), s) \in Seq(WordsOnly)
    BY <1>4, SaysMore
  <2>2. Over(Says(kind), s) \o <<>> = Over(Says(kind), s)
    BY <1>3, <2>1
  <2> QED
    BY <2>1, <2>2
<1>5. ASSUME i # 0, Leads(s, a, b, i - 1, j)
      PROVE  Leads(Append(s, Op("delete", a[i])), a, b, i, j)
  <2> DEFINE op == Op("delete", a[i])
  <2>1. op \in Ops /\ op.type = "delete" /\ op.e = a[i]
    BY <1>1, <1>5 DEF Op, Ops
  <2> HIDE DEF op
  <2>2. s \in Seq(Ops)
    BY <1>5 DEF Leads
  <2>3. /\ Append(s, op) \in Seq(Ops)
        /\ Over(Says("delete"), Append(s, op)) = Over(Says("delete"), s)
        /\ Over(Says("add"), Append(s, op)) = Over(Says("add"), s) \o <<op.e.word>>
    BY <1>4, <2>1, <2>2
  <2> QED
    BY <1>1, <1>5, <2>1, <2>3 DEF Leads, op
<1>6. ASSUME j # 0, Leads(s, a, b, i, j - 1)
      PROVE  Leads(Append(s, Op("add", b[j])), a, b, i, j)
  <2> DEFINE op == Op("add", b[j])
  <2>1. op \in Ops /\ op.type = "add" /\ op.e = b[j]
    BY <1>2, <1>6 DEF Op, Ops
  <2> HIDE DEF op
  <2>2. s \in Seq(Ops)
    BY <1>6 DEF Leads
  <2>3. /\ Append(s, op) \in Seq(Ops)
        /\ Over(Says("add"), Append(s, op)) = Over(Says("add"), s)
        /\ Over(Says("delete"), Append(s, op)) = Over(Says("delete"), s) \o <<op.e.word>>
    BY <1>4, <2>1, <2>2
  <2> QED
    BY <1>2, <1>6, <2>1, <2>3 DEF Leads, op
<1>7. ASSUME i # 0, j # 0, a[i].word = b[j].word, Leads(s, a, b, i - 1, j - 1)
      PROVE  Leads(Append(s, Op("common", a[i])), a, b, i, j)
  <2> DEFINE op == Op("common", a[i])
  <2>1. op \in Ops /\ op.type = "common" /\ op.e = a[i]
    BY <1>1, <1>7 DEF Op, Ops
  <2> HIDE DEF op
  <2>2. s \in Seq(Ops)
    BY <1>7 DEF Leads
  <2>3. /\ Append(s, op) \in Seq(Ops)
        /\ Over(Says("add"), Append(s, op)) = Over(Says("add"), s) \o <<op.e.word>>
        /\ Over(Says("delete"), Append(s, op)) = Over(Says("delete"), s) \o <<op.e.word>>
    BY <1>4, <2>1, <2>2
  <2> QED
    BY <1>1, <1>2, <1>7, <2>1, <2>3 DEF Leads, op
<1> QED
  BY <1>5, <1>6, <1>7

\* A shortest script goes from all of a to all of b.
LEMMA ShortestLeads ==
  ASSUME NEW a \in Seq(Toks), NEW b \in Seq(Toks), NEW key,
         \A x \in 1 .. Len(a) : \A y \in 1 .. Len(b) :
           key[a[x]] = key[b[y]] => a[x].word = b[y].word,
         NEW s \in Shortest(a, b, key)
  PROVE  Leads(s, a, b, Len(a), Len(b))
<1> DEFINE la == Len(a)
           lb == Len(b)
<1>0. la \in Nat /\ lb \in Nat
  BY LenProperties
<1>1. PICK f : AllScripts(a, b, key, la, lb, f) /\ Shortest(a, b, key) = f[<<la, lb>>]
  BY <1>0, ShortestIs
<1> DEFINE Good(i, j) == \A r \in f[<<i, j>>] : Leads(r, a, b, i, j)
           T == {k \in Nat : \E i \in 0 .. la : \E j \in 0 .. lb : i + j = k /\ ~Good(i, j)}
<1>2. T = {}
  <2> SUFFICES ASSUME T # {} PROVE FALSE
    OBVIOUS
  <2>1. PICK k \in T : \A x \in T : k <= x
    <3>1. T \in SUBSET Nat
      OBVIOUS
    <3> HIDE DEF T
    <3> QED
      BY <3>1, LeastOf
  <2>2. PICK i \in 0 .. la, j \in 0 .. lb : i + j = k /\ ~Good(i, j)
    OBVIOUS
  <2>3. ASSUME NEW x \in 0 .. la, NEW y \in 0 .. lb, x + y < k PROVE Good(x, y)
    <3>1. x + y \in Nat /\ ~(k <= x + y) /\ k \in Nat
      BY <1>0, <2>3
    <3>2. x + y \notin T
      BY <2>1, <3>1
    <3> HIDE DEF Good
    <3> QED
      BY <3>1, <3>2
  <2>4. PICK r \in f[<<i, j>>] : ~Leads(r, a, b, i, j)
    BY <2>2
  <2>5. f[<<i, j>>] = ScriptsAt(a, b, key, f, <<i, j>>)
    <3>1. <<i, j>> \in (0 .. la) \X (0 .. lb)
      OBVIOUS
    <3> QED
      BY <1>1, <3>1 DEF AllScripts
  <2> DEFINE D == IF i = 0 THEN {} ELSE Longer(f[<<i - 1, j>>], Op("delete", a[i]))
             A == IF j = 0 THEN {} ELSE Longer(f[<<i, j - 1>>], Op("add", b[j]))
             C == IF i = 0 \/ j = 0 \/ key[a[i]] # key[b[j]] THEN {}
                  ELSE Longer(f[<<i - 1, j - 1>>], Op("common", a[i]))
  <2>6. f[<<i, j>>] = IF i = 0 /\ j = 0 THEN {<<>>} ELSE Shorter(D \cup A \cup C)
    <3>1. <<i, j>>[1] = i /\ <<i, j>>[2] = j
      OBVIOUS
    <3> QED
      BY <2>5, <3>1, Zenon DEF ScriptsAt
  <2> HIDE DEF T, Good
  <2>7. CASE i = 0 /\ j = 0
    <3>1. r = <<>>
      BY <2>4, <2>6, <2>7
    <3>2. Said(a, 0) = <<>> /\ Said(b, 0) = <<>>
      BY DEF Said
    <3>3. <<>> \in Seq(Ops) /\ Over(Says("add"), <<>>) = <<>> /\ Over(Says("delete"), <<>>) = <<>>
      BY EmptySeq, OverEmpty
    <3> QED
      BY <2>4, <2>7, <3>1, <3>2, <3>3 DEF Leads
  <2>8. CASE ~(i = 0 /\ j = 0)
    <3>1. r \in D \cup A \cup C
      BY <2>4, <2>6, <2>8 DEF Shorter
    <3>2. i \in Int /\ j \in Int /\ la \in Int /\ lb \in Int /\ i + j = k
      BY <1>0, <2>2
    <3> HIDE DEF la, lb
    <3>3. CASE r \in D
      <4>1. i # 0 /\ \E q \in f[<<i - 1, j>>] : r = Append(q, Op("delete", a[i]))
        BY <3>3 DEF Longer
      <4>2. Good(i - 1, j)
        <5>1. i - 1 \in 0 .. la /\ (i - 1) + j < k
          BY <3>2, <4>1
        <5> QED
          BY <2>3, <5>1
      <4>3. PICK q : Leads(q, a, b, i - 1, j) /\ r = Append(q, Op("delete", a[i]))
        BY <4>1, <4>2 DEF Good
      <4> QED
        BY <2>4, <4>1, <4>3, LeadsOn DEF la, lb
    <3>4. CASE r \in A
      <4>1. j # 0 /\ \E q \in f[<<i, j - 1>>] : r = Append(q, Op("add", b[j]))
        BY <3>4 DEF Longer
      <4>2. Good(i, j - 1)
        <5>1. j - 1 \in 0 .. lb /\ i + (j - 1) < k
          BY <3>2, <4>1
        <5> QED
          BY <2>3, <5>1
      <4>3. PICK q : Leads(q, a, b, i, j - 1) /\ r = Append(q, Op("add", b[j]))
        BY <4>1, <4>2 DEF Good
      <4> QED
        BY <2>4, <4>1, <4>3, LeadsOn DEF la, lb
    <3>5. CASE r \in C
      <4>1. /\ i # 0 /\ j # 0 /\ key[a[i]] = key[b[j]]
            /\ \E q \in f[<<i - 1, j - 1>>] : r = Append(q, Op("common", a[i]))
        BY <3>5 DEF Longer
      <4>2. Good(i - 1, j - 1)
        <5>1. i - 1 \in 0 .. la /\ j - 1 \in 0 .. lb /\ (i - 1) + (j - 1) < k
          BY <3>2, <4>1
        <5> QED
          BY <2>3, <5>1
      <4>3. PICK q : Leads(q, a, b, i - 1, j - 1) /\ r = Append(q, Op("common", a[i]))
        BY <4>1, <4>2 DEF Good
      <4>4. a[i].word = b[j].word
        <5>1. i \in 1 .. Len(a) /\ j \in 1 .. Len(b)
          BY <3>2, <4>1 DEF la, lb
        <5> QED
          BY <4>1, <5>1
      <4> QED
        BY <2>4, <4>1, <4>3, <4>4, LeadsOn DEF la, lb
    <3> QED
      BY <3>1, <3>3, <3>4, <3>5
  <2> QED
    BY <2>7, <2>8
<1>3. Good(la, lb)
  <2>1. la + lb \in Nat /\ la \in 0 .. la /\ lb \in 0 .. lb
    BY <1>0
  <2> HIDE DEF Good, la, lb
  <2> QED
    BY <1>2, <2>1
<1> QED
  BY <1>1, <1>3

\* The sequences of one element each of a sequence, one after the other, are the sequence.
LEMMA FlatOnes ==
  ASSUME NEW S, NEW x \in Seq(S)
  PROVE  Seqs!FlattenSeq([k \in DOMAIN x |-> <<x[k]>>]) = x
<1> DEFINE Ones(s) == [k \in DOMAIN s |-> <<s[k]>>]
           G == {s \in Seq(S) : Ones(s) \in Seq(Seq(S)) /\ Seqs!FlattenSeq(Ones(s)) = s}
<1>1. <<>> \in G
  <2>1. Ones(<<>>) = <<>>
    OBVIOUS
  <2> HIDE DEF Ones
  <2> QED
    BY <2>1, FlatEmpty, EmptySeq
<1>2. ASSUME NEW r \in Seq(S), NEW v \in S, r \in G PROVE Append(r, v) \in G
  <2> DEFINE q == Append(r, v)
             y == <<v>>
  <2>1. Len(r) \in Nat /\ DOMAIN r = 1 .. Len(r)
    BY LenProperties
  <2>2. /\ q \in Seq(S) /\ Len(q) = Len(r) + 1 /\ q[Len(r) + 1] = v
        /\ \A k \in 1 .. Len(r) : q[k] = r[k]
    BY <2>1, AppendProperties
  <2>3. DOMAIN q = 1 .. Len(r) + 1
    <3> HIDE DEF q
    <3> QED
      BY <2>2, LenProperties
  <2>4. Ones(r) \in Seq(Seq(S)) /\ Seqs!FlattenSeq(Ones(r)) = r
    BY <1>2
  <2>5. DOMAIN Ones(r) = 1 .. Len(r)
    BY <2>1
  <2>6. Len(Ones(r)) = Len(r)
    <3> DEFINE o == Ones(r)
    <3> HIDE DEF o
    <3>1. o \in Seq(Seq(S)) /\ DOMAIN o = 1 .. Len(r)
      BY <2>4, <2>5 DEF o
    <3>2. Len(o) \in Nat /\ DOMAIN o = 1 .. Len(o)
      BY <3>1, LenProperties
    <3> QED
      BY <2>1, <3>1, <3>2 DEF o
  <2>7. y \in Seq(S)
    OBVIOUS
  <2>8. Ones(q) = Append(Ones(r), y)
    <3> DEFINE E == Seq(S)
               o == Ones(r)
    <3> HIDE DEF E, o, y
    <3>1. o \in Seq(E) /\ y \in E /\ Len(o) = Len(r)
      BY <2>4, <2>6, <2>7 DEF E, o
    <3>2. /\ Append(o, y) \in Seq(E) /\ Len(Append(o, y)) = Len(r) + 1
          /\ Append(o, y)[Len(r) + 1] = y
          /\ \A k \in 1 .. Len(r) : Append(o, y)[k] = o[k]
      BY <3>1, AppendProperties
    <3>3. DOMAIN Append(o, y) = 1 .. Len(r) + 1
      BY <3>2, LenProperties
    <3>4. Append(o, y) = [k \in 1 .. Len(r) + 1 |-> Append(o, y)[k]]
      <4> DEFINE ap == Append(o, y)
      <4>1. ap \in Seq(E) /\ DOMAIN ap = 1 .. Len(r) + 1
        BY <3>2, <3>3
      <4> HIDE DEF ap
      <4>2. ap = [k \in DOMAIN ap |-> ap[k]]
        BY <4>1, LenProperties
      <4> QED
        BY <4>1, <4>2 DEF ap
    <3>5. \A k \in 1 .. Len(r) + 1 : Append(o, y)[k] = <<q[k]>>
      <4> SUFFICES ASSUME NEW k \in 1 .. Len(r) + 1 PROVE Append(o, y)[k] = <<q[k]>>
        OBVIOUS
      <4> HIDE DEF q
      <4>1. CASE k = Len(r) + 1
        BY <2>2, <3>2, <4>1 DEF y
      <4>2. CASE k # Len(r) + 1
        <5>1. k \in 1 .. Len(r)
          BY <2>1, <4>2
        <5>2. o[k] = <<r[k]>>
          BY <2>1, <5>1 DEF o
        <5> QED
          BY <2>2, <3>2, <5>1, <5>2
      <4> QED
        BY <4>1, <4>2
    <3> HIDE DEF q
    <3>6. Append(o, y) = [k \in 1 .. Len(r) + 1 |-> <<q[k]>>]
      BY <3>4, <3>5
    <3> QED
      BY <2>3, <3>6 DEF o
  <2>9. Seqs!FlattenSeq(Append(Ones(r), y)) = r \o y /\ Append(Ones(r), y) \in Seq(Seq(S))
    <3> DEFINE o == Ones(r)
    <3> HIDE DEF o, y
    <3>1. o \in Seq(Seq(S)) /\ y \in Seq(S) /\ Seqs!FlattenSeq(o) = r
      BY <2>4, <2>7 DEF o
    <3>2. Seqs!FlattenSeq(Append(o, y)) = r \o y
      BY <3>1, FlatAppend
    <3>3. Append(o, y) \in Seq(Seq(S))
      BY <3>1, AppendProperties
    <3> QED
      BY <3>2, <3>3 DEF o
  <2>10. r \o y = q
    BY AppendIsConcat
  <2> HIDE DEF Ones, q, y
  <2> QED
    BY <2>2, <2>8, <2>9, <2>10 DEF q
<1> HIDE DEF G
<1>3. \A s \in Seq(S) : s \in G
  BY <1>1, <1>2, ByAppending
<1> QED
  BY <1>3 DEF G

\* A sequence of a list each over a sequence of lists.
LEMMA OverOver ==
  ASSUME NEW D, NEW E, NEW S, NEW g, NEW h, Lists(g, D, E), Lists(h, E, S), NEW s \in Seq(D)
  PROVE  /\ Over(h, Over(g, s)) = Over([d \in D |-> Over(h, g[d])], s)
         /\ Lists([d \in D |-> Over(h, g[d])], D, S)
<1> DEFINE ss == [k \in DOMAIN s |-> g[s[k]]]
           gh == [d \in D |-> Over(h, g[d])]
<1>1. ss \in Seq(Seq(E)) /\ Len(ss) = Len(s) /\ DOMAIN s = 1 .. Len(s)
  BY OverSeq
<1>2. \A k \in DOMAIN s : s[k] \in D
  BY <1>1, ElementOfSeq
<1>3. DOMAIN ss = DOMAIN s /\ \A k \in DOMAIN s : ss[k] = g[s[k]]
  OBVIOUS
<1>4. Over(g, s) = Seqs!FlattenSeq(ss)
  BY DEF Over
<1> HIDE DEF ss
<1>5. Over(h, Seqs!FlattenSeq(ss)) = Seqs!FlattenSeq([i \in DOMAIN ss |-> Over(h, ss[i])])
  BY <1>1, OverFlat
<1>6. [i \in DOMAIN ss |-> Over(h, ss[i])] = [k \in DOMAIN s |-> gh[s[k]]]
  BY <1>2, <1>3
<1>7. ASSUME NEW d \in D PROVE Over(h, g[d]) \in Seq(S)
  <2>1. g[d] \in Seq(E)
    BY DEF Lists
  <2> QED
    BY <2>1, OverSeq
<1>8. Lists(gh, D, S)
  BY <1>7 DEF Lists
<1> QED
  BY <1>4, <1>5, <1>6, <1>8 DEF Over

\* The tokens of a text have its words.
LEMMA TokensSay ==
  ASSUME NEW text \in Seq(Symbols \ {NoWord})
  PROVE  /\ Tokens(text) \in Seq(Toks)
         /\ Said(Tokens(text), Len(Tokens(text))) = Words(text)
         /\ Words(text) \in Seq(WordsOnly)
<1> DEFINE W == WordsOnly
           D == {i \in DOMAIN text : text[i] # Space}
           ats == [i \in DOMAIN text |-> IF text[i] = Space THEN <<>> ELSE <<i>>]
           at == Seqs!FlattenSeq(ats)
           h == [i \in D |-> <<text[i]>>]
           tk == Tokens(text)
<1>1. DOMAIN text = 1 .. Len(text) /\ Len(text) \in Nat
      /\ \A i \in 1 .. Len(text) : text[i] \in Symbols \ {NoWord}
  BY LenProperties, ElementOfSeq
<1>2. \A i \in D : text[i] \in W
  BY <1>1 DEF WordsOnly
<1>3. Lists(h, D, W)
  <2>1. \A i \in D : <<text[i]>> \in Seq(W)
    <3> SUFFICES ASSUME NEW i \in D PROVE <<text[i]>> \in Seq(W)
      OBVIOUS
    <3> DEFINE x == text[i]
    <3>1. x \in W
      BY <1>2
    <3> HIDE DEF x, W
    <3>2. <<x>> \in Seq(W)
      BY <3>1
    <3> QED
      BY <3>2 DEF x
  <2> HIDE DEF D, W
  <2> QED
    BY <2>1 DEF Lists
<1>4. ats \in Seq(Seq(D)) /\ Len(ats) = Len(text) /\ DOMAIN ats = DOMAIN text
  <2>1. ASSUME NEW i \in DOMAIN text
        PROVE  (IF text[i] = Space THEN <<>> ELSE <<i>>) \in Seq(D)
    <3>1. CASE text[i] = Space
      BY <3>1, EmptySeq
    <3>2. CASE text[i] # Space
      <4>1. i \in D
        BY <3>2
      <4> HIDE DEF D
      <4>2. <<i>> \in Seq(D)
        BY <4>1
      <4> QED
        BY <3>2, <4>2
    <3> QED
      BY <3>1, <3>2
  <2> DEFINE E == Seq(D)
  <2>2. ats \in [1 .. Len(text) -> E]
    <3>1. \A i \in DOMAIN text : (IF text[i] = Space THEN <<>> ELSE <<i>>) \in E
      BY <2>1
    <3> HIDE DEF E
    <3> QED
      BY <1>1, <3>1
  <2>3. DOMAIN ats = DOMAIN text
    OBVIOUS
  <2> HIDE DEF ats, E
  <2>4. ats \in Seq(E) /\ Len(ats) = Len(text)
    BY <1>1, <2>2, SeqDef
  <2> QED
    BY <2>3, <2>4 DEF E
<1>5. at \in Seq(D)
  <2> HIDE DEF ats, D
  <2> QED
    BY <1>4, FlatType
<1>6. Over(h, at) = Words(text)
  <2>1. Over(h, at) = Seqs!FlattenSeq([i \in DOMAIN ats |-> Over(h, ats[i])])
    <3> HIDE DEF ats, D, h, W
    <3>1. ats \in Seq(Seq(D))
      BY <1>4
    <3> QED
      BY <1>3, <3>1, OverFlat
  <2>2. \A i \in DOMAIN text : Over(h, ats[i]) = IF text[i] = Space THEN <<>> ELSE <<text[i]>>
    <3> SUFFICES ASSUME NEW i \in DOMAIN text
                 PROVE  Over(h, ats[i]) = IF text[i] = Space THEN <<>> ELSE <<text[i]>>
      OBVIOUS
    <3>1. CASE text[i] = Space
      <4>1. ats[i] = <<>>
        BY <3>1
      <4> QED
        BY <3>1, <4>1, OverEmpty
    <3>2. CASE text[i] # Space
      <4>1. ats[i] = <<i>> /\ i \in D /\ h[i] = <<text[i]>>
        BY <3>2
      <4>2. Over(h, <<i>>) = h[i]
        <5> HIDE DEF h, D, W
        <5> QED
          BY <1>3, <4>1, OverSingle
      <4> QED
        BY <3>2, <4>1, <4>2
    <3> QED
      BY <3>1, <3>2
  <2>3. DOMAIN ats = DOMAIN text
    BY <1>4
  <2> HIDE DEF ats, h
  <2>4. [i \in DOMAIN ats |-> Over(h, ats[i])]
          = [i \in DOMAIN text |-> IF text[i] = Space THEN <<>> ELSE <<text[i]>>]
    BY <2>2, <2>3
  <2> QED
    BY <2>1, <2>4 DEF Words
<1>7. /\ DOMAIN at = 1 .. Len(at) /\ Len(at) \in Nat
      /\ \A k \in 1 .. Len(at) : at[k] \in D
  <2> HIDE DEF at, D
  <2> QED
    BY <1>5, LenProperties, ElementOfSeq
<1>8. /\ tk = [k \in DOMAIN at |->
                 [word |-> text[at[k]], head |-> k = 1 /\ at[1] > 1, tail |-> at[k] < Len(text)]]
  BY Zenon DEF Tokens
<1> HIDE DEF at, ats, tk
<1>9. \A k \in 1 .. Len(at) : tk[k] \in Toks /\ tk[k].word = text[at[k]]
  <2> SUFFICES ASSUME NEW k \in 1 .. Len(at)
               PROVE  tk[k] \in Toks /\ tk[k].word = text[at[k]]
    OBVIOUS
  <2>1. text[at[k]] \in WordsOnly
    BY <1>2, <1>7
  <2>2. tk[k] = [word |-> text[at[k]], head |-> k = 1 /\ at[1] > 1, tail |-> at[k] < Len(text)]
    BY <1>7, <1>8
  <2> HIDE DEF W
  <2> QED
    BY <2>1, <2>2 DEF Toks
<1>10. tk \in Seq(Toks) /\ Len(tk) = Len(at)
  <2>1. tk \in [1 .. Len(at) -> Toks]
    <3>1. DOMAIN tk = 1 .. Len(at) /\ tk = [k \in DOMAIN tk |-> tk[k]]
      BY <1>7, <1>8
    <3> QED
      BY <1>9, <3>1
  <2> QED
    BY <1>7, <2>1, SeqDef
<1> DEFINE x == Said(tk, Len(at))
<1>11. DOMAIN x = 1 .. Len(at) /\ \A k \in 1 .. Len(at) : x[k] = text[at[k]]
  BY <1>9 DEF Said
<1>12. x \in Seq(W) /\ Len(x) = Len(at)
  <2>1. x \in [1 .. Len(at) -> W]
    BY <1>2, <1>7, <1>9 DEF Said
  <2> HIDE DEF x, W
  <2> QED
    BY <1>7, <2>1, SeqDef
<1>13. Over(h, at) = Seqs!FlattenSeq([k \in DOMAIN x |-> <<x[k]>>])
  <2>1. [k \in DOMAIN at |-> h[at[k]]] = [k \in DOMAIN x |-> <<x[k]>>]
    <3>1. \A k \in 1 .. Len(at) : h[at[k]] = <<x[k]>>
      BY <1>7, <1>11
    <3> HIDE DEF h, x
    <3> QED
      BY <1>7, <1>11, <3>1
  <2> QED
    BY <2>1 DEF Over
<1>14. Over(h, at) = x
  <2> HIDE DEF x, W, h
  <2> QED
    BY <1>12, <1>13, FlatOnes
<1> QED
  BY <1>6, <1>10, <1>12, <1>14 DEF tk

\* The nodes of an operation under m0, for the texts o and n.
OpNodes(m0, op, o, n) ==
  LET chng == CASE op.type = "delete" -> "delete"
                [] op.type = "add"    -> "insert"
                [] op.type = "common" -> "none"
      from == IF op.type = "add" THEN None ELSE o
      to   == IF op.type = "delete" THEN None ELSE n
      sp   == <<Node(m0, "none", from, to, Space)>>
  IN  (IF op.e.head THEN sp ELSE <<>>)
      \o <<Node(m0, chng, from, to, op.e.word)>>
      \o (IF op.e.tail THEN sp ELSE <<>>)

\* The nodes there may be for the texts.
TextNodes(m0, o, n) ==
  {v \in [par : {m0}, chng : {"none", "delete", "insert"}, o : {o, None}, n : {n, None},
          word : WordsOnly \cup {Space}] :
     v.word # Space => /\ v.chng # "insert" => v.o = o
                       /\ v.chng # "delete" => v.n = n}

ScriptNodes(m0, o, n) == [op \in Ops |-> OpNodes(m0, op, o, n)]

\* The words of nodes that are not away, with their parent.
WordsHere(m0, o, n, away, p) ==
  [v \in TextNodes(m0, o, n) |->
     IF v.word = Space \/ v.chng = away THEN <<>> ELSE <<<<p, "word", v.word>>>>]

PutWord(p) == [w \in WordsOnly |-> <<<<p, "word", w>>>>]

\* What an operation adds: a word, with the white space around it.
OpIs(m0, op, o, n, v, sp, hd, tl) ==
  /\ v \in TextNodes(m0, o, n) /\ sp \in TextNodes(m0, o, n)
  /\ hd \in {<<>>, <<sp>>} /\ tl \in {<<>>, <<sp>>}
  /\ sp.word = Space
  /\ v.word = op.e.word /\ v.word # Space
  /\ v.chng = (CASE op.type = "delete" -> "delete"
                 [] op.type = "add"    -> "insert"
                 [] op.type = "common" -> "none")
  /\ OpNodes(m0, op, o, n) = hd \o <<v>> \o tl

\* The nodes of an operation.
LEMMA OpNodesAre ==
  ASSUME NEW m0, NEW o, NEW n, NEW op \in Ops
  PROVE  \E v, sp, hd, tl : OpIs(m0, op, o, n, v, sp, hd, tl)
<1> DEFINE chng == CASE op.type = "delete" -> "delete"
                     [] op.type = "add"    -> "insert"
                     [] op.type = "common" -> "none"
           from == IF op.type = "add" THEN None ELSE o
           to   == IF op.type = "delete" THEN None ELSE n
           sp   == Node(m0, "none", from, to, Space)
           v    == Node(m0, chng, from, to, op.e.word)
           hd   == IF op.e.head THEN <<sp>> ELSE <<>>
           tl   == IF op.e.tail THEN <<sp>> ELSE <<>>
<1>1. op.type \in {"delete", "add", "common"} /\ op.e.word \in WordsOnly /\ op.e.word # Space
  BY DEF Ops, Toks, WordsOnly
<1>2. chng \in {"none", "delete", "insert"} /\ from \in {o, None} /\ to \in {n, None}
      /\ (chng # "insert" => from = o) /\ (chng # "delete" => to = n)
  BY <1>1
<1> HIDE DEF chng, from, to
<1>3. v \in TextNodes(m0, o, n) /\ v.word = op.e.word /\ v.chng = chng
  BY <1>1, <1>2 DEF TextNodes, Node
<1>4. sp \in TextNodes(m0, o, n) /\ sp.word = Space
  BY <1>2 DEF TextNodes, Node
<1>5. OpNodes(m0, op, o, n) = hd \o <<v>> \o tl
  BY Zenon DEF OpNodes, chng, from, to
<1> HIDE DEF v, sp
<1>6. hd \in {<<>>, <<sp>>} /\ tl \in {<<>>, <<sp>>}
  OBVIOUS
<1> HIDE DEF hd, tl
<1>7. OpIs(m0, op, o, n, v, sp, hd, tl)
  BY <1>1, <1>3, <1>4, <1>5, <1>6 DEF OpIs, chng
<1> QED
  BY <1>7

\* A node of a text shows one word at most.
LEMMA WordsHereType ==
  ASSUME NEW m0, NEW o, NEW n, NEW away, NEW p
  PROVE  Lists(WordsHere(m0, o, n, away, p), TextNodes(m0, o, n),
               {<<p, "word", w>> : w \in WordsOnly})
<1> DEFINE A == {<<p, "word", w>> : w \in WordsOnly}
<1>1. ASSUME NEW v \in TextNodes(m0, o, n)
      PROVE  (IF v.word = Space \/ v.chng = away THEN <<>> ELSE <<<<p, "word", v.word>>>>) \in Seq(A)
  <2>1. CASE v.word = Space \/ v.chng = away
    BY <2>1, EmptySeq
  <2>2. CASE ~(v.word = Space \/ v.chng = away)
    <3> DEFINE x == <<p, "word", v.word>>
    <3>1. v.word \in WordsOnly
      BY <2>2 DEF TextNodes
    <3>2. x \in A
      BY <3>1
    <3> HIDE DEF x, A
    <3>3. <<x>> \in Seq(A)
      BY <3>2
    <3> QED
      BY <2>2, <3>3 DEF x
  <2> QED
    BY <2>1, <2>2
<1> QED
  BY <1>1 DEF WordsHere, Lists

\* The words an operation adds, without those that are away.
LEMMA OpWords ==
  ASSUME NEW m0, NEW o, NEW n, NEW op \in Ops, NEW p, NEW away, NEW kind,
         <<away, kind>> \in {<<"delete", "delete">>, <<"insert", "add">>}
  PROVE  /\ OpNodes(m0, op, o, n) \in Seq(TextNodes(m0, o, n))
         /\ Over(WordsHere(m0, o, n, away, p), OpNodes(m0, op, o, n)) = Over(PutWord(p), Says(kind)[op])
<1> DEFINE N == TextNodes(m0, o, n)
           g == WordsHere(m0, o, n, away, p)
           A == {<<p, "word", w>> : w \in WordsOnly}
<1>1. PICK v, sp, hd, tl : OpIs(m0, op, o, n, v, sp, hd, tl)
  BY OpNodesAre
<1>2. /\ v \in N /\ sp \in N
      /\ hd \in {<<>>, <<sp>>} /\ tl \in {<<>>, <<sp>>}
      /\ OpNodes(m0, op, o, n) = hd \o <<v>> \o tl
  BY <1>1 DEF OpIs
<1>3. Lists(g, N, A)
  BY WordsHereType
<1>4. op.type \in {"delete", "add", "common"} /\ op.e.word \in WordsOnly
  BY DEF Ops, Toks
<1>5. g[sp] = <<>> /\ g[v] = IF op.type = kind THEN <<>> ELSE <<<<p, "word", op.e.word>>>>
  BY <1>1, <1>4 DEF WordsHere, OpIs
<1> DEFINE y == <<v>>
<1> HIDE DEF N, g, A, y
<1>6. hd \in Seq(N) /\ tl \in Seq(N) /\ y \in Seq(N)
  <2>1. <<sp>> \in Seq(N) /\ <<>> \in Seq(N) /\ <<v>> \in Seq(N)
    BY <1>2, EmptySeq
  <2> QED
    BY <1>2, <2>1, Zenon DEF y
<1>7. Over(g, hd) = <<>> /\ Over(g, tl) = <<>> /\ Over(g, y) = g[v]
  <2>1. Over(g, <<sp>>) = g[sp] /\ Over(g, <<v>>) = g[v] /\ Over(g, <<>>) = <<>>
    BY <1>2, <1>3, OverSingle, OverEmpty
  <2> QED
    BY <1>2, <1>5, <2>1, Zenon DEF y
<1>8. hd \o y \in Seq(N) /\ (hd \o y) \o tl \in Seq(N)
  BY <1>6, ConcatProperties
<1>9. Over(g, hd \o y) = <<>> \o g[v]
  <2>1. Over(g, hd \o y) = Over(g, hd) \o Over(g, y)
    BY <1>3, <1>6, OverConcat
  <2> QED
    BY <1>7, <2>1
<1>10. Over(g, (hd \o y) \o tl) = (<<>> \o g[v]) \o <<>>
  <2> DEFINE z == hd \o y
  <2>1. z \in Seq(N) /\ Over(g, z) = <<>> \o g[v]
    BY <1>8, <1>9
  <2> HIDE DEF z
  <2>3. z \in Seq(N) /\ tl \in Seq(N)
    BY <1>6, <2>1
  <2>2. Over(g, z \o tl) = Over(g, z) \o Over(g, tl)
    BY <1>3, <2>3, OverConcat
  <2> QED
    BY <1>7, <2>1, <2>2 DEF z
<1>11. g[v] \in Seq(A)
  BY <1>2, <1>3 DEF Lists
<1>12. (<<>> \o g[v]) \o <<>> = g[v]
  BY <1>11, ConcatEmptySeq
<1>13. Over(PutWord(p), Says(kind)[op]) = g[v]
  <2>1. Says(kind)[op] = IF op.type = kind THEN <<>> ELSE <<op.e.word>>
    BY DEF Says
  <2>2. CASE op.type = kind
    BY <1>5, <2>1, <2>2, OverEmpty
  <2>3. CASE op.type # kind
    <3> DEFINE w == op.e.word
               q == PutWord(p)
    <3>1. Lists(q, WordsOnly, {<<p, "word", x>> : x \in WordsOnly})
      <4>1. ASSUME NEW x \in WordsOnly PROVE <<<<p, "word", x>>>> \in Seq(A)
        <5> DEFINE z == <<p, "word", x>>
        <5>1. z \in A
          BY DEF A
        <5> HIDE DEF z
        <5>2. <<z>> \in Seq(A)
          BY <5>1
        <5> QED
          BY <5>2 DEF z
      <4> QED
        BY <4>1 DEF Lists, PutWord, A
    <3>2. q[w] = <<<<p, "word", w>>>> /\ w \in WordsOnly
      BY <1>4 DEF PutWord
    <3> HIDE DEF q, w
    <3>3. Over(q, <<w>>) = q[w]
      BY <3>1, <3>2, OverSingle
    <3> QED
      BY <1>5, <2>1, <2>3, <3>2, <3>3 DEF q, w
  <2> QED
    BY <2>2, <2>3
<1>14. OpNodes(m0, op, o, n) = (hd \o y) \o tl
  BY <1>2 DEF y
<1> QED
  BY <1>8, <1>10, <1>12, <1>13, <1>14 DEF N, g
===============================================================================
