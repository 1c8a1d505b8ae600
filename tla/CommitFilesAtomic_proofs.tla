---------------------- MODULE CommitFilesAtomic_proofs ----------------------
(***************************************************************************)
(* Proofs about CommitFilesAtomic for any converges, files and number of   *)
(* faults and other commits.                                               *)
(***************************************************************************)
EXTENDS CommitFilesAtomic, TLAPS

\* Facts about prefixes of commits.
LEMMA PrefixFacts ==
  ASSUME NEW S, NEW s \in Seq(S), NEW t \in Seq(S)
  PROVE  /\ IsPrefix(s, s)
         /\ IsPrefix(s, t) <=> Len(s) <= Len(t) /\ \A i \in 1 .. Len(s) : s[i] = t[i]
<1>1. ASSUME Len(s) <= Len(t)
      PROVE  /\ SubSeq(t, 1, Len(s)) \in Seq(S) /\ Len(SubSeq(t, 1, Len(s))) = Len(s)
             /\ \A i \in 1 .. Len(s) : SubSeq(t, 1, Len(s))[i] = t[i]
  BY <1>1
<1>2. SubSeq(s, 1, Len(s)) = s
  OBVIOUS
<1>3. IsPrefix(s, t) <=> Len(s) <= Len(t) /\ s = SubSeq(t, 1, Len(s))
  BY <1>2 DEF IsPrefix
<1>4. ASSUME Len(s) <= Len(t), \A i \in 1 .. Len(s) : s[i] = t[i]
      PROVE  s = SubSeq(t, 1, Len(s))
  BY <1>1, <1>4
<1>5. ASSUME Len(s) <= Len(t), s = SubSeq(t, 1, Len(s))
      PROVE  \A i \in 1 .. Len(s) : s[i] = t[i]
  BY <1>1, <1>5
<1> QED
  BY <1>2, <1>3, <1>4, <1>5 DEF IsPrefix

LEMMA PrefixOfNext ==
  ASSUME NEW S, NEW s \in Seq(S), NEW x \in S
  PROVE  /\ Append(s, x) \in Seq(S) /\ Append(s, x) # <<>>
         /\ Len(Append(s, x)) = Len(s) + 1
         /\ Last(Append(s, x)) = x
         /\ IsPrefix(s, Append(s, x))
<1>1. Append(s, x) \in Seq(S) /\ Len(Append(s, x)) = Len(s) + 1
  OBVIOUS
<1>2. Append(s, x) # <<>> /\ Last(Append(s, x)) = x
  BY <1>1 DEF Last
<1>3. Len(s) <= Len(Append(s, x)) /\ \A i \in 1 .. Len(s) : s[i] = Append(s, x)[i]
  BY <1>1
<1>4. PICK t \in Seq(S) : t = Append(s, x)
  BY <1>1
<1>5. IsPrefix(s, t)
  BY <1>3, <1>4, PrefixFacts
<1> QED
  BY <1>1, <1>2, <1>4, <1>5

LEMMA PrefixTransitive ==
  ASSUME NEW S, NEW s \in Seq(S), NEW t \in Seq(S), NEW u \in Seq(S),
         IsPrefix(s, t), IsPrefix(t, u)
  PROVE  IsPrefix(s, u)
  BY PrefixFacts

\* Nothing lies between a commit and its child.
LEMMA PrefixBetween ==
  ASSUME NEW S, NEW s \in Seq(S), NEW x \in S, NEW t \in Seq(S),
         IsPrefix(s, t), IsPrefix(t, Append(s, x))
  PROVE  t = s \/ t = Append(s, x)
<1>1. PICK u \in Seq(S) : u = Append(s, x)
  BY PrefixOfNext
<1>2. Len(u) = Len(s) + 1 /\ IsPrefix(t, u)
  BY <1>1
<1>3. Len(s) <= Len(t) /\ \A i \in 1 .. Len(s) : s[i] = t[i]
  BY PrefixFacts
<1>4. Len(t) <= Len(u) /\ \A i \in 1 .. Len(t) : t[i] = u[i]
  BY <1>2, PrefixFacts
<1>5. CASE Len(t) = Len(s)
  BY <1>3, <1>5
<1>6. CASE Len(t) = Len(u)
  BY <1>1, <1>4, <1>6
<1> QED
  BY <1>2, <1>3, <1>4, <1>5, <1>6

LEMMA PrefixAntisymmetric ==
  ASSUME NEW S, NEW s \in Seq(S), NEW t \in Seq(S), IsPrefix(s, t), IsPrefix(t, s)
  PROVE  s = t
  BY PrefixFacts
-----------------------------------------------------------------------------
(* The inductive invariant.                                                *)

Types == /\ tip \in Refs
         /\ transit \subseteq RefUpdates
         /\ pc \in [Converges -> {"diff", "head", "objects", "advance", "done"}]
         /\ drifted \in [Converges -> SUBSET Paths]
         /\ diffs \in [Converges -> SUBSET (SUBSET Paths)]
         /\ head \in [Converges -> Refs]
         /\ made \in [Converges -> Refs]
         /\ answer \in [Converges -> {"none", "ok", "conflict", "error"}]
         /\ attempt \in [Converges -> Nat]
         /\ faults \in 0 .. MaxFaults /\ edits \in 0 .. MaxDrift

\* A ref that the branch has had: it never goes back.
Reached(h) == h = NoBranch \/ (h # <<>> /\ tip # NoBranch /\ IsPrefix(h, tip))

\* The commit that lays c's paths over h.
Child(h, c, i, paths) ==
    Append(Chain(h), [by |-> c, id |-> i, tree |-> Overlay(Tree(h), paths, c)])

\* A ref update that some converge made out of what it found.
OfWrite(u) ==
    \E h \in Refs, c \in Converges, i \in Nat :
        /\ Reached(h)
        /\ \E paths \in diffs[c] :
              u = [commit |-> Child(h, c, i, paths), exists |-> h # NoBranch]

Heads == \A c \in Converges : Reached(head[c])

Found == \A c \in Converges :
            pc[c] \in {"head", "objects", "advance"} => drifted[c] \in diffs[c]

Mades == \A c \in Converges :
            pc[c] = "advance" => made[c] = Child(head[c], c, attempt[c], drifted[c])

InTransit == \A u \in transit : OfWrite(u)

IInv == /\ Types
        /\ tip # <<>>
        /\ Heads
        /\ Found
        /\ Mades
        /\ InTransit
        /\ ReturnedIsReachable
        /\ ConflictMeansAdvanced
-----------------------------------------------------------------------------
(* Trees and commits.                                                      *)

Writes == [by : Converges \union {User}, id : Nat, tree : Files]

LEMMA CommitsOfWrites == Commits = Seq(Writes)
  BY DEF Commits, Writes

LEMMA LastType ==
  ASSUME NEW S, NEW s \in Seq(S), s # <<>>
  PROVE  Last(s) \in S
  BY DEF Last

LEMMA ChainType ==
  ASSUME NEW h \in Refs
  PROVE  /\ Chain(h) \in Commits
         /\ h # <<>> => (Chain(h) = <<>> <=> h = NoBranch)
         /\ Tree(h) \in Files
<1>1. Chain(h) \in Commits /\ (h # <<>> => (Chain(h) = <<>> <=> h = NoBranch))
  BY BranchAssumption DEF Chain, Refs, Commits
<1>2. CASE Chain(h) = <<>>
  BY <1>1, <1>2 DEF Tree, Files, NoFiles
<1>3. CASE Chain(h) # <<>>
  <2>1. Last(Chain(h)) \in Writes
    BY <1>1, <1>3, CommitsOfWrites, LastType
  <2> QED
    BY <1>1, <1>3, <2>1 DEF Tree, Writes
<1> QED
  BY <1>1, <1>2, <1>3

LEMMA ChildFacts ==
  ASSUME NEW h \in Refs, NEW w \in Converges \union {User}, NEW i \in Nat,
         NEW paths \in SUBSET Paths
  PROVE  /\ Child(h, w, i, paths) \in Commits
         /\ Child(h, w, i, paths) # <<>> /\ Child(h, w, i, paths) # NoBranch
         /\ Len(Child(h, w, i, paths)) = Len(Chain(h)) + 1
         /\ Tree(Child(h, w, i, paths)) = Overlay(Tree(h), paths, w)
         /\ IsPrefix(Chain(h), Child(h, w, i, paths))
<1>1. Chain(h) \in Commits /\ Tree(h) \in Files
  BY ChainType
<1>2. Overlay(Tree(h), paths, w) \in Files
  BY <1>1 DEF Overlay, Files
<1>3. PICK x \in Writes : x = [by |-> w, id |-> i, tree |-> Overlay(Tree(h), paths, w)]
  BY <1>2 DEF Writes
<1>4. Child(h, w, i, paths) = Append(Chain(h), x) /\ x.tree = Overlay(Tree(h), paths, w)
  BY <1>3 DEF Child
<1>5. /\ Child(h, w, i, paths) \in Commits /\ Child(h, w, i, paths) # <<>>
      /\ Len(Child(h, w, i, paths)) = Len(Chain(h)) + 1
      /\ Last(Child(h, w, i, paths)) = x
      /\ IsPrefix(Chain(h), Child(h, w, i, paths))
  BY <1>1, <1>4, CommitsOfWrites, PrefixOfNext
<1>6. Child(h, w, i, paths) # NoBranch
  BY <1>5, BranchAssumption
<1> QED
  BY <1>4, <1>5, <1>6 DEF Tree, Chain
-----------------------------------------------------------------------------
(* The branch only grows.                                                  *)

Grows == /\ tip' \in Refs /\ tip' # <<>>
         /\ tip # NoBranch => tip' # NoBranch /\ IsPrefix(tip, tip')

LEMMA StillReached ==
  ASSUME tip \in Refs, Grows, NEW h \in Refs, Reached(h)
  PROVE  Reached(h)'
<1>1. CASE h = NoBranch
  BY <1>1 DEF Reached
<1>2. CASE h # NoBranch
  <2>1. /\ h # <<>> /\ h \in Commits /\ tip \in Commits /\ tip' \in Commits
        /\ tip' # NoBranch
        /\ IsPrefix(h, tip) /\ IsPrefix(tip, tip')
    BY <1>2 DEF Reached, Grows, Refs
  <2>2. IsPrefix(h, tip')
    BY <2>1, PrefixTransitive DEF Commits
  <2> QED
    BY <2>1, <2>2 DEF Reached
<1> QED
  BY <1>1, <1>2

\* GitHub's answer to a converge's update either leaves the branch alone or
\* lays that converge's files over it.
LEMMA ServeWrites ==
  ASSUME Types, tip # <<>>, NEW u, OfWrite(u), Serve(u)
  PROVE  /\ Grows
         /\ \/ tip' = tip
            \/ \E c \in Converges : \E paths \in diffs[c] :
                  Tree(tip') = Overlay(Tree(tip), paths, c)
<1>1. PICK h \in Refs, c \in Converges, i \in Nat :
         /\ Reached(h)
         /\ \E paths \in diffs[c] :
               u = [commit |-> Child(h, c, i, paths), exists |-> h # NoBranch]
  BY DEF OfWrite
<1>2. PICK paths \in diffs[c] :
         u = [commit |-> Child(h, c, i, paths), exists |-> h # NoBranch]
  BY <1>1
<1>3. paths \in SUBSET Paths
  BY DEF Types
<1>4. /\ Child(h, c, i, paths) \in Commits /\ Child(h, c, i, paths) # <<>>
      /\ Child(h, c, i, paths) # NoBranch
      /\ Tree(Child(h, c, i, paths)) = Overlay(Tree(h), paths, c)
  BY <1>3, ChildFacts
<1>5. tip \in Refs
  BY DEF Types
<1>6. CASE ~Accepted(u)
  <2>1. tip' = tip
    BY <1>6 DEF Serve
  <2> QED
    BY <1>5, <2>1, PrefixFacts DEF Grows, Refs, Commits
<1>7. CASE Accepted(u) /\ h = NoBranch
  <2>1. tip = NoBranch /\ tip' = Child(h, c, i, paths)
    BY <1>2, <1>7 DEF Accepted, Serve
  <2> QED
    BY <1>4, <1>7, <2>1 DEF Grows, Refs
<1>8. CASE Accepted(u) /\ h # NoBranch
  <2>1. /\ tip # NoBranch /\ IsPrefix(tip, Child(h, c, i, paths))
        /\ tip' = Child(h, c, i, paths)
    BY <1>2, <1>8 DEF Accepted, Serve
  <2>2. Grows
    BY <1>4, <2>1 DEF Grows, Refs
  <2>3. tip \in Commits /\ h \in Commits /\ IsPrefix(h, tip) /\ Chain(h) = h
    BY <1>1, <1>5, <1>8, <2>1 DEF Reached, Refs, Chain
  <2>4. tip = h \/ tip = Child(h, c, i, paths)
    <3>1. Tree(h) \in Files
      BY ChainType
    <3>2. [by |-> c, id |-> i, tree |-> Overlay(Tree(h), paths, c)] \in Writes
      BY <3>1 DEF Overlay, Files, Writes
    <3> QED
      BY <2>1, <2>3, <3>2, CommitsOfWrites, PrefixBetween DEF Child
  <2> QED
    BY <1>4, <2>1, <2>2, <2>4
<1> QED
  BY <1>6, <1>7, <1>8

\* The update that a converge is about to ask for.
LEMMA UpdateOfWrite ==
  ASSUME IInv, NEW c \in Converges, pc[c] = "advance"
  PROVE  OfWrite(Update(c)) /\ Update(c) \in RefUpdates
<1>1. /\ made[c] = Child(head[c], c, attempt[c], drifted[c])
      /\ drifted[c] \in diffs[c] /\ Reached(head[c])
  BY DEF IInv, Mades, Found, Heads
<1>2. head[c] \in Refs /\ attempt[c] \in Nat /\ drifted[c] \in SUBSET Paths
  BY DEF IInv, Types
<1>3. made[c] \in Commits
  BY <1>1, <1>2, ChildFacts
<1> QED
  BY <1>1, <1>2, <1>3 DEF OfWrite, Update, RefUpdates

LEMMA OthersWrite ==
  ASSUME Types, tip # <<>>, OtherCommit
  PROVE  /\ Grows
         /\ \E p \in Paths : Tree(tip') = Overlay(Tree(tip), {p}, User)
<1>1. PICK p \in Paths :
         tip' = Append(Chain(tip), [by |-> User, id |-> edits',
                                    tree |-> Overlay(Tree(tip), {p}, User)])
  BY DEF OtherCommit
<1>2. tip' = Child(tip, User, edits', {p})
  BY <1>1 DEF Child
<1>3. edits' \in Nat /\ tip \in Refs
  BY DEF Types, OtherCommit
<1>4. /\ tip' \in Commits /\ tip' # <<>> /\ tip' # NoBranch
      /\ Tree(tip') = Overlay(Tree(tip), {p}, User)
      /\ IsPrefix(Chain(tip), tip')
  BY <1>2, <1>3, ChildFacts
<1> QED
  BY <1>4 DEF Grows, Refs, Chain
-----------------------------------------------------------------------------
(* The invariant is inductive.                                             *)

LEMMA InitInv == Init => IInv
<1> SUFFICES ASSUME Init PROVE IInv
  OBVIOUS
<1>1. Types
  BY FilesAssumption DEF Init, Types, Refs
<1>2. <<>> \in Seq(Writes)
  OBVIOUS
<1>3. tip # <<>>
  BY <1>2, BranchAssumption, CommitsOfWrites DEF Init
<1> QED
  BY <1>1, <1>3 DEF Init, IInv, Heads, Reached, Found, Mades, InTransit,
     ReturnedIsReachable, ConflictMeansAdvanced

LEMMA NextGrows == IInv /\ [Next]_vars => Grows /\ \A c \in Converges : diffs[c] \subseteq diffs'[c]
<1> SUFFICES ASSUME IInv, [Next]_vars
             PROVE  Grows /\ \A c \in Converges : diffs[c] \subseteq diffs'[c]
  OBVIOUS
<1> DEFINE Same == tip' = tip
           More == \A c \in Converges : diffs[c] \subseteq diffs'[c]
<1>1. Same => Grows
  <2>1. tip \in Refs /\ tip # <<>>
    BY DEF IInv, Types
  <2>2. tip # NoBranch => IsPrefix(tip, tip)
    BY <2>1, PrefixFacts DEF Refs, Commits
  <2> QED
    BY <2>1, <2>2 DEF Grows
<1>2. ASSUME NEW c \in Converges, Diff(c) PROVE Same /\ More
  BY <1>2 DEF Diff, branch, IInv, Types
<1>3. ASSUME NEW c \in Converges, ReadHead(c) \/ CreateObjects(c) PROVE Same /\ More
  BY <1>3 DEF ReadHead, CreateObjects, branch
<1>4. ASSUME NEW c \in Converges, Advance(c) PROVE Grows /\ More
  BY <1>4, UpdateOfWrite, ServeWrites DEF Advance, IInv
<1>5. ASSUME NEW c \in Converges, NoAnswer(c) PROVE Grows /\ More
  <2>1. CASE pc[c] = "advance" /\ Serve(Update(c))
    BY <1>5, <2>1, UpdateOfWrite, ServeWrites DEF NoAnswer, IInv
  <2>2. CASE ~(pc[c] = "advance" /\ Serve(Update(c)))
    BY <1>1, <1>5, <2>2 DEF NoAnswer, branch
  <2> QED
    BY <2>1, <2>2
<1>6. ASSUME NEW u \in transit, ServeLate(u) PROVE Grows /\ More
  BY <1>6, ServeWrites DEF ServeLate, private, IInv, InTransit
<1>7. CASE OtherCommit
  BY <1>7, OthersWrite DEF OtherCommit, private, IInv
<1>8. CASE UNCHANGED vars
  BY <1>1, <1>8 DEF vars, branch, private
<1> QED
  BY <1>1, <1>2, <1>3, <1>4, <1>5, <1>6, <1>7, <1>8 DEF Next, Step

LEMMA NextTypes == IInv /\ [Next]_vars => Types'
<1> SUFFICES ASSUME IInv, [Next]_vars PROVE Types'
  OBVIOUS
<1>0. Types /\ tip' \in Refs
  BY NextGrows DEF IInv, Grows
<1> USE <1>0, FilesAssumption DEF Goto, branch, private
<1>1. ASSUME NEW c \in Converges, Diff(c) PROVE Types'
  <2>1. PICK differ \in SUBSET Paths :
           /\ differ = {p \in Wants[c] : Tree(tip)[p] # c}
           /\ pc' = [pc EXCEPT ![c] = IF differ = {} THEN "done" ELSE "head"]
           /\ drifted' = [drifted EXCEPT ![c] = differ]
           /\ diffs' = [diffs EXCEPT ![c] = @ \union {differ}]
           /\ answer' = [answer EXCEPT ![c] = IF differ = {} THEN "ok" ELSE "none"]
    BY <1>1 DEF Diff
  <2>2. UNCHANGED <<tip, transit, head, made, attempt, faults, edits>>
    BY <1>1 DEF Diff
  <2> QED
    BY <2>1, <2>2 DEF Types
<1>2. ASSUME NEW c \in Converges, ReadHead(c) PROVE Types'
  BY <1>2 DEF ReadHead, Types
<1>3. ASSUME NEW c \in Converges, CreateObjects(c) PROVE Types'
  <2>0. PICK i \in Nat : i = attempt[c] + 1
    BY DEF Types
  <2>1. attempt' = [attempt EXCEPT ![c] = i]
    BY <1>3, <2>0 DEF CreateObjects
  <2>2. head[c] \in Refs /\ drifted[c] \in SUBSET Paths /\ c \in Converges \union {User}
    BY DEF Types
  <2>3. PICK m \in Refs : m = Child(head[c], c, i, drifted[c])
    <3>1. Child(head[c], c, i, drifted[c]) \in Commits
      BY <2>2, ChildFacts
    <3> QED
      BY <3>1 DEF Refs
  <2>4. made' = [made EXCEPT ![c] = m]
    BY <1>3, <2>1, <2>3 DEF CreateObjects, Child, NewTree, Types
  <2>5. /\ pc' = [pc EXCEPT ![c] = "advance"]
        /\ UNCHANGED <<tip, transit, drifted, diffs, head, answer, faults, edits>>
    BY <1>3 DEF CreateObjects
  <2> QED
    BY <2>1, <2>4, <2>5 DEF Types
<1>4. ASSUME NEW c \in Converges, Advance(c) PROVE Types'
  BY <1>4 DEF Advance, Types
<1>5. ASSUME NEW c \in Converges, NoAnswer(c) PROVE Types'
  <2>1. transit' \subseteq RefUpdates
    BY <1>5, UpdateOfWrite DEF NoAnswer, Types
  <2> QED
    BY <1>5, <2>1 DEF NoAnswer, Types
<1>6. ASSUME NEW u \in transit, ServeLate(u) PROVE Types'
  BY <1>6 DEF ServeLate, Types
<1>7. CASE OtherCommit
  BY <1>7 DEF OtherCommit, Types
<1>8. CASE UNCHANGED vars
  BY <1>8 DEF vars, Types
<1> QED
  BY <1>1, <1>2, <1>3, <1>4, <1>5, <1>6, <1>7, <1>8 DEF Next, Step

LEMMA NextHeads == IInv /\ [Next]_vars => Heads'
<1> SUFFICES ASSUME IInv, [Next]_vars, NEW d \in Converges PROVE Reached(head[d])'
  BY DEF Heads
<1>0. Types /\ Grows /\ Reached(head[d]) /\ head[d] \in Refs /\ tip \in Refs
  BY NextGrows DEF IInv, Types, Heads
<1>1. Reached(head[d])' \/ head'[d] = head[d] \/ (head'[d] = tip /\ tip' = tip)
  BY <1>0 DEF Next, Step, Diff, ReadHead, CreateObjects, Advance, NoAnswer, ServeLate,
     OtherCommit, vars, branch, private, Types
<1>2. CASE head'[d] = head[d]
  BY <1>0, <1>2, StillReached DEF Reached
<1>3. CASE head'[d] = tip /\ tip' = tip
  BY <1>0, <1>3, PrefixFacts DEF Reached, IInv, Refs, Commits
<1> QED
  BY <1>1, <1>2, <1>3

\* What a step leaves alone of a converge that does not take it.
Keeps(d) == /\ pc'[d] = pc[d] /\ drifted'[d] = drifted[d] /\ head'[d] = head[d]
            /\ made'[d] = made[d] /\ attempt'[d] = attempt[d] /\ answer'[d] = answer[d]

LEMMA StepKeeps ==
  ASSUME Types, Next \/ UNCHANGED vars, NEW d \in Converges
  PROVE  Keeps(d) \/ Step(d) \/ NoAnswer(d)
<1> USE DEF Keeps, Goto, private, branch
<1>1. ASSUME NEW c \in Converges, c # d, Step(c) PROVE Keeps(d)
  BY <1>1 DEF Types, Step, Diff, ReadHead, CreateObjects, Advance
<1>2. ASSUME NEW c \in Converges, c # d, NoAnswer(c) PROVE Keeps(d)
  BY <1>2 DEF Types, NoAnswer
<1>3. ASSUME NEW u \in transit, ServeLate(u) PROVE Keeps(d)
  BY <1>3 DEF ServeLate
<1>4. CASE OtherCommit \/ UNCHANGED vars
  BY <1>4 DEF OtherCommit, vars
<1> QED
  BY <1>1, <1>2, <1>3, <1>4 DEF Next

LEMMA NextFound == IInv /\ [Next]_vars => Found'
<1> SUFFICES ASSUME IInv, [Next]_vars, NEW d \in Converges,
                    pc'[d] \in {"head", "objects", "advance"}
             PROVE  drifted'[d] \in diffs'[d]
  BY DEF Found
<1>0. Types /\ diffs[d] \subseteq diffs'[d]
  BY NextGrows DEF IInv
<1>1. CASE Keeps(d)
  BY <1>0, <1>1 DEF Keeps, IInv, Found
<1>2. CASE Diff(d)
  BY <1>0, <1>2 DEF Diff, Types
<1>3. CASE ReadHead(d) \/ CreateObjects(d)
  BY <1>0, <1>3 DEF ReadHead, CreateObjects, Goto, IInv, Found
<1>4. CASE Advance(d) \/ NoAnswer(d)
  BY <1>0, <1>4 DEF Advance, NoAnswer, Goto, Types
<1> QED
  BY <1>0, <1>1, <1>2, <1>3, <1>4, StepKeeps DEF Step

LEMMA NextMades == IInv /\ [Next]_vars => Mades'
<1> SUFFICES ASSUME IInv, [Next]_vars, NEW d \in Converges, pc'[d] = "advance"
             PROVE  made'[d] = Child(head'[d], d, attempt'[d], drifted'[d])
  BY DEF Mades, Child, Chain, Tree, Overlay, NoFiles
<1>0. Types
  BY DEF IInv
<1>1. CASE Keeps(d)
  BY <1>1 DEF Keeps, IInv, Mades
<1>2. CASE CreateObjects(d)
  <2>1. head'[d] = head[d] /\ drifted'[d] = drifted[d]
    BY <1>2 DEF CreateObjects
  <2>2. made'[d] = Child(head[d], d, attempt'[d], drifted[d])
    BY <1>0, <1>2 DEF CreateObjects, NewTree, Child, Types
  <2> QED
    BY <2>1, <2>2
<1>3. CASE Diff(d) \/ ReadHead(d) \/ Advance(d) \/ NoAnswer(d)
  BY <1>0, <1>3 DEF Diff, ReadHead, Advance, NoAnswer, Goto, Types
<1> QED
  BY <1>0, <1>1, <1>2, <1>3, StepKeeps DEF Step

LEMMA NextInTransit == IInv /\ [Next]_vars => InTransit'
<1> SUFFICES ASSUME IInv, [Next]_vars, NEW u \in transit' PROVE OfWrite(u)'
  BY DEF InTransit
<1>1. /\ Grows /\ tip \in Refs
      /\ \A c \in Converges : diffs[c] \subseteq diffs'[c]
  BY NextGrows DEF IInv, Types
<1>2. OfWrite(u)
  <2>0. u \in transit => OfWrite(u)
    BY DEF IInv, InTransit
  <2>1. ASSUME NEW c \in Converges, Step(c) PROVE u \in transit
    BY <2>1 DEF Step, Diff, ReadHead, CreateObjects, Advance, branch
  <2>2. ASSUME NEW c \in Converges, NoAnswer(c) PROVE OfWrite(u)
    <3>1. u \in transit \/ (pc[c] = "advance" /\ u = Update(c))
      BY <2>2 DEF NoAnswer, branch
    <3>2. CASE u \in transit
      BY <2>0, <3>2
    <3>3. CASE pc[c] = "advance" /\ u = Update(c)
      <4>1. OfWrite(Update(c))
        BY <3>3, UpdateOfWrite
      <4> QED
        BY <3>3, <4>1
    <3> QED
      BY <3>1, <3>2, <3>3
  <2>3. CASE (\E v \in transit : ServeLate(v)) \/ OtherCommit \/ UNCHANGED vars
    <3>1. u \in transit
      BY <2>3 DEF ServeLate, OtherCommit, vars, branch
    <3> QED
      BY <2>0, <3>1
  <2> QED
    BY <2>0, <2>1, <2>2, <2>3 DEF Next
<1>3. PICK h \in Refs, c \in Converges, i \in Nat :
         /\ Reached(h)
         /\ \E paths \in diffs[c] :
               u = [commit |-> Child(h, c, i, paths), exists |-> h # NoBranch]
  BY <1>2 DEF OfWrite
<1>4. Reached(h)'
  BY <1>1, <1>3, StillReached
<1>5. \E paths \in diffs'[c] :
         u = [commit |-> Child(h, c, i, paths), exists |-> h # NoBranch]
  BY <1>1, <1>3
<1> QED
  BY <1>4, <1>5 DEF OfWrite, Reached

LEMMA NextReturned == IInv /\ [Next]_vars => ReturnedIsReachable'
<1> SUFFICES ASSUME IInv, [Next]_vars, NEW d \in Converges,
                    pc'[d] = "done", made'[d] # NoBranch, drifted'[d] # {}
             PROVE  tip' # NoBranch /\ IsPrefix(made'[d], tip')
  BY DEF ReturnedIsReachable
<1>0. Types /\ Grows /\ tip' \in Refs
  BY NextGrows DEF IInv, Grows
<1>1. CASE Keeps(d)
  <2>1. tip # NoBranch /\ IsPrefix(made[d], tip) /\ made[d] # NoBranch /\ made'[d] = made[d]
    BY <1>1 DEF Keeps, IInv, ReturnedIsReachable
  <2>2. tip' # NoBranch /\ IsPrefix(tip, tip')
    BY <1>0, <2>1 DEF Grows
  <2>3. made[d] \in Commits /\ tip \in Commits /\ tip' \in Commits
    BY <1>0, <2>1, <2>2 DEF Types, Refs
  <2> QED
    BY <2>1, <2>2, <2>3, PrefixTransitive DEF Commits
<1>2. CASE Advance(d)
  <2>1. tip' = made[d] /\ made'[d] = made[d]
    BY <1>0, <1>2 DEF Advance, Serve, Update, Goto, Types
  <2>2. made[d] \in Commits
    BY <1>0, <2>1 DEF Types, Refs
  <2> QED
    BY <2>1, <2>2, PrefixFacts DEF Commits
<1>3. CASE Diff(d) \/ ReadHead(d) \/ CreateObjects(d) \/ NoAnswer(d)
  BY <1>0, <1>3 DEF Diff, ReadHead, CreateObjects, NoAnswer, Goto, Types
<1> QED
  BY <1>0, <1>1, <1>2, <1>3, StepKeeps DEF Step

LEMMA NextConflict == IInv /\ [Next]_vars => ConflictMeansAdvanced'
<1> SUFFICES ASSUME IInv, [Next]_vars, NEW d \in Converges,
                    answer'[d] = "conflict", pc'[d] = "diff"
             PROVE  head'[d] # tip'
  BY DEF ConflictMeansAdvanced
<1>0. Types /\ Grows /\ tip \in Refs /\ Reached(head[d]) /\ head[d] \in Refs
  BY NextGrows DEF IInv, Types, Heads
<1>1. CASE Keeps(d)
  <2>1. head[d] # tip /\ head'[d] = head[d]
    BY <1>1 DEF Keeps, IInv, ConflictMeansAdvanced
  <2>2. CASE head[d] = NoBranch
    BY <1>0, <2>1, <2>2 DEF Grows
  <2>3. CASE head[d] # NoBranch
    <3>1. /\ tip # NoBranch /\ IsPrefix(head[d], tip)
          /\ tip' # NoBranch /\ IsPrefix(tip, tip') /\ tip' \in Refs
      BY <1>0, <2>3 DEF Reached, Grows
    <3>2. head[d] \in Commits /\ tip \in Commits
      BY <1>0, <2>3, <3>1 DEF Refs
    <3> QED
      BY <2>1, <3>1, <3>2, PrefixAntisymmetric DEF Commits
  <2> QED
    BY <2>2, <2>3
<1>2. CASE Advance(d)
  <2>1. /\ ~Accepted(Update(d)) /\ tip' = tip /\ head'[d] = head[d] /\ pc[d] = "advance"
    BY <1>0, <1>2 DEF Advance, Serve, Goto, Types
  <2>2. SUFFICES ASSUME head[d] = tip PROVE FALSE
    BY <2>1
  <2>3. made[d] = Child(tip, d, attempt[d], drifted[d])
    BY <2>1, <2>2 DEF IInv, Mades
  <2>4. attempt[d] \in Nat /\ drifted[d] \in SUBSET Paths /\ d \in Converges \union {User}
    BY <1>0 DEF Types
  <2>5. IsPrefix(Chain(tip), made[d])
    BY <1>0, <2>3, <2>4, ChildFacts
  <2> QED
    BY <2>1, <2>2, <2>5 DEF Accepted, Update, Chain
<1>3. CASE Diff(d) \/ ReadHead(d) \/ CreateObjects(d) \/ NoAnswer(d)
  BY <1>0, <1>3 DEF Diff, ReadHead, CreateObjects, NoAnswer, Goto, Types
<1> QED
  BY <1>0, <1>1, <1>2, <1>3, StepKeeps DEF Step

LEMMA NextInv == IInv /\ [Next]_vars => IInv'
<1> SUFFICES ASSUME IInv, [Next]_vars PROVE IInv'
  OBVIOUS
<1>1. tip' # <<>>
  BY NextGrows DEF Grows
<1> QED
  BY <1>1, NextTypes, NextHeads, NextFound, NextMades, NextInTransit, NextReturned,
     NextConflict DEF IInv
-----------------------------------------------------------------------------
(* The branch never goes back, every update under way was made out of a    *)
(* head that the branch has had and of files that its converge found to    *)
(* differ, and every answer that was given is true - for any converges in  *)
(* any interleaving with their faults.                                     *)
THEOREM InductiveInvariant == Spec => []IInv
  BY InitInv, NextInv, PTL DEF Spec

(* Type correctness; and a ref is created for a root commit only and       *)
(* updated for any other (advanceBranch).                                  *)
THEOREM TypeCorrect == Spec => []TypeOK
<1>1. IInv => TypeOK
  <2> SUFFICES ASSUME IInv, NEW u \in transit PROVE u.exists <=> Len(u.commit) > 1
    BY DEF IInv, Types, TypeOK
  <2>1. PICK h \in Refs, c \in Converges, i \in Nat :
           /\ Reached(h)
           /\ \E paths \in diffs[c] :
                 u = [commit |-> Child(h, c, i, paths), exists |-> h # NoBranch]
    BY DEF IInv, InTransit, OfWrite
  <2>2. PICK paths \in diffs[c] :
           u = [commit |-> Child(h, c, i, paths), exists |-> h # NoBranch]
    BY <2>1
  <2>3. paths \in SUBSET Paths /\ c \in Converges \union {User}
    BY DEF IInv, Types
  <2>4. Len(u.commit) = Len(Chain(h)) + 1 /\ (u.exists <=> h # NoBranch)
    BY <2>2, <2>3, ChildFacts
  <2>5. Chain(h) \in Seq(Writes) /\ (h # NoBranch <=> Chain(h) # <<>>)
    BY <2>1, ChainType, CommitsOfWrites DEF Reached, Chain
  <2>6. Len(Chain(h)) \in Nat /\ (Len(Chain(h)) = 0 <=> Chain(h) = <<>>)
    BY <2>5
  <2> QED
    BY <2>4, <2>5, <2>6
<1> QED
  BY <1>1, InductiveInvariant, PTL

(* A commit whose id CommitFilesAtomic returned is, and stays, in the      *)
(* branch, whatever is still in transit and whoever else writes.           *)
THEOREM ReturnedStays == Spec => []ReturnedIsReachable
<1>1. IInv => ReturnedIsReachable
  BY DEF IInv
<1> QED
  BY <1>1, InductiveInvariant, PTL

(* Conflict is only told to an attempt whose head is no longer the         *)
(* branch's (UpdateRef's and createBranchRef's compare-and-swap).          *)
THEOREM ConflictIsTrue == Spec => []ConflictMeansAdvanced
<1>1. IInv => ConflictMeansAdvanced
  BY DEF IInv
<1> QED
  BY <1>1, InductiveInvariant, PTL
-----------------------------------------------------------------------------
(* Refinement.  Only a comparison and an update that is accepted are       *)
(* visible in the files and in what was found.                             *)

LEMMA ServedWrite ==
  ASSUME IInv, NEW u, OfWrite(u), Serve(u), diffs' = diffs, Tree(tip)' # Tree(tip)
  PROVE  \E c \in Converges : Atomic!Write(c)
<1>1. \E c \in Converges : \E paths \in diffs[c] : Tree(tip') = Overlay(Tree(tip), paths, c)
  <2>1. tip' # tip
    BY DEF Tree, Chain
  <2> QED
    BY <2>1, ServeWrites DEF IInv
<1> QED
  BY <1>1 DEF Atomic!Write, Atomic!Overlay, Overlay, Tree, Chain, NoFiles

LEMMA StepRefines == IInv /\ [Next]_vars => [Atomic!FilesNext]_<<Tree(tip), diffs>>
<1> SUFFICES ASSUME IInv, [Next]_vars, ~UNCHANGED <<Tree(tip), diffs>>
             PROVE  \/ \E c \in Converges : Atomic!Compare(c) \/ Atomic!Write(c)
                    \/ Atomic!Drift
  BY DEF Atomic!FilesNext
<1>1. ASSUME NEW c \in Converges, Diff(c) PROVE Atomic!Compare(c)
  <2>1. tip' = tip /\ diffs' = [diffs EXCEPT ![c] = @ \union {{p \in Wants[c] : Tree(tip)[p] # c}}]
    BY <1>1 DEF Diff, branch
  <2> QED
    BY <2>1 DEF Atomic!Compare, Tree, Chain
<1>2. ASSUME NEW c \in Converges, ReadHead(c) \/ CreateObjects(c) PROVE FALSE
  BY <1>2 DEF ReadHead, CreateObjects, branch, Tree, Chain
<1>3. ASSUME NEW c \in Converges, Advance(c) PROVE \E d \in Converges : Atomic!Write(d)
  <2>1. diffs' = diffs /\ Serve(Update(c)) /\ pc[c] = "advance"
    BY <1>3 DEF Advance
  <2> QED
    BY <2>1, UpdateOfWrite, ServedWrite
<1>4. ASSUME NEW c \in Converges, NoAnswer(c) PROVE \E d \in Converges : Atomic!Write(d)
  <2>1. diffs' = diffs /\ Serve(Update(c)) /\ pc[c] = "advance"
    BY <1>4 DEF NoAnswer, branch, Tree, Chain
  <2> QED
    BY <2>1, UpdateOfWrite, ServedWrite
<1>5. ASSUME NEW u \in transit, ServeLate(u) PROVE \E d \in Converges : Atomic!Write(d)
  <2>1. diffs' = diffs /\ Serve(u) /\ OfWrite(u)
    BY <1>5 DEF ServeLate, private, IInv, InTransit
  <2> QED
    BY <2>1, ServedWrite
<1>6. CASE OtherCommit
  <2>1. diffs' = diffs /\ \E p \in Paths : Tree(tip') = Overlay(Tree(tip), {p}, User)
    BY <1>6, OthersWrite DEF OtherCommit, private, IInv
  <2>2. Atomic!Drift
    BY <2>1 DEF Atomic!Drift, Atomic!Overlay, Overlay, Tree, Chain, NoFiles
  <2> QED
    BY <2>2
<1>7. CASE UNCHANGED vars
  BY <1>7 DEF vars, branch, private, Tree, Chain
<1> QED
  BY <1>1, <1>2, <1>3, <1>4, <1>5, <1>6, <1>7 DEF Next, Step

(* CommitFilesAtomic implements the atomic files: for any converges, files *)
(* and faults a write is seen whole or not at all, and takes nothing back  *)
(* but the files that its converge found to differ.                        *)
THEOREM RefinesAtomicFiles == Spec => ImplementsAtomicFiles
<1>1. Init => Atomic!FilesInit
  BY DEF Init, Atomic!FilesInit, Tree, Chain, NoFiles
<1> QED
  BY <1>1, StepRefines, InductiveInvariant, PTL
  DEF Spec, ImplementsAtomicFiles, Atomic!FilesSpec
=============================================================================
