-------------------------- MODULE LocalPush_proofs --------------------------
(***************************************************************************)
(* Proofs about LocalPush for any writers and outsiders, any kind of       *)
(* repository and any number of faults, and about the lock it takes        *)
(* (LocalRepoLock).                                                        *)
(***************************************************************************)
EXTENDS LocalPush, LocalRepoLock, TLAPS

\* Facts about trees that every proof below uses.
LEMMA TreeType == \A t \in Tips : Tree(t) \in Seq(Actors) /\ Len(Tree(t)) \in Nat
  BY DEF Tips, Trees, Tree

LEMMA ActorSets == Writers \subseteq Actors /\ Outsiders \subseteq Actors
  BY DEF Actors

LEMMA WorkType ==
  ASSUME TypeOK, NEW a \in Actors
  PROVE  /\ Work(a) \in Seq(Actors) /\ Work(a) \in Tips
         /\ Tree(Work(a)) = Work(a)
         /\ Len(Work(a)) = Len(Tree(base[a])) + 1
         /\ Applied(Work(a)) = Applied(base[a]) \union {a}
<1>1. Tree(base[a]) \in Seq(Actors)
  BY TreeType DEF TypeOK
<1>2. Work(a) \in Seq(Actors) /\ Len(Work(a)) = Len(Tree(base[a])) + 1
  BY <1>1 DEF Work
<1>3. Tree(Work(a)) = Work(a) /\ Work(a) \in Tips
  BY <1>2, PushAssumption DEF Tree, Trees, Tips
<1>4. /\ DOMAIN Work(a) = 1 .. Len(Tree(base[a])) + 1
      /\ DOMAIN Tree(base[a]) = 1 .. Len(Tree(base[a]))
      /\ \A i \in 1 .. Len(Tree(base[a])) : Work(a)[i] = Tree(base[a])[i]
      /\ Work(a)[Len(Tree(base[a])) + 1] = a
      /\ Len(Tree(base[a])) \in Nat
  BY <1>1, <1>2 DEF Work
<1>5. Applied(Work(a)) = Applied(base[a]) \union {a}
  BY <1>3, <1>4 DEF Applied
<1> QED
  BY <1>2, <1>3, <1>5
-----------------------------------------------------------------------------
(* Type correctness.                                                       *)

LEMMA InitTypeOK == Init => TypeOK
<1> SUFFICES ASSUME Init PROVE TypeOK
  OBVIOUS
<1>1. <<>> \in Trees /\ NoBranch \in Tips
  BY DEF Trees, Tips
<1>2. tip \in Tips /\ checkout \in Trees \union {Dirty}
  BY <1>1, PushAssumption DEF Init, Tips
<1> QED
  BY <1>1, <1>2, PushAssumption DEF Init, TypeOK, States, Answers

LEMMA ReturnTypeOK ==
  ASSUME TypeOK, NEW a \in Actors, NEW ans \in Answers, Return(a, ans)
  PROVE  /\ pc' \in [Actors -> States]
         /\ orphaned' \in SUBSET Writers
         /\ lock' \in Writers \union {Nobody}
         /\ answer' \in [Actors -> Answers]
         /\ conflicts' \in [Actors -> Nat]
         /\ lock' # Nobody => pc'[lock'] \notin {"idle", "ready"}
  BY PushAssumption DEF TypeOK, Return, Goto, States, Actors

LEMMA NextTypeOK == TypeOK /\ [Next]_vars => TypeOK'
<1> SUFFICES ASSUME TypeOK, [Next]_vars PROVE TypeOK'
  OBVIOUS
<1> USE PushAssumption DEF Goto, repo, private, result
<1>1. ASSUME NEW a \in Actors, Read(a) PROVE TypeOK'
  BY <1>1 DEF Read, TypeOK, States, Answers, Actors
<1>2. ASSUME NEW a \in Actors, Enter(a) PROVE TypeOK'
  BY <1>2 DEF Enter, TypeOK, States, Answers, Actors
<1>3. ASSUME NEW a \in Actors, GiveUp(a) PROVE TypeOK'
  BY <1>3 DEF GiveUp, TypeOK, States, Answers, Actors
<1>4. ASSUME NEW a \in Actors, CloneAndCommit(a) PROVE TypeOK'
  <2>1. CASE Return(a, "conflict")
    BY <1>4, <2>1, ReturnTypeOK DEF CloneAndCommit, TypeOK, Answers
  <2>2. CASE Goto(a, "push") /\ UNCHANGED <<lock, answer, conflicts, orphaned>>
    BY <1>4, <2>2 DEF CloneAndCommit, Return, TypeOK, States, Actors
  <2> QED
    BY <1>4, <2>1, <2>2 DEF CloneAndCommit
<1>5. ASSUME NEW a \in Actors, OutsiderCommit(a) PROVE TypeOK'
  BY <1>5 DEF OutsiderCommit, TypeOK, States, Actors
<1>6. ASSUME NEW a \in Actors, Advertise(a) PROVE TypeOK'
  <2>1. CASE tip = parent[a]
    BY <1>6, <2>1 DEF Advertise, TypeOK, States, Actors
  <2>2. CASE tip # parent[a]
    BY <1>6, <2>2, ReturnTypeOK DEF Advertise, classifyPushError, CheckoutRefusals, TypeOK,
       Answers
  <2> QED
    BY <2>1, <2>2
<1>7. ASSUME NEW a \in Actors, ReceiveCheck(a) PROVE TypeOK'
  <2>1. CASE CheckedOut /\ ~Clean
    BY <1>7, <2>1, ReturnTypeOK DEF ReceiveCheck, classifyPushError, CheckoutRefusals,
       TypeOK, Answers
  <2>2. CASE ~CheckedOut \/ Clean
    BY <1>7, <2>2 DEF ReceiveCheck, TypeOK, States, Actors
  <2> QED
    BY <2>1, <2>2
<1>8. ASSUME NEW a \in Actors, ReadTree(a) PROVE TypeOK'
  <2>1. CASE checkout = Dirty
    BY <1>8, <2>1, ReturnTypeOK DEF ReadTree, classifyPushError, CheckoutRefusals, TypeOK,
       Answers
  <2>2. CASE checkout # Dirty
    <3>1. Work(a) \in Trees
      BY WorkType DEF Trees
    <3> QED
      BY <1>8, <2>2, <3>1 DEF ReadTree, TypeOK, States, Actors
  <2> QED
    BY <2>1, <2>2
<1>9. ASSUME NEW a \in Actors, RefCAS(a) PROVE TypeOK'
  <2>0. Work(a) \in Tips
    BY WorkType
  <2>1. CASE tip = old[a] /\ a \notin orphaned
    BY <1>9, <2>0, <2>1 DEF RefCAS, TypeOK, States, Actors
  <2>2. CASE tip = old[a] /\ a \in orphaned
    BY <1>9, <2>0, <2>2, ReturnTypeOK DEF RefCAS, TypeOK, Answers
  <2>3. CASE tip # old[a]
    BY <1>9, <2>3, ReturnTypeOK DEF RefCAS, classifyPushError, CheckoutRefusals, TypeOK,
       Answers
  <2> QED
    BY <2>1, <2>2, <2>3
<1>10. ASSUME NEW a \in Actors, Reply(a) PROVE TypeOK'
  BY <1>10, ReturnTypeOK DEF Reply, TypeOK, Answers
<1>11. ASSUME NEW a \in Actors, Abort(a) PROVE TypeOK'
  BY <1>11, ReturnTypeOK DEF Abort, TypeOK, Answers
<1>12. ASSUME NEW a \in Actors, Resubmit(a) PROVE TypeOK'
  BY <1>12 DEF Resubmit, TypeOK, Answers
<1>13. CASE Crash
  BY <1>13 DEF Crash, TypeOK, States, Answers, Actors
<1>14. CASE UserEdits
  BY <1>14 DEF UserEdits, TypeOK
<1>15. CASE UserCleans
  BY <1>15, TreeType DEF UserCleans, TypeOK, Trees
<1>16. CASE UNCHANGED vars
  BY <1>16 DEF vars, TypeOK
<1> QED
  BY <1>1, <1>2, <1>3, <1>4, <1>5, <1>6, <1>7, <1>8, <1>9, <1>10, <1>11, <1>12, <1>13,
     <1>14, <1>15, <1>16 DEF Next, Progress, Receive

(* The state of the push protocol is always well formed, and a lock that   *)
(* is held is held by a call that is running (PushLocal's deferred unlock).*)
THEOREM TypeCorrect == Spec => []TypeOK
  BY InitTypeOK, NextTypeOK, PTL DEF Spec
-----------------------------------------------------------------------------
(* The log.  A commit in flight was built on the tip its caller read and   *)
(* is pushed from that tip, so the ref update extends what is there.       *)

Prepared == {"push"} \union Receiving

LogInv ==
    /\ \A a \in Actors :
          /\ pc[a] \in {"ready", "entered"} \union Prepared => a \notin Applied(base[a])
          /\ pc[a] \in Prepared => parent[a] = base[a]
          /\ pc[a] \in Receiving => old[a] = base[a]
          /\ pc[a] = "landed" => a \in Applied(tip)
    /\ acked \subseteq Applied(tip)
    /\ \A w \in orphaned : pc[w] \in Receiving

(* Conflicts.  The base of a call in progress is the tip, or shorter; an   *)
(* actor that lost a race saw a longer tip than its base.                  *)

Size(t) == Len(Tree(t))

ConflictInv ==
    \A a \in Actors :
        /\ pc[a] # "idle" => /\ base[a] = tip \/ Size(base[a]) < Size(tip)
                             /\ conflicts[a] <= Size(base[a])
                             /\ answer[a] # "conflict"
        /\ answer[a] = "conflict" => Size(base[a]) < Size(tip)
        /\ conflicts[a] <= Size(tip)

(* The lock.  A writer of a local repository that is past Enter holds it.  *)

LockInv ==
    Local => \A w \in Writers \ orphaned :
                 pc[w] \notin {"idle", "ready"} => lock = w

(* While nobody disturbed the checkout, only the lock's holder is in       *)
(* receive-pack, it was sent from the current tip, and the checkout is the *)
(* tip's except between its tree update and its ref update.                *)

WedgeInv ==
    Local /\ ~disturbed =>
        /\ orphaned = {}
        /\ \A o \in Outsiders : pc[o] \notin Receiving
        /\ \A w \in Writers : pc[w] \in Receiving => old[w] = tip
        /\ CheckedOut =>
              /\ \A w \in Writers : pc[w] = "written" => checkout = Work(w)
              /\ \A w \in Writers : pc[w] = "checked" => Clean
              /\ (lock = Nobody \/ pc[lock] # "written") => Clean
              /\ \A a \in Actors : answer[a] # "refused"

IInv == TypeOK /\ LogInv /\ ConflictInv /\ LockInv /\ WedgeInv
-----------------------------------------------------------------------------
LEMMA InitInv == Init => IInv
<1> SUFFICES ASSUME Init PROVE IInv
  OBVIOUS
<1>1. TypeOK
  BY InitTypeOK
<1>2. LogInv
  BY DEF Init, LogInv, Prepared, Receiving
<1>3. ConflictInv
  BY <1>1, TreeType DEF Init, ConflictInv, Size, TypeOK
<1>4. LockInv /\ WedgeInv
  <2>1. Clean
    BY DEF Init, Clean, Tree
  <2>2. \A a \in Actors : pc[a] = "idle" /\ answer[a] # "refused"
    BY DEF Init
  <2>3. lock = Nobody /\ orphaned = {}
    BY DEF Init
  <2> QED
    BY <2>1, <2>2, <2>3, ActorSets DEF LockInv, WedgeInv, Receiving
<1> QED
  BY <1>1, <1>2, <1>3, <1>4 DEF IInv

LEMMA NextLogInv ==
  TypeOK /\ TypeOK' /\ LogInv /\ [Next]_vars => LogInv'
<1> SUFFICES ASSUME TypeOK, TypeOK', LogInv, [Next]_vars PROVE LogInv'
  OBVIOUS
<1> USE PushAssumption, ActorSets DEF Goto, Return, Receiving, repo, private, result
<1>1. ASSUME NEW a \in Actors, Read(a) PROVE LogInv'
  BY <1>1 DEF Read, TypeOK, LogInv, Prepared
<1>2. ASSUME NEW a \in Actors, Enter(a) PROVE LogInv'
  BY <1>2 DEF Enter, TypeOK, LogInv, Prepared
<1>3. ASSUME NEW a \in Actors, GiveUp(a) PROVE LogInv'
  BY <1>3 DEF GiveUp, TypeOK, LogInv, Prepared
<1>4. ASSUME NEW a \in Actors, CloneAndCommit(a) PROVE LogInv'
  BY <1>4 DEF CloneAndCommit, CASPrecondition, TypeOK, LogInv, Prepared
<1>5. ASSUME NEW a \in Actors, OutsiderCommit(a) PROVE LogInv'
  BY <1>5 DEF OutsiderCommit, TypeOK, LogInv, Prepared
<1>6. ASSUME NEW a \in Actors, Advertise(a) PROVE LogInv'
  BY <1>6 DEF Advertise, TypeOK, LogInv, Prepared
<1>7. ASSUME NEW a \in Actors, ReceiveCheck(a) PROVE LogInv'
  BY <1>7 DEF ReceiveCheck, TypeOK, LogInv, Prepared
<1>8. ASSUME NEW a \in Actors, ReadTree(a) PROVE LogInv'
  <2>1. CASE checkout = Dirty
    BY <1>8, <2>1 DEF ReadTree, TypeOK, LogInv, Prepared
  <2>2. CASE checkout # Dirty
    <3>1. /\ Goto(a, "written") /\ pc[a] = "checked"
          /\ UNCHANGED <<tip, base, parent, old, acked, orphaned>>
      BY <1>8, <2>2 DEF ReadTree
    <3> QED
      BY <3>1 DEF TypeOK, LogInv, Prepared
  <2> QED
    BY <2>1, <2>2
<1>9. ASSUME NEW a \in Actors, RefCAS(a) PROVE LogInv'
  <2>1. CASE tip = old[a]
    <3>1. Applied(tip') = Applied(tip) \union {a}
      BY <1>9, <2>1, WorkType DEF RefCAS, LogInv
    <3> QED
      BY <1>9, <2>1, <3>1 DEF RefCAS, TypeOK, LogInv, Prepared
  <2>2. CASE tip # old[a]
    BY <1>9, <2>2 DEF RefCAS, TypeOK, LogInv, Prepared
  <2> QED
    BY <2>1, <2>2
<1>10. ASSUME NEW a \in Actors, Reply(a) PROVE LogInv'
  BY <1>10 DEF Reply, TypeOK, LogInv, Prepared
<1>11. ASSUME NEW a \in Actors, Abort(a) PROVE LogInv'
  BY <1>11 DEF Abort, TypeOK, LogInv, Prepared
<1>12. ASSUME NEW a \in Actors, Resubmit(a) PROVE LogInv'
  BY <1>12 DEF Resubmit, TypeOK, LogInv, Prepared
<1>13. CASE Crash
  BY <1>13 DEF Crash, TypeOK, LogInv, Prepared
<1>14. CASE UserEdits
  BY <1>14 DEF UserEdits, TypeOK, LogInv, Prepared
<1>15. CASE UserCleans
  BY <1>15 DEF UserCleans, TypeOK, LogInv, Prepared
<1>16. CASE UNCHANGED vars
  BY <1>16 DEF vars, TypeOK, LogInv, Prepared
<1> QED
  BY <1>1, <1>2, <1>3, <1>4, <1>5, <1>6, <1>7, <1>8, <1>9, <1>10, <1>11, <1>12, <1>13, <1>14, <1>15, <1>16
  DEF Next, Progress, Receive

\* Sizes of trees, as the conflict argument uses them.
LEMMA Sizes == /\ \A t \in Tips : Size(t) \in Nat
               /\ TypeOK => \A a \in Actors : Size(Work(a)) = Size(base[a]) + 1
  BY TreeType, WorkType DEF Size

\* What each reason of a rejected push is classified as.
LEMMA Classified ==
  /\ classifyPushError("staged changes") = "refused"
  /\ classifyPushError("could not update working tree") = "refused"
  /\ classifyPushError("non-fast-forward") = "conflict"
  /\ classifyPushError("failed to update ref") = "conflict"
  BY DEF classifyPushError, CheckoutRefusals

LEMMA ReturnConflictInv ==
  ASSUME TypeOK, ConflictInv, NEW a \in Actors, NEW ans, Return(a, ans), pc[a] # "idle",
         UNCHANGED <<tip, base>>, ans = "conflict" => base[a] # tip
  PROVE  ConflictInv'
<1>1. tip \in Tips /\ \A b \in Actors : base[b] \in Tips /\ conflicts[b] \in Nat
  BY DEF TypeOK
<1>2. Size(tip) \in Nat /\ \A b \in Actors : Size(base[b]) \in Nat
  BY <1>1, Sizes
<1>3. ans = "conflict" => Size(base[a]) < Size(tip) /\ conflicts[a] <= Size(base[a])
  BY DEF ConflictInv
<1>4. ASSUME NEW b \in Actors
      PROVE  /\ pc'[b] # "idle" => pc'[b] = pc[b] /\ b # a
             /\ b # a => answer'[b] = answer[b] /\ conflicts'[b] = conflicts[b]
             /\ \/ answer'[a] = answer[a] /\ conflicts'[a] = conflicts[a]
                \/ /\ answer'[a] = ans
                   /\ conflicts'[a] = IF ans = "conflict" THEN conflicts[a] + 1
                                      ELSE conflicts[a]
  BY DEF TypeOK, Return, Goto
<1>5. ASSUME NEW b \in Actors, b # a
      PROVE  /\ pc'[b] # "idle" => /\ base'[b] = tip' \/ Size(base'[b]) < Size(tip')
                                   /\ conflicts'[b] <= Size(base'[b])
                                   /\ answer'[b] # "conflict"
             /\ answer'[b] = "conflict" => Size(base'[b]) < Size(tip')
             /\ conflicts'[b] <= Size(tip')
  BY <1>4, <1>5 DEF ConflictInv
<1>6. /\ pc'[a] = "idle"
      /\ answer'[a] = "conflict" => Size(base'[a]) < Size(tip')
      /\ conflicts'[a] <= Size(tip')
  BY <1>1, <1>2, <1>3, <1>4 DEF ConflictInv
<1> QED
  BY <1>5, <1>6 DEF ConflictInv

LEMMA NextConflictInv ==
  TypeOK /\ TypeOK' /\ LogInv /\ ConflictInv /\ [Next]_vars => ConflictInv'
<1> SUFFICES ASSUME TypeOK, TypeOK', LogInv, ConflictInv, [Next]_vars PROVE ConflictInv'
  OBVIOUS
<1> USE PushAssumption, ActorSets DEF Goto, Receiving, repo, private, result
<1>1. ASSUME NEW a \in Actors, Read(a) PROVE ConflictInv'
  <2>1. base' \in [Actors -> Tips] /\ tip' = tip /\ pc[a] = "idle"
    BY <1>1 DEF Read, TypeOK
  <2> QED
    BY <1>1, <2>1, Sizes DEF Read, TypeOK, ConflictInv
<1>2. ASSUME NEW a \in Actors, Enter(a) PROVE ConflictInv'
  BY <1>2 DEF Enter, TypeOK, ConflictInv
<1>3. ASSUME NEW a \in Actors, GiveUp(a) PROVE ConflictInv'
  BY <1>3 DEF GiveUp, TypeOK, ConflictInv
<1>4. ASSUME NEW a \in Actors, CloneAndCommit(a) PROVE ConflictInv'
  <2>1. CASE ~CASPrecondition(base[a], tip)
    BY <1>4, <2>1, Classified, ReturnConflictInv DEF CloneAndCommit, LogInv, CASPrecondition
  <2>2. CASE ~(~CASPrecondition(base[a], tip))
    BY <1>4, <2>2 DEF CloneAndCommit, TypeOK, ConflictInv
  <2> QED
    BY <2>1, <2>2
<1>5. ASSUME NEW a \in Actors, OutsiderCommit(a) PROVE ConflictInv'
  BY <1>5 DEF OutsiderCommit, TypeOK, ConflictInv
<1>6. ASSUME NEW a \in Actors, Advertise(a) PROVE ConflictInv'
  <2>1. CASE tip # parent[a]
    BY <1>6, <2>1, Classified, ReturnConflictInv DEF Advertise, LogInv, Prepared
  <2>2. CASE ~(tip # parent[a])
    BY <1>6, <2>2 DEF Advertise, TypeOK, ConflictInv
  <2> QED
    BY <2>1, <2>2
<1>7. ASSUME NEW a \in Actors, ReceiveCheck(a) PROVE ConflictInv'
  <2>1. CASE CheckedOut /\ ~Clean
    BY <1>7, <2>1, Classified, ReturnConflictInv DEF ReceiveCheck, LogInv
  <2>2. CASE ~(CheckedOut /\ ~Clean)
    BY <1>7, <2>2 DEF ReceiveCheck, TypeOK, ConflictInv
  <2> QED
    BY <2>1, <2>2
<1>8. ASSUME NEW a \in Actors, ReadTree(a) PROVE ConflictInv'
  <2>1. CASE checkout = Dirty
    BY <1>8, <2>1, Classified, ReturnConflictInv DEF ReadTree, LogInv
  <2>2. CASE ~(checkout = Dirty)
    BY <1>8, <2>2 DEF ReadTree, TypeOK, ConflictInv
  <2> QED
    BY <2>1, <2>2
<1>9. ASSUME NEW a \in Actors, RefCAS(a) PROVE ConflictInv'
  <2>1. CASE tip # old[a]
    BY <1>9, <2>1, Classified, ReturnConflictInv DEF RefCAS, LogInv
  <2>2. CASE tip = old[a]
    <3>1. base[a] = tip /\ tip' = Work(a) /\ base' = base
      BY <1>9, <2>2 DEF RefCAS, LogInv
    <3>2. /\ Size(tip) \in Nat /\ Size(tip') = Size(tip) + 1
          /\ \A b \in Actors : Size(base[b]) \in Nat /\ conflicts[b] \in Nat
      BY <3>1, Sizes DEF TypeOK
    <3>3. /\ conflicts' = conflicts
          /\ \A b \in Actors : answer'[b] = "conflict" => answer[b] = "conflict"
          /\ \A b \in Actors : pc'[b] # "idle" => pc[b] # "idle"
      BY <1>9, <2>2 DEF RefCAS, Return, TypeOK
    <3> QED
      BY <3>1, <3>2, <3>3 DEF ConflictInv
  <2> QED
    BY <2>1, <2>2
<1>10. ASSUME NEW a \in Actors, Reply(a) PROVE ConflictInv'
  BY <1>10, ReturnConflictInv DEF Reply
<1>11. ASSUME NEW a \in Actors, Abort(a) PROVE ConflictInv'
  BY <1>11, ReturnConflictInv DEF Abort
<1>12. ASSUME NEW a \in Actors, Resubmit(a) PROVE ConflictInv'
  BY <1>12 DEF Resubmit, TypeOK, ConflictInv
<1>13. CASE Crash
  BY <1>13 DEF Crash, TypeOK, ConflictInv
<1>14. CASE UserEdits
  BY <1>14 DEF UserEdits, TypeOK, ConflictInv
<1>15. CASE UserCleans
  BY <1>15 DEF UserCleans, TypeOK, ConflictInv
<1>16. CASE UNCHANGED vars
  BY <1>16 DEF vars, TypeOK, ConflictInv
<1> QED
  BY <1>1, <1>2, <1>3, <1>4, <1>5, <1>6, <1>7, <1>8, <1>9, <1>10, <1>11, <1>12, <1>13, <1>14, <1>15, <1>16
  DEF Next, Progress, Receive

LEMMA NextLockInv ==
  TypeOK /\ TypeOK' /\ LogInv /\ LockInv /\ [Next]_vars => LockInv'
<1> SUFFICES ASSUME TypeOK, TypeOK', LogInv, LockInv, [Next]_vars PROVE LockInv'
  OBVIOUS
<1> USE PushAssumption, ActorSets DEF Goto, Return, Receiving, repo, private, result
<1>1. ASSUME NEW a \in Actors, Read(a) PROVE LockInv'
  BY <1>1 DEF Read, TypeOK, LockInv
<1>2. ASSUME NEW a \in Actors, Enter(a) PROVE LockInv'
  BY <1>2 DEF Enter, TypeOK, LockInv
<1>3. ASSUME NEW a \in Actors, GiveUp(a) PROVE LockInv'
  BY <1>3 DEF GiveUp, TypeOK, LockInv
<1>4. ASSUME NEW a \in Actors, CloneAndCommit(a) PROVE LockInv'
  <2>1. CASE CASPrecondition(base[a], tip)
    BY <1>4, <2>1 DEF CloneAndCommit, TypeOK, LockInv
  <2>2. CASE ~(CASPrecondition(base[a], tip))
    BY <1>4, <2>2 DEF CloneAndCommit, TypeOK, LockInv
  <2> QED
    BY <2>1, <2>2
<1>5. ASSUME NEW a \in Actors, OutsiderCommit(a) PROVE LockInv'
  BY <1>5 DEF OutsiderCommit, TypeOK, LockInv
<1>6. ASSUME NEW a \in Actors, Advertise(a) PROVE LockInv'
  <2>1. CASE tip = parent[a]
    BY <1>6, <2>1 DEF Advertise, TypeOK, LockInv
  <2>2. CASE ~(tip = parent[a])
    BY <1>6, <2>2 DEF Advertise, TypeOK, LockInv
  <2> QED
    BY <2>1, <2>2
<1>7. ASSUME NEW a \in Actors, ReceiveCheck(a) PROVE LockInv'
  <2>1. CASE CheckedOut /\ ~Clean
    BY <1>7, <2>1 DEF ReceiveCheck, TypeOK, LockInv
  <2>2. CASE ~(CheckedOut /\ ~Clean)
    BY <1>7, <2>2 DEF ReceiveCheck, TypeOK, LockInv
  <2> QED
    BY <2>1, <2>2
<1>8. ASSUME NEW a \in Actors, ReadTree(a) PROVE LockInv'
  <2>1. CASE checkout = Dirty
    BY <1>8, <2>1 DEF ReadTree, TypeOK, LockInv
  <2>2. CASE ~(checkout = Dirty)
    BY <1>8, <2>2 DEF ReadTree, TypeOK, LockInv
  <2> QED
    BY <2>1, <2>2
<1>9. ASSUME NEW a \in Actors, RefCAS(a) PROVE LockInv'
  <2>1. CASE tip = old[a]
    BY <1>9, <2>1 DEF RefCAS, TypeOK, LockInv
  <2>2. CASE ~(tip = old[a])
    BY <1>9, <2>2 DEF RefCAS, TypeOK, LockInv
  <2> QED
    BY <2>1, <2>2
<1>10. ASSUME NEW a \in Actors, Reply(a) PROVE LockInv'
  BY <1>10 DEF Reply, TypeOK, LockInv
<1>11. ASSUME NEW a \in Actors, Abort(a) PROVE LockInv'
  BY <1>11 DEF Abort, TypeOK, LockInv
<1>12. ASSUME NEW a \in Actors, Resubmit(a) PROVE LockInv'
  BY <1>12 DEF Resubmit, TypeOK, LockInv
<1>13. CASE Crash
  BY <1>13 DEF Crash, TypeOK, LockInv
<1>14. CASE UserEdits
  BY <1>14 DEF UserEdits, TypeOK, LockInv
<1>15. CASE UserCleans
  BY <1>15 DEF UserCleans, TypeOK, LockInv
<1>16. CASE UNCHANGED vars
  BY <1>16 DEF vars, TypeOK, LockInv
<1> QED
  BY <1>1, <1>2, <1>3, <1>4, <1>5, <1>6, <1>7, <1>8, <1>9, <1>10, <1>11, <1>12, <1>13, <1>14, <1>15, <1>16
  DEF Next, Progress, Receive

\* A step of one actor outside receive-pack, in a repository it leaves alone.
LEMMA QuietStep ==
  ASSUME TypeOK, TypeOK', WedgeInv, NEW a \in Actors,
         UNCHANGED <<tip, checkout, old, disturbed>>, orphaned' \subseteq orphaned,
         \A b \in Actors \ {a} : /\ pc'[b] = pc[b] /\ base'[b] = base[b]
                                 /\ answer'[b] = answer[b],
         Local /\ ~disturbed => pc[a] # "written",
         pc'[a] \notin Receiving,
         answer'[a] = "refused" => answer[a] = "refused",
         lock' # lock => (lock' = Nobody /\ lock = a) \/ (lock' = a /\ lock = Nobody)
  PROVE  WedgeInv'
<1> USE PushAssumption, ActorSets DEF Receiving
<1> SUFFICES ASSUME Local, ~disturbed PROVE WedgeInv'
  BY DEF WedgeInv
<1>1. orphaned' = {} /\ \A o \in Outsiders : pc'[o] \notin Receiving
  BY DEF WedgeInv
<1>2. \A w \in Writers : pc'[w] \in Receiving =>
         w # a /\ pc[w] = pc'[w] /\ old'[w] = tip' /\ base'[w] = base[w]
  BY DEF WedgeInv
<1>3. ASSUME CheckedOut, NEW w \in Writers, pc'[w] = "written" PROVE checkout' = Work(w)'
  BY <1>2, <1>3 DEF WedgeInv, Work
<1>4. ASSUME CheckedOut, NEW w \in Writers, pc'[w] = "checked" PROVE Clean'
  BY <1>2, <1>4 DEF WedgeInv, Clean
<1>5. ASSUME CheckedOut, lock' = Nobody \/ pc'[lock'] # "written" PROVE Clean'
  <2>1. lock = Nobody \/ pc[lock] # "written"
    BY <1>5 DEF TypeOK, Actors
  <2> QED
    BY <1>5, <2>1 DEF WedgeInv, Clean
<1>6. CheckedOut => \A b \in Actors : answer'[b] # "refused"
  BY DEF WedgeInv
<1> QED
  BY <1>1, <1>2, <1>3, <1>4, <1>5, <1>6 DEF WedgeInv

LEMMA NextWedgeInv ==
  TypeOK /\ TypeOK' /\ LogInv /\ LockInv /\ WedgeInv /\ [Next]_vars => WedgeInv'
<1> SUFFICES ASSUME TypeOK, TypeOK', LogInv, LockInv, WedgeInv, [Next]_vars PROVE WedgeInv'
  OBVIOUS
<1> USE PushAssumption, ActorSets DEF Goto, Return, Receiving, repo, private, result
<1>1. ASSUME NEW a \in Actors, Read(a) PROVE WedgeInv'
  BY <1>1, QuietStep DEF Read, TypeOK, States
<1>2. ASSUME NEW a \in Actors, Enter(a) PROVE WedgeInv'
  BY <1>2, QuietStep DEF Enter, TypeOK, States
<1>3. ASSUME NEW a \in Actors, GiveUp(a) PROVE WedgeInv'
  BY <1>3, QuietStep DEF GiveUp, TypeOK, States
<1>4. ASSUME NEW a \in Actors, CloneAndCommit(a) PROVE WedgeInv'
  <2>1. CASE CASPrecondition(base[a], tip)
    BY <1>4, <2>1, QuietStep DEF CloneAndCommit, TypeOK
  <2>2. CASE ~CASPrecondition(base[a], tip)
    BY <1>4, <2>2, QuietStep DEF CloneAndCommit, TypeOK
  <2> QED
    BY <2>1, <2>2
<1>5. ASSUME NEW a \in Actors, OutsiderCommit(a) PROVE WedgeInv'
  BY <1>5, QuietStep DEF OutsiderCommit, TypeOK, States
<1>6. ASSUME NEW a \in Actors, Advertise(a) PROVE WedgeInv'
  <2>1. CASE tip = parent[a]
    <3> SUFFICES ASSUME Local, ~disturbed' PROVE WedgeInv'
      BY DEF WedgeInv
    <3>1. a \in Writers /\ ~disturbed /\ orphaned = {} /\ orphaned' = {}
      BY <1>6, <2>1 DEF Advertise, TypeOK, WedgeInv, Actors
    <3>2. lock = a /\ \A w \in Writers : w # a => pc[w] \notin Receiving
      BY <1>6, <3>1 DEF Advertise, LockInv
    <3>3. /\ pc' = [pc EXCEPT ![a] = "sent"] /\ old' = [old EXCEPT ![a] = tip]
          /\ UNCHANGED <<tip, checkout, lock, base, answer>>
      BY <1>6, <2>1 DEF Advertise
    <3>4. CheckedOut => Clean /\ \A b \in Actors : answer[b] # "refused"
      BY <1>6, <3>1, <3>2 DEF Advertise, WedgeInv
    <3>5. \A o \in Outsiders : pc'[o] \notin Receiving
      BY <3>1, <3>3 DEF TypeOK, WedgeInv
    <3> QED
      BY <3>1, <3>2, <3>3, <3>4, <3>5 DEF TypeOK, WedgeInv, Clean
  <2>2. CASE tip # parent[a]
    <3>1. /\ pc[a] = "push" /\ Return(a, "conflict")
          /\ UNCHANGED <<tip, checkout, old, base, disturbed>>
      BY <1>6, <2>2, Classified DEF Advertise
    <3> QED
      BY <3>1, QuietStep DEF TypeOK
  <2> QED
    BY <2>1, <2>2
<1>7. ASSUME NEW a \in Actors, ReceiveCheck(a) PROVE WedgeInv'
  <2> SUFFICES ASSUME Local, ~disturbed PROVE WedgeInv'
    BY <1>7 DEF ReceiveCheck, WedgeInv
  <2>1. a \in Writers /\ orphaned = {} /\ lock = a
    BY <1>7 DEF ReceiveCheck, LockInv, WedgeInv, Actors
  <2>2. CheckedOut => Clean /\ \A b \in Actors : answer[b] # "refused"
    BY <1>7, <2>1 DEF ReceiveCheck, WedgeInv
  <2>3. /\ pc' = [pc EXCEPT ![a] = IF CheckedOut THEN "checked" ELSE "written"]
        /\ UNCHANGED <<tip, checkout, lock, old, base, answer, orphaned, disturbed>>
    BY <1>7, <2>2 DEF ReceiveCheck
  <2>4. \A w \in Writers : w # a => pc'[w] \notin Receiving
    BY <2>1, <2>3 DEF TypeOK, LockInv
  <2>5. pc'[a] \in {"checked", "written"} /\ old'[a] = tip' /\ (CheckedOut => pc'[a] = "checked")
    BY <1>7, <2>1, <2>3 DEF ReceiveCheck, TypeOK, WedgeInv
  <2>6. \A o \in Outsiders : pc'[o] \notin Receiving
    BY <2>1, <2>3 DEF TypeOK, WedgeInv
  <2> QED
    BY <2>1, <2>2, <2>3, <2>4, <2>5, <2>6 DEF TypeOK, WedgeInv, Clean
<1>8. ASSUME NEW a \in Actors, ReadTree(a) PROVE WedgeInv'
  <2> SUFFICES ASSUME Local, ~disturbed, CheckedOut PROVE WedgeInv'
    BY <1>8 DEF ReadTree, TypeOK, LockInv, WedgeInv
  <2>1. a \in Writers /\ a \notin orphaned /\ lock = a /\ checkout = Tree(tip)
    BY <1>8 DEF ReadTree, TypeOK, LockInv, WedgeInv, Clean, Actors
  <2>2. checkout # Dirty
    BY <2>1, TreeType DEF TypeOK, Trees
  <2>3. /\ pc' = [pc EXCEPT ![a] = "written"] /\ checkout' = Work(a) /\ Work(a)' = Work(a)
        /\ UNCHANGED <<tip, lock, old, base, answer, orphaned, disturbed>>
    BY <1>8, <2>2 DEF ReadTree, Work
  <2>4. \A w \in Writers : w # a => pc'[w] \notin Receiving
    BY <2>1, <2>3 DEF TypeOK, LockInv, WedgeInv
  <2>5. pc'[a] = "written" /\ old'[a] = tip' /\ lock' = a /\ a # Nobody
    BY <1>8, <2>1, <2>3 DEF ReadTree, TypeOK, WedgeInv
  <2>6. \A o \in Outsiders : pc'[o] \notin Receiving
    BY <2>1, <2>3 DEF TypeOK, WedgeInv
  <2> QED
    BY <2>1, <2>3, <2>4, <2>5, <2>6 DEF TypeOK, WedgeInv
<1>9. ASSUME NEW a \in Actors, RefCAS(a) PROVE WedgeInv'
  <2> SUFFICES ASSUME Local, ~disturbed PROVE WedgeInv'
    BY <1>9 DEF RefCAS, WedgeInv
  <2>1. a \in Writers /\ a \notin orphaned /\ lock = a /\ tip = old[a]
    BY <1>9 DEF RefCAS, TypeOK, LockInv, WedgeInv, Actors
  <2>2. /\ pc' = [pc EXCEPT ![a] = "landed"] /\ tip' = Work(a)
        /\ UNCHANGED <<checkout, lock, old, base, answer, orphaned, disturbed>>
    BY <1>9, <2>1 DEF RefCAS
  <2>3. CheckedOut => Clean'
    BY <1>9, <2>1, <2>2, WorkType DEF RefCAS, WedgeInv, Clean
  <2>4. \A w \in Writers : pc'[w] \notin Receiving
    BY <2>1, <2>2 DEF TypeOK, LockInv, WedgeInv
  <2> QED
    BY <2>1, <2>2, <2>3, <2>4 DEF TypeOK, WedgeInv
<1>10. ASSUME NEW a \in Actors, Reply(a) PROVE WedgeInv'
  BY <1>10, QuietStep DEF Reply, TypeOK
<1>11. ASSUME NEW a \in Actors, Abort(a) PROVE WedgeInv'
  <2>1. CASE disturbed'
    BY <2>1 DEF WedgeInv
  <2>2. CASE ~disturbed'
    BY <1>11, <2>2, QuietStep DEF Abort, TypeOK
  <2> QED
    BY <2>1, <2>2
<1>12. ASSUME NEW a \in Actors, Resubmit(a) PROVE WedgeInv'
  BY <1>12, QuietStep DEF Resubmit, TypeOK, States
<1>13. CASE Crash
  <2>1. CASE \E w \in Writers : pc[w] \in Receiving
    BY <1>13, <2>1 DEF Crash, WedgeInv
  <2>2. CASE ~\E w \in Writers : pc[w] \in Receiving
    BY <1>13, <2>2 DEF Crash, TypeOK, LockInv, WedgeInv, Clean
  <2> QED
    BY <2>1, <2>2
<1>14. CASE UserEdits
  BY <1>14 DEF UserEdits, WedgeInv
<1>15. CASE UserCleans
  BY <1>15 DEF UserCleans, WedgeInv
<1>16. CASE UNCHANGED vars
  BY <1>16 DEF vars, WedgeInv, Clean, Work
<1> QED
  BY <1>1, <1>2, <1>3, <1>4, <1>5, <1>6, <1>7, <1>8, <1>9, <1>10, <1>11, <1>12, <1>13, <1>14, <1>15, <1>16
  DEF Next, Progress, Receive
-----------------------------------------------------------------------------
LEMMA NextIInv == IInv /\ [Next]_vars => IInv'
  BY NextTypeOK, NextLogInv, NextConflictInv, NextLockInv, NextWedgeInv DEF IInv

(* The inductive invariant: the log, the conflicts, the lock and the       *)
(* checkout of CommitSubtree calls in any interleaving with their faults.  *)
THEOREM InductiveInvariant == Spec => []IInv
  BY InitInv, NextIInv, PTL DEF Spec

(* For any number of writers, no loser of a race leaves its tree in an     *)
(* undisturbed checkout and nobody is refused by it: the promise of        *)
(* localrepolock.go's process-wide lock.                                   *)
THEOREM NoWedge == Spec => []NoSelfInflictedWedge
<1>1. IInv => NoSelfInflictedWedge
  <2> SUFFICES ASSUME IInv, CheckedOut, ~disturbed
               PROVE  /\ \/ Clean
                         \/ lock \in Writers /\ pc[lock] = "written" /\ checkout = Work(lock)
                      /\ \A a \in Actors : answer[a] # "refused"
    BY DEF NoSelfInflictedWedge
  <2> QED
    BY PushAssumption DEF IInv, WedgeInv, TypeOK
<1> QED
  BY <1>1, InductiveInvariant, PTL

(* ErrRefCASLost is only told to an actor whose base is stale, whatever    *)
(* raced or failed (checkCASPrecondition and classifyPushError).           *)
THEOREM ConflictMeansStale == Spec => []OnlyLosersConflict
<1>1. IInv => OnlyLosersConflict
  <2> SUFFICES ASSUME IInv, NEW a \in Actors, answer[a] = "conflict" PROVE base[a] # tip
    BY DEF OnlyLosersConflict
  <2>1. Size(base[a]) < Size(tip) /\ Size(tip) \in Nat
    BY Sizes DEF IInv, ConflictInv, TypeOK
  <2> QED
    BY <2>1
<1> QED
  BY <1>1, InductiveInvariant, PTL

(* The conflict loop of an actor is bounded by the commits of the others.  *)
THEOREM ConflictsAreBounded == Spec => []ConflictsBounded
<1>1. IInv => ConflictsBounded
  BY DEF IInv, ConflictInv, ConflictsBounded, Size
<1> QED
  BY <1>1, InductiveInvariant, PTL
-----------------------------------------------------------------------------
(* Refinement.  Only two kinds of step are visible in the log: a ref update *)
(* that succeeds lands its mutation, and a reply, or the ledger found by a  *)
(* later read, acknowledges it.                                             *)

LEMMA InLogIsApplied == \A m \in Actors : Log!InLog(m) <=> m \in Applied(tip)
  BY DEF Log!InLog, Applied

LEMMA StepRefines == IInv /\ [Next]_vars => [Log!LogNext]_<<Tree(tip), acked>>
<1> SUFFICES ASSUME IInv, [Next]_vars, ~UNCHANGED <<Tree(tip), acked>>
             PROVE  \E m \in Actors : Log!Land(m) \/ Log!Ack(m)
  BY DEF Log!LogNext
<1> USE DEF repo, private, result, IInv
<1>1. ASSUME NEW a \in Actors, Read(a) PROVE Log!Ack(a)
  <2>1. a \in Applied(tip) /\ tip' = tip /\ acked' = acked \union {a}
    BY <1>1 DEF Read
  <2> QED
    BY <2>1, InLogIsApplied DEF Log!Ack
<1>2. ASSUME NEW a \in Actors, Reply(a) PROVE Log!Ack(a)
  <2>1. a \in Applied(tip) /\ tip' = tip /\ acked' = acked \union {a}
    BY <1>2 DEF Reply, LogInv
  <2> QED
    BY <2>1, InLogIsApplied DEF Log!Ack
<1>3. ASSUME NEW a \in Actors, RefCAS(a) PROVE Log!Land(a)
  <2>1. tip = old[a] /\ tip' = Work(a) /\ acked' = acked
    BY <1>3 DEF RefCAS
  <2>2. tip = base[a] /\ a \notin Applied(base[a])
    BY <1>3, <2>1 DEF RefCAS, LogInv, Receiving, Prepared
  <2>3. Tree(tip)' = Append(Tree(tip), a)
    BY <2>1, <2>2, WorkType DEF Work
  <2> QED
    BY <2>1, <2>2, <2>3, InLogIsApplied DEF Log!Land
<1>4. ASSUME NEW a \in Actors,
             \/ Enter(a) \/ GiveUp(a) \/ CloneAndCommit(a) \/ OutsiderCommit(a) \/ Advertise(a)
             \/ ReceiveCheck(a) \/ ReadTree(a) \/ Abort(a) \/ Resubmit(a)
      PROVE  FALSE
  BY <1>4 DEF Enter, GiveUp, CloneAndCommit, OutsiderCommit, Advertise, ReceiveCheck, ReadTree,
     Abort, Resubmit
<1>5. CASE Crash \/ UserEdits \/ UserCleans \/ UNCHANGED vars
  BY <1>5 DEF Crash, UserEdits, UserCleans, vars
<1> QED
  BY <1>1, <1>2, <1>3, <1>4, <1>5 DEF Next, Progress, Receive

(* CommitSubtree implements the append-only log for any number of writers  *)
(* and outsiders, with or without the lock, through any number of crashes  *)
(* and lost replies: no mutation is dropped, repeated or falsely reported. *)
THEOREM RefinesRefLog == Spec => ImplementsRefLog
<1>1. Init => Log!LogInit
  BY DEF Init, Log!LogInit, Tree
<1> QED
  BY <1>1, StepRefines, InductiveInvariant, PTL DEF Spec, ImplementsRefLog, Log!LogSpec
-----------------------------------------------------------------------------
(***************************************************************************)
(* LocalRepoLock, for any callers, paths, repositories and channels.       *)
(***************************************************************************)

\* Two keys never share a channel.
SlotsDistinct ==
    \A k, l \in Paths : slots[k] = slots[l] /\ slots[k] # NoSlot => k = l

\* A caller waits on, and holds, the channel of its own key.
SlotOfKey ==
    \A c \in Callers : at[c] \in {"select", "holding"} => slot[c] = slots[key[c]]

\* A repository that is on disk from the start has one key.
KeyOfCreated ==
    /\ Created \subseteq onDisk
    /\ \A c \in Callers :
          at[c] # "idle" /\ RealPath[path[c]] \in Created => key[c] = RealPath[path[c]]

\* The 1-slot channel admits one holder.
OneHolderPerSlot ==
    \A c, d \in Callers :
        at[c] = "holding" /\ at[d] = "holding" /\ slot[c] = slot[d] => c = d

LockIInv ==
    /\ LockTypeOK
    /\ SlotsDistinct
    /\ SlotOfKey
    /\ KeyOfCreated
    /\ OneHolderPerSlot
    /\ TokenHasOwner
-----------------------------------------------------------------------------
LEMMA LockInitInv == LockInit => LockIInv
  BY RepoAssumption DEF LockInit, LockIInv, LockTypeOK, LockStates, SlotsDistinct, SlotOfKey,
     KeyOfCreated, OneHolderPerSlot, TokenHasOwner

\* The type invariant is inductive on its own.
LEMMA LockNextTypeOK == LockTypeOK /\ [LockNext]_lockVars => LockTypeOK'
<1> SUFFICES ASSUME LockTypeOK, [LockNext]_lockVars PROVE LockTypeOK'
  OBVIOUS
<1> USE RepoAssumption DEF LockTypeOK, LockStates, MoveTo, caller
<1>1. ASSUME NEW r \in Repos, CreateRepo(r) PROVE LockTypeOK'
  BY <1>1 DEF CreateRepo
<1>2. ASSUME NEW c \in Callers, Cancel(c) PROVE LockTypeOK'
  BY <1>2 DEF Cancel
<1>3. ASSUME NEW c \in Callers, NEW p \in Paths, Call(c, p) PROVE LockTypeOK'
  BY <1>3 DEF Call, CanonicalLocalRepoPath
<1>4. ASSUME NEW c \in Callers, CheckCtx(c) PROVE LockTypeOK'
  BY <1>4 DEF CheckCtx
<1>5. ASSUME NEW c \in Callers, Lookup(c) PROVE LockTypeOK'
  BY <1>5 DEF Lookup
<1>6. ASSUME NEW c \in Callers, Send(c) PROVE LockTypeOK'
  BY <1>6 DEF Send
<1>7. ASSUME NEW c \in Callers, GiveUpWaiting(c) PROVE LockTypeOK'
  BY <1>7 DEF GiveUpWaiting
<1>8. ASSUME NEW c \in Callers, Unlock(c) PROVE LockTypeOK'
  BY <1>8 DEF Unlock
<1>9. ASSUME NEW c \in Callers, UnlockAgain(c) PROVE LockTypeOK'
  BY <1>9 DEF UnlockAgain
<1>10. CASE UNCHANGED lockVars
  BY <1>10 DEF lockVars
<1> QED
  BY <1>1, <1>2, <1>3, <1>4, <1>5, <1>6, <1>7, <1>8, <1>9, <1>10 DEF LockNext, Step

LEMMA LockNextInv == LockIInv /\ [LockNext]_lockVars => LockIInv'
<1> SUFFICES ASSUME LockIInv, [LockNext]_lockVars PROVE LockIInv'
  OBVIOUS
<1>0. LockTypeOK /\ LockTypeOK'
  BY LockNextTypeOK DEF LockIInv
<1> USE <1>0 DEF LockIInv, MoveTo, caller
<1> HIDE DEF LockTypeOK
<1>1. ASSUME NEW r \in Repos, CreateRepo(r) PROVE LockIInv'
  BY <1>1 DEF CreateRepo, SlotsDistinct, SlotOfKey, KeyOfCreated, OneHolderPerSlot,
     TokenHasOwner
<1>2. ASSUME NEW c \in Callers, Cancel(c) PROVE LockIInv'
  BY <1>2 DEF Cancel, SlotsDistinct, SlotOfKey, KeyOfCreated, OneHolderPerSlot,
     TokenHasOwner
<1>3. ASSUME NEW c \in Callers, NEW p \in Paths, Call(c, p) PROVE LockIInv'
  BY <1>3 DEF LockTypeOK, Call, CanonicalLocalRepoPath, SlotsDistinct, SlotOfKey,
     KeyOfCreated, OneHolderPerSlot, TokenHasOwner
<1>4. ASSUME NEW c \in Callers, CheckCtx(c) PROVE LockIInv'
  BY <1>4 DEF LockTypeOK, CheckCtx, SlotsDistinct, SlotOfKey, KeyOfCreated,
     OneHolderPerSlot, TokenHasOwner
\* The one step that makes a channel: it is new, so no other key has it.
<1>5. ASSUME NEW c \in Callers, Lookup(c) PROVE LockIInv'
  <2>1. PICK s \in Slots :
           /\ IF slots[key[c]] = NoSlot THEN s \notin {slots[k] : k \in Paths}
                                        ELSE s = slots[key[c]]
           /\ slots' = [slots EXCEPT ![key[c]] = s]
           /\ slot' = [slot EXCEPT ![c] = s]
    BY <1>5 DEF Lookup
  <2>2. /\ at[c] = "lookup"
        /\ at' = [at EXCEPT ![c] = "select"]
        /\ UNCHANGED <<onDisk, full, path, key, done>>
    BY <1>5 DEF Lookup
  <2>3. key[c] \in Paths /\ s # NoSlot
    BY RepoAssumption DEF LockTypeOK
  <2>4. \A k \in Paths : slots[k] # NoSlot => slots'[k] = slots[k]
    BY <2>1, <2>3 DEF LockTypeOK
  <2>5. SlotsDistinct'
    BY <2>1, <2>3 DEF LockTypeOK, SlotsDistinct
  <2>6. SlotOfKey'
    <3> SUFFICES ASSUME NEW d \in Callers, at'[d] \in {"select", "holding"}
                 PROVE  slot'[d] = slots'[key'[d]]
      BY DEF SlotOfKey
    <3>1. CASE d = c
      BY <3>1, <2>1, <2>2, <2>3 DEF LockTypeOK
    <3>2. CASE d # c
      <4>1. at[d] \in {"select", "holding"} /\ slot'[d] = slot[d]
        BY <3>2, <2>1, <2>2 DEF LockTypeOK
      <4>2. slot[d] = slots[key[d]] /\ slot[d] # NoSlot /\ key[d] \in Paths
        BY <4>1, RepoAssumption DEF LockTypeOK, SlotOfKey
      <4> QED
        BY <4>1, <4>2, <2>2, <2>4
    <3> QED
      BY <3>1, <3>2
  <2>7. KeyOfCreated'
    BY <2>2 DEF LockTypeOK, KeyOfCreated
  <2>8. \A d \in Callers : at'[d] = "holding" <=> at[d] = "holding"
    BY <2>2 DEF LockTypeOK
  <2>9. \A d \in Callers : at[d] = "holding" => slot'[d] = slot[d]
    BY <2>1, <2>2 DEF LockTypeOK
  <2>10. OneHolderPerSlot' /\ TokenHasOwner'
    BY <2>2, <2>8, <2>9 DEF OneHolderPerSlot, TokenHasOwner
  <2> QED
    BY <2>5, <2>6, <2>7, <2>10
<1>6. ASSUME NEW c \in Callers, Send(c) PROVE LockIInv'
  BY <1>6 DEF LockTypeOK, Send, SlotsDistinct, SlotOfKey, KeyOfCreated, OneHolderPerSlot,
     TokenHasOwner
<1>7. ASSUME NEW c \in Callers, GiveUpWaiting(c) PROVE LockIInv'
  BY <1>7 DEF LockTypeOK, GiveUpWaiting, SlotsDistinct, SlotOfKey, KeyOfCreated, OneHolderPerSlot,
     TokenHasOwner
<1>8. ASSUME NEW c \in Callers, Unlock(c) PROVE LockIInv'
  BY <1>8 DEF LockTypeOK, Unlock, SlotsDistinct, SlotOfKey, KeyOfCreated, OneHolderPerSlot,
     TokenHasOwner
<1>9. ASSUME NEW c \in Callers, UnlockAgain(c) PROVE LockIInv'
  BY <1>9 DEF LockTypeOK, UnlockAgain, SlotsDistinct, SlotOfKey, KeyOfCreated,
     OneHolderPerSlot, TokenHasOwner
<1>10. CASE UNCHANGED lockVars
  BY <1>10 DEF lockVars, SlotsDistinct, SlotOfKey, KeyOfCreated, OneHolderPerSlot,
     TokenHasOwner
<1> QED
  BY <1>1, <1>2, <1>3, <1>4, <1>5, <1>6, <1>7, <1>8, <1>9, <1>10 DEF LockNext, Step

(* The inductive invariant: channels are distinct, belong to their keys,   *)
(* and hold their token exactly while their one holder is in the callback. *)
THEOREM LockInvariant == LockSpec => []LockIInv
  BY LockInitInv, LockNextInv, PTL DEF LockSpec

\* Two holders of one repository have one key, hence one channel.
LEMMA InvImpliesMutualExclusion == LockIInv => MutualExclusion
<1> SUFFICES ASSUME LockIInv, NEW c \in Callers, NEW d \in Callers,
                    at[c] = "holding", at[d] = "holding",
                    RealPath[path[c]] = RealPath[path[d]],
                    RealPath[path[c]] \in Created
             PROVE  c = d
  BY DEF MutualExclusion
<1>1. key[c] = key[d]
  BY DEF LockIInv, KeyOfCreated
<1>2. slot[c] = slot[d]
  BY <1>1 DEF LockIInv, SlotOfKey
<1> QED
  BY <1>2 DEF LockIInv, OneHolderPerSlot

(* At most one caller is inside the callback for a repository, however it  *)
(* spelled the path, whatever was cancelled or unlocked twice              *)
(* (LockLocalRepo).                                                        *)
THEOREM MutualExclusionHolds == LockSpec => []MutualExclusion
  BY LockInvariant, InvImpliesMutualExclusion, PTL

(* No token is left behind in a channel and none is drained early          *)
(* (the once around unlock, the two arms of the select).                   *)
THEOREM TokenHasOwnerHolds == LockSpec => []TokenHasOwner
<1>1. LockIInv => TokenHasOwner
  BY DEF LockIInv
<1> QED
  BY LockInvariant, <1>1, PTL
-----------------------------------------------------------------------------
(* Refinement of RepoLock: Send takes the repository, Unlock gives it      *)
(* back, and every other step leaves the callback's occupants alone.       *)

LEMMA LockInitRefines == LockInit => Abstract!LockInit
  BY DEF LockInit, Inside, Abstract!LockInit

LEMMA SendRefines ==
  ASSUME LockIInv, MutualExclusion', NEW c \in Callers, Send(c)
  PROVE  [Abstract!LockNext]_([r \in Created |-> Inside(r)])
<1>0. /\ at[c] = "select" /\ at' = [at EXCEPT ![c] = "holding"] /\ path' = path
      /\ at \in [Callers -> LockStates]
  BY DEF Send, MoveTo, caller, LockIInv, LockTypeOK
<1>1. \A r \in Created : Inside(r)' = IF r = RealPath[path[c]] THEN Inside(r) \union {c}
                                                             ELSE Inside(r)
  BY <1>0 DEF Inside
<1>2. CASE RealPath[path[c]] \in Created
  <2>1. PICK r \in Created : r = RealPath[path[c]]
    BY <1>2
  <2>2. Inside(r) = {}
    BY <1>0, <2>1 DEF Inside, MutualExclusion
  <2>3. [q \in Created |-> Inside(q)'] = [[q \in Created |-> Inside(q)] EXCEPT ![r] = {c}]
    BY <1>1, <2>1, <2>2
  <2>4. Abstract!Take(c, r)
    BY <2>2, <2>3 DEF Abstract!Take
  <2> QED
    BY <2>4 DEF Abstract!LockNext
<1>3. CASE RealPath[path[c]] \notin Created
  BY <1>1, <1>3
<1> QED
  BY <1>2, <1>3

LEMMA UnlockRefines ==
  ASSUME LockIInv, NEW c \in Callers, Unlock(c)
  PROVE  [Abstract!LockNext]_([r \in Created |-> Inside(r)])
<1>0. /\ at[c] = "holding" /\ at' = [at EXCEPT ![c] = "released"] /\ path' = path
      /\ at \in [Callers -> LockStates] /\ MutualExclusion
  BY InvImpliesMutualExclusion DEF Unlock, MoveTo, caller, LockIInv, LockTypeOK
<1>1. \A r \in Created : Inside(r)' = Inside(r) \ {c}
  BY <1>0 DEF Inside
<1>2. CASE RealPath[path[c]] \in Created
  <2>1. PICK r \in Created : r = RealPath[path[c]]
    BY <1>2
  <2>2. Inside(r) = {c}
    BY <1>0, <2>1 DEF Inside, MutualExclusion
  <2>3. \A q \in Created \ {r} : c \notin Inside(q)
    BY <2>1 DEF Inside
  <2>4. \A q \in Created : Inside(q)' = IF q = r THEN {} ELSE Inside(q)
    BY <1>1, <2>2, <2>3
  <2>5. [q \in Created |-> Inside(q)'] = [[q \in Created |-> Inside(q)] EXCEPT ![r] = {}]
    BY <2>4
  <2>6. Abstract!Give(c, r)
    BY <2>2, <2>5 DEF Abstract!Give
  <2> QED
    BY <2>6 DEF Abstract!LockNext
<1>3. CASE RealPath[path[c]] \notin Created
  <2>1. \A r \in Created : Inside(r)' = Inside(r)
    BY <1>1, <1>3 DEF Inside
  <2> QED
    BY <2>1
<1> QED
  BY <1>2, <1>3

\* The steps that move nobody into or out of the callback.
LEMMA OtherStepsStutter ==
  ASSUME LockIInv, NEW c \in Callers,
         \/ \E p \in Paths : Call(c, p)
         \/ CheckCtx(c) \/ Lookup(c) \/ GiveUpWaiting(c) \/ UnlockAgain(c)
  PROVE  \A r \in Created : Inside(r)' = Inside(r)
<1>1. at \in [Callers -> LockStates] /\ path \in [Callers -> Paths]
  BY DEF LockIInv, LockTypeOK
<1>2. \A d \in Callers :
         /\ at'[d] = "holding" <=> at[d] = "holding"
         /\ at[d] = "holding" => path'[d] = path[d]
  BY <1>1 DEF Call, CheckCtx, Lookup, GiveUpWaiting, UnlockAgain, MoveTo, caller
<1> QED
  BY <1>2 DEF Inside

LEMMA LockStepRefines ==
  LockIInv /\ MutualExclusion' /\ [LockNext]_lockVars
     => [Abstract!LockNext]_([r \in Created |-> Inside(r)])
<1> SUFFICES ASSUME LockIInv, MutualExclusion', [LockNext]_lockVars
             PROVE  [Abstract!LockNext]_([r \in Created |-> Inside(r)])
  OBVIOUS
<1>1. ASSUME NEW c \in Callers, Send(c)
      PROVE  [Abstract!LockNext]_([r \in Created |-> Inside(r)])
  BY <1>1, SendRefines
<1>2. ASSUME NEW c \in Callers, Unlock(c)
      PROVE  [Abstract!LockNext]_([r \in Created |-> Inside(r)])
  BY <1>2, UnlockRefines
<1>3. ASSUME NEW c \in Callers,
             \/ \E p \in Paths : Call(c, p)
             \/ CheckCtx(c) \/ Lookup(c) \/ GiveUpWaiting(c) \/ UnlockAgain(c)
      PROVE  [Abstract!LockNext]_([r \in Created |-> Inside(r)])
  <2>1. \A r \in Created : Inside(r)' = Inside(r)
    BY <1>3, OtherStepsStutter
  <2> QED
    BY <2>1
<1>4. CASE UNCHANGED <<at, path>>
  BY <1>4 DEF Inside
<1>5. ASSUME NEW r \in Repos, CreateRepo(r) PROVE UNCHANGED <<at, path>>
  BY <1>5 DEF CreateRepo, caller
<1>6. ASSUME NEW c \in Callers, Cancel(c) PROVE UNCHANGED <<at, path>>
  BY <1>6 DEF Cancel
<1> QED
  BY <1>1, <1>2, <1>3, <1>4, <1>5, <1>6 DEF LockNext, Step, lockVars

(* The slot table and its channels implement the abstract lock over the    *)
(* repositories that exist from the start (LockLocalRepo, PushLocal).      *)
THEOREM RefinesRepoLock == LockSpec => ImplementsRepoLock
<1>1. LockIInv => MutualExclusion
  BY InvImpliesMutualExclusion
<1> QED
  BY LockInitRefines, LockStepRefines, LockInvariant, <1>1, PTL
  DEF LockSpec, ImplementsRepoLock, Abstract!LockSpec
=============================================================================
