------------------------- MODULE HostedGitHub_proofs -------------------------
(***************************************************************************)
(* What the callers of one installation are promised, for every number of  *)
(* callers, repositories, contents, faults and runs on a page: one         *)
(* inductive invariant per component, each kept by that component's steps  *)
(* and left alone by the others'.                                          *)
(***************************************************************************)
EXTENDS HostedGitHub, FiniteSetTheorems, SequenceTheorems, TLAPS

-----------------------------------------------------------------------------
(* The catalogue.  A provisioner that has begun answers for the repository *)
(* it wants until it returns, and what it returns says what it left.       *)

CatalogSteps == {"create", "find", "topics", "list", "done"}
CatalogAnswers == Catalog!TerminalKinds \union {"none", "ok"}

CatalogShape ==
    /\ catalog \in [Repos -> {"absent", "bare", "topics"}]
    /\ pcat \in [Provisioners \union Listers -> CatalogSteps]
    /\ answer \in [Provisioners \union Listers -> CatalogAnswers]
    /\ \A p \in Provisioners : pcat[p] # "list"
    /\ \A p \in Provisioners : pcat[p] # "done" => answer[p] = "none"

Began(p) == pcat[p] # "done" \/ answer[p] # "none"

\* A repository that is or may come to be bare is some provisioner's.
BareHasOwner ==
    \A r \in Repos : catalog[r] = "bare" \/ r \in posts =>
        \E p \in Provisioners : Wanted[p] = r /\ Began(p)

\* Success was the last call's: only a deletion takes the topics away.
SuccessHasTopics ==
    \A p \in Provisioners : answer[p] = "ok" =>
        catalog[Wanted[p]] = "topics" \/ Wanted[p] \in deleted

CatalogInv == CatalogShape /\ posts \subseteq Repos /\ BareHasOwner /\ SuccessHasTopics
-----------------------------------------------------------------------------
(* The listing.  Rows come in the order of the repositories' places; a row *)
(* that was there all along and was not read, though its place is among    *)
(* those already read, was moved there by a deletion.                      *)

Place(S, r) == Cardinality({q \in S : q <= r})
InOrder(S) == [i \in 1 .. Cardinality(S) |-> CHOOSE r \in S : Place(S, r) = i]
Rows(s) == {s[i] : i \in 1 .. Len(s)}
Missing(S, kept, n, rows) == {r \in kept : Place(S, r) <= n} \ rows

ListingShape ==
    /\ listed \in [Listers -> Seq(Repos)]
    /\ awaited \in [Listers -> SUBSET Catalog!Present]
    /\ lost \in [Listers -> Nat]
    /\ deleted \subseteq Repos /\ Cardinality(deleted) <= MaxDeletions
    /\ \A l \in Listers : lost[l] <= Cardinality(deleted)

ListerAnswers ==
    \A l \in Listers : /\ pcat[l] \in {"list", "done"}
                       /\ answer[l] \in Catalog!TerminalKinds \union {"none", "ok"}
                       /\ pcat[l] # "done" => answer[l] = "none"

WholePages ==
    \A l \in Listers : pcat[l] = "list" => \E k \in Nat : Len(listed[l]) = k * PageSize

MissingAreLost ==
    \A l \in Listers : pcat[l] = "list" =>
        Cardinality(Missing(Catalog!Present, awaited[l], Len(listed[l]), Rows(listed[l]))) <= lost[l]

\* What is missing when the lister returns.
NoneMissing ==
    \A l \in Listers : answer[l] = "ok" => Cardinality(awaited[l] \ Rows(listed[l])) <= lost[l]

ListingInv == ListingShape /\ ListerAnswers /\ WholePages /\ MissingAreLost /\ NoneMissing
-----------------------------------------------------------------------------
(* The seat.  The history since a read: it read what the log held then.    *)

ReadOfLog ==
    \A s \in Seaters : since[s] <= Len(log) /\ seatedAt[s] <= Len(log)

TipHasContent ==
    \A s \in Seaters : pseat[s] = "tip" => since[s] >= 1 /\ log[since[s]] = Content[s]

PutNamesTheRead ==
    \A s \in Seaters : pseat[s] = "put" =>
        seen[s] = IF since[s] = 0 THEN NoFile ELSE log[since[s]]

SeatInv == /\ Seat!SeatTypeOK /\ ReadOfLog /\ TipHasContent /\ PutNamesTheRead
           /\ Seat!RefusalMeansRace
-----------------------------------------------------------------------------
(* The dispatched runs.  First(i) is the oldest run of the token.          *)

First(i) == /\ i \in DOMAIN runs /\ runs[i].ours
            /\ \A j \in DOMAIN runs : runs[j].ours => i <= j

OneIsFirst == (\E i \in DOMAIN runs : runs[i].ours) => \E i \in DOMAIN runs : First(i)

\* While all runs fit on the page, nobody cancels the first ...
FirstLives == Len(runs) <= PageSize => \A i \in DOMAIN runs : First(i) => runs[i].live

\* ... because whoever cancels has it in sight,
CancelsSeeFirst ==
    \A s \in Submitters : psub[s] = "cancel" =>
        /\ \A i \in listedRuns[s] : runs[i].ours
        /\ Len(runs) <= PageSize => \E i \in listedRuns[s] : First(i)

\* ... and answers it.
HandleIsFirst ==
    \A s \in Submitters : handle[s] # 0 =>
        /\ runs[handle[s]].ours
        /\ Len(runs) <= PageSize => First(handle[s])

RunsInv == Runs!RunsTypeOK /\ OneIsFirst /\ FirstLives /\ CancelsSeeFirst /\ HandleIsFirst
-----------------------------------------------------------------------------
(* The store.  A content's branch, once there, keeps its only commit.      *)

CloneIsBranch == \A o \in Storers : cloned[o].tip # NoCommit => output = cloned[o].tip

StoredIsThere ==
    \A o \in Storers : /\ stored[o] = "ok" => output = address[o] /\ output # NoCommit
                       /\ stored[o] = "Conflict" => output # NoCommit

StoreInv == Store!StoreTypeOK /\ CloneIsBranch /\ StoredIsThere
-----------------------------------------------------------------------------
(* The session branch.  No commit holds a mutation twice, and one that is  *)
(* about to be pushed is a tip without the mutation, and the mutation.     *)

OnceIn(c) == c # NoBranch =>
                \A i, j \in DOMAIN c : c[i] = c[j] /\ c[i] \in Writers => i = j

ReadsWithout ==
    \A w \in Writers : psess[w] = "read" => OnceIn(base[w]) /\ w \notin Session!Mutations(base[w])

PushesOnce ==
    \A w \in Writers : psess[w] = "push" =>
        work[w] # NoBranch /\ OnceIn(work[w]) /\ w \in Session!Mutations(work[w])

AckedKept ==
    acked \subseteq Session!Mutations(session) \union Session!Mutations(main) \union dropped

SessionInv == /\ Session!SessionTypeOK /\ OnceIn(main) /\ OnceIn(session)
              /\ ReadsWithout /\ PushesOnce /\ AckedKept
-----------------------------------------------------------------------------
(* The store's steps.                                                      *)

LEMMA NoCommitIsNone == NoCommit \notin Store!OutputCommits
  BY CrewAssumption DEF Store!OutputCommits

LEMMA MadeIsCommit ==
    ASSUME StoreInv, NEW o \in Storers
    PROVE  Store!Made(o) \in Store!OutputCommits
  BY DEF StoreInv, Store!StoreTypeOK, Store!Made, Store!OutputCommits

LEMMA StoreInit == Init => StoreInv
  <1> SUFFICES ASSUME Init PROVE StoreInv
      OBVIOUS
  <1>1. Store!InitStore(crew) BY DEF Init
  <1>2. onDefault \in BOOLEAN BY <1>1 DEF Store!InitStore
  <1>3. Store!StoreTypeOK BY <1>1, <1>2 DEF Store!InitStore, Store!StoreTypeOK
  <1>4. CloneIsBranch BY <1>1 DEF Store!InitStore, CloneIsBranch
  <1>5. StoredIsThere BY <1>1 DEF Store!InitStore, StoredIsThere
  <1>6. QED BY <1>3, <1>4, <1>5 DEF StoreInv

LEMMA StoreUnchanged == StoreInv /\ UNCHANGED storeVars => StoreInv'
  BY DEF storeVars, StoreInv, Store!StoreTypeOK, CloneIsBranch, StoredIsThere

\* A served push sets the tip of an absent branch, and no other.
LEMMA PushServed ==
    ASSUME StoreInv, NEW c \in Store!OutputCommits, Store!ServePush(c)
    PROVE  /\ output' \in Store!OutputCommits
           /\ output # NoCommit => output' = output
           /\ Store!Pushable(c) => output' = c
  BY NoCommitIsNone DEF Store!ServePush, Store!Pushable, StoreInv, Store!StoreTypeOK

\* A failed attempt is repeated, or its error returned, and never a commit.
LEMMA StoreFailure ==
    ASSUME StoreInv, NEW o \in Storers, pstore[o] # "done",
           NEW kind \in {"Transient", "Auth", "Infrastructure"},
           Store!StoreFailed(o, kind)
    PROVE  /\ pstore' \in [Storers -> {"clone", "commit", "push", "done"}]
           /\ stored' \in [Storers -> Store!Kinds \union {"none", "ok"}]
           /\ address' \in [Storers -> Store!OutputCommits \union {NoCommit}]
           /\ \A q \in Storers : pstore'[q] # "done" => stored'[q] = "none"
           /\ \A q \in Storers : /\ stored'[q] = "ok" => stored[q] = "ok" /\ address'[q] = address[q]
                                 /\ stored'[q] = "Conflict" => stored[q] = "Conflict"
  BY DEF StoreInv, Store!StoreTypeOK, Store!StoreFailed, Store!StoreDone, Store!StoreStep,
         Store!Kinds, Store!RetryableKinds, Store!TerminalKinds

\* What a caller finished with is known of the branch it left.
LEMMA StoreReturns ==
    ASSUME StoreInv, NEW o \in Storers, NEW c \in Store!OutputCommits \union {NoCommit},
           NEW result \in {"ok", "Conflict"}, Store!StoreDone(o, result, c)
    PROVE  /\ pstore' \in [Storers -> {"clone", "commit", "push", "done"}]
           /\ stored' \in [Storers -> Store!Kinds \union {"none", "ok"}]
           /\ address' \in [Storers -> Store!OutputCommits \union {NoCommit}]
           /\ \A q \in Storers : pstore'[q] # "done" => stored'[q] = "none"
           /\ \A q \in Storers : q # o => stored'[q] = stored[q] /\ address'[q] = address[q]
           /\ stored'[o] = result /\ address'[o] = c
  BY DEF StoreInv, Store!StoreTypeOK, Store!StoreDone,
         Store!Kinds, Store!RetryableKinds, Store!TerminalKinds

LEMMA StoreStepKeeps == StoreInv /\ Len(log) \in Nat /\ Store!NextStore => StoreInv'
  <1> SUFFICES ASSUME StoreInv, Len(log) \in Nat, Store!NextStore PROVE StoreInv'
      OBVIOUS
  <1>1. ASSUME NEW o \in Storers, Store!Clone(o) PROVE StoreInv'
      BY <1>1 DEF Store!Clone, Store!StoreStep, StoreInv, Store!StoreTypeOK, CloneIsBranch,
                  StoredIsThere
  <1>2. ASSUME NEW o \in Storers, Store!Commit(o) PROVE StoreInv'
      <2>1. CASE cloned[o].tip # NoCommit /\ Store!StoreDone(o, "ok", cloned[o].tip)
          <3>1. cloned[o].tip \in Store!OutputCommits \union {NoCommit}
              BY DEF StoreInv, Store!StoreTypeOK
          <3>2. /\ pstore' \in [Storers -> {"clone", "commit", "push", "done"}]
                /\ stored' \in [Storers -> Store!Kinds \union {"none", "ok"}]
                /\ address' \in [Storers -> Store!OutputCommits \union {NoCommit}]
                /\ \A q \in Storers : pstore'[q] # "done" => stored'[q] = "none"
                /\ \A q \in Storers : q # o => stored'[q] = stored[q] /\ address'[q] = address[q]
                /\ stored'[o] = "ok" /\ address'[o] = cloned[o].tip
              BY <2>1, <3>1, StoreReturns
          <3>3. UNCHANGED <<onDefault, output, pushes, cloned>> BY <1>2 DEF Store!Commit
          <3>4. Store!StoreTypeOK' BY <3>2, <3>3 DEF StoreInv, Store!StoreTypeOK
          <3>5. CloneIsBranch' BY <3>3 DEF StoreInv, CloneIsBranch
          <3>6. StoredIsThere'
              <4>1. output = cloned[o].tip /\ output # NoCommit
                  BY <2>1 DEF StoreInv, CloneIsBranch
              <4>2. QED BY <3>2, <3>3, <4>1 DEF StoreInv, StoredIsThere
          <3>7. QED BY <3>4, <3>5, <3>6 DEF StoreInv
      <2>2. CASE Store!StoreFailed(o, "Infrastructure")
          <3>1. pstore[o] # "done" BY <1>2 DEF Store!Commit
          <3>2. QED BY <1>2, <2>2, <3>1, StoreFailure DEF Store!Commit, StoreInv,
                       Store!StoreTypeOK, CloneIsBranch, StoredIsThere
      <2>3. CASE Store!StoreStep(o, "push")
          BY <1>2, <2>3 DEF Store!Commit, Store!StoreStep, StoreInv, Store!StoreTypeOK,
                            CloneIsBranch, StoredIsThere
      <2>4. QED BY <1>2, <2>1, <2>2, <2>3 DEF Store!Commit
  <1>3. ASSUME NEW o \in Storers, Store!Push(o) PROVE StoreInv'
      <2> DEFINE c == Store!Made(o)
      <2>1. c \in Store!OutputCommits BY MadeIsCommit
      <2>2. c # NoCommit BY <2>1, NoCommitIsNone
      <2> HIDE DEF c
      <2>3. CASE /\ Store!ServePush(c) /\ UNCHANGED <<pushes, onDefault, cloned>>
                 /\ Store!Pushable(c) /\ Store!StoreDone(o, "ok", c)
          <3>1. /\ pstore' \in [Storers -> {"clone", "commit", "push", "done"}]
                /\ stored' \in [Storers -> Store!Kinds \union {"none", "ok"}]
                /\ address' \in [Storers -> Store!OutputCommits \union {NoCommit}]
                /\ \A q \in Storers : pstore'[q] # "done" => stored'[q] = "none"
                /\ \A q \in Storers : q # o => stored'[q] = stored[q] /\ address'[q] = address[q]
                /\ stored'[o] = "ok" /\ address'[o] = c
              BY <2>1, <2>3, StoreReturns
          <3>2. output' = c /\ (output # NoCommit => output' = output)
              BY <2>1, <2>3, PushServed
          <3>3. Store!StoreTypeOK' BY <2>1, <2>3, <3>1, <3>2 DEF StoreInv, Store!StoreTypeOK
          <3>4. CloneIsBranch' BY <2>3, <3>2 DEF StoreInv, CloneIsBranch
          <3>5. StoredIsThere' BY <2>2, <3>1, <3>2 DEF StoreInv, StoredIsThere
          <3>6. QED BY <3>3, <3>4, <3>5 DEF StoreInv
      <2>4. CASE /\ Store!ServePush(c) /\ UNCHANGED <<pushes, onDefault, cloned>>
                 /\ ~Store!Pushable(c) /\ Store!StoreDone(o, "Conflict", NoCommit)
          <3>1. output # NoCommit BY <2>4 DEF Store!Pushable
          <3>2. QED BY <2>1, <2>4, <3>1, PushServed, StoreReturns DEF StoreInv, Store!StoreTypeOK,
                       CloneIsBranch, StoredIsThere
      <2>5. CASE /\ Store!StoreFailed(o, "Transient") /\ UNCHANGED <<onDefault, cloned>>
                 /\ \/ Store!ServePush(c) /\ UNCHANGED pushes
                    \/ pushes' = pushes \union {c} /\ UNCHANGED output
          <3>1. pstore[o] # "done" BY <1>3 DEF Store!Push
          <3>2. QED BY <2>1, <2>5, <3>1, PushServed, StoreFailure DEF StoreInv, Store!StoreTypeOK,
                       CloneIsBranch, StoredIsThere
      <2>6. QED BY <1>3, <2>3, <2>4, <2>5 DEF Store!Push, Store!PushResult, c
  <1>4. ASSUME NEW o \in Storers, Store!StoreRefused(o) PROVE StoreInv'
      <2>1. PICK kind \in {"Transient", "Auth", "Infrastructure"} : Store!StoreFailed(o, kind)
          BY <1>4 DEF Store!StoreRefused
      <2>2. pstore[o] # "done" BY <1>4 DEF Store!StoreRefused
      <2>3. QED BY <1>4, <2>1, <2>2, StoreFailure DEF Store!StoreRefused, StoreInv,
                   Store!StoreTypeOK, CloneIsBranch, StoredIsThere
  <1>5. CASE Store!ServeLatePush
      <2>1. PICK c \in pushes : Store!ServePush(c) /\ pushes' = pushes \ {c}
          BY <1>5 DEF Store!ServeLatePush
      <2>2. c \in Store!OutputCommits BY DEF StoreInv, Store!StoreTypeOK
      <2>3. QED BY <1>5, <2>1, <2>2, PushServed DEF Store!ServeLatePush, StoreInv,
                   Store!StoreTypeOK, CloneIsBranch, StoredIsThere
  <1>6. QED BY <1>1, <1>2, <1>3, <1>4, <1>5 DEF Store!NextStore, Store!StoreSteps
-----------------------------------------------------------------------------
(* The seat's steps.                                                       *)

LEMMA SeatInit == Init => SeatInv
  <1> SUFFICES ASSUME Init PROVE SeatInv
      OBVIOUS
  <1>1. PICK old \in SUBSET Seat!Contents : Seat!InitSeat(crew, old)
      BY DEF Init, Seat!Contents
  <1>2. log \in Seq(Seat!Contents)
      <2>1. CASE log = <<>> BY <2>1
      <2>2. ASSUME NEW x \in old, log = <<x>> PROVE log \in Seq(Seat!Contents) BY <2>2
      <2>3. QED BY <1>1, <2>1, <2>2 DEF Seat!InitSeat
  <1>3. Seat!SeatTypeOK
      BY <1>1, <1>2 DEF Seat!InitSeat, Seat!SeatTypeOK, Seat!Steps
  <1>4. ReadOfLog BY <1>1, <1>2 DEF Seat!InitSeat, ReadOfLog
  <1>5. TipHasContent /\ PutNamesTheRead /\ Seat!RefusalMeansRace
      BY <1>1 DEF Seat!InitSeat, TipHasContent, PutNamesTheRead, Seat!RefusalMeansRace
  <1>6. QED BY <1>3, <1>4, <1>5 DEF SeatInv

LEMMA SeatUnchanged == SeatInv /\ UNCHANGED seatVars => SeatInv'
  BY DEF seatVars, SeatInv, Seat!SeatTypeOK, ReadOfLog, TipHasContent, PutNamesTheRead,
         Seat!RefusalMeansRace

\* A served write appends to the log, or changes nothing.
LEMMA WriteServed ==
    ASSUME SeatInv, NEW q, q.to \in Seat!Contents, Seat!ServePut(q)
    PROVE  /\ log' \in Seq(Seat!Contents)
           /\ Len(log) <= Len(log')
           /\ \A i \in 1 .. Len(log) : log'[i] = log[i]
           /\ Seat!Matches(q) => Len(log') = Len(log) + 1 /\ log'[Len(log) + 1] = q.to
  <1>1. log \in Seq(Seat!Contents) BY DEF SeatInv, Seat!SeatTypeOK
  <1>2. QED BY <1>1 DEF Seat!ServePut

\* The history of the callers is not disturbed by what is appended.
LEMMA HistoryKept ==
    ASSUME SeatInv, log' \in Seq(Seat!Contents), Len(log) <= Len(log'),
           \A i \in 1 .. Len(log) : log'[i] = log[i],
           NEW s \in Seaters
    PROVE  /\ since[s] <= Len(log') /\ seatedAt[s] <= Len(log')
           /\ pseat[s] = "tip" => since[s] >= 1 /\ log'[since[s]] = Content[s]
           /\ pseat[s] = "put" =>
                 seen[s] = IF since[s] = 0 THEN NoFile ELSE log'[since[s]]
           /\ seated[s] = "ok" =>
                 \E i \in 1 .. seatedAt[s] : i >= since[s] /\ log'[i] = Content[s]
           /\ seated[s] \in {"Conflict", "ContractMisuse"} => Len(log') > since[s]
  <1>1. log \in Seq(Seat!Contents) /\ since[s] \in Nat /\ seatedAt[s] \in Nat
      BY DEF SeatInv, Seat!SeatTypeOK
  <1>2. since[s] <= Len(log) /\ seatedAt[s] <= Len(log) BY DEF SeatInv, ReadOfLog
  <1>3. Len(log) \in Nat /\ Len(log') \in Nat BY <1>1
  <1>4. pseat[s] = "tip" => since[s] >= 1 /\ log'[since[s]] = Content[s]
      BY <1>1, <1>2, <1>3 DEF SeatInv, TipHasContent
  <1>5. pseat[s] = "put" => seen[s] = IF since[s] = 0 THEN NoFile ELSE log'[since[s]]
      BY <1>1, <1>2, <1>3 DEF SeatInv, PutNamesTheRead
  <1>6. ASSUME seated[s] = "ok"
        PROVE  \E i \in 1 .. seatedAt[s] : i >= since[s] /\ log'[i] = Content[s]
      <2>1. PICK i \in 1 .. seatedAt[s] : i >= since[s] /\ log[i] = Content[s]
          BY <1>6 DEF SeatInv, Seat!RefusalMeansRace
      <2>2. i \in 1 .. Len(log) BY <1>1, <1>2, <1>3
      <2>3. QED BY <2>1, <2>2
  <1>7. seated[s] \in {"Conflict", "ContractMisuse"} => Len(log') > since[s]
      BY <1>1, <1>2, <1>3 DEF SeatInv, Seat!RefusalMeansRace
  <1>8. QED BY <1>1, <1>2, <1>3, <1>4, <1>5, <1>6, <1>7

\* A failed attempt is repeated, or returns an error that is no refusal.
LEMMA SeatFailure ==
    ASSUME SeatInv, NEW s \in Seaters, pseat[s] # "done",
           NEW kind \in {"Transient", "RateLimited", "Auth"}, Seat!Failed(s, kind)
    PROVE  /\ pseat' \in [Seaters -> Seat!Steps]
           /\ seated' \in [Seaters -> Seat!Kinds \union {"none", "ok"}]
           /\ seatedAt' \in [Seaters -> Nat]
           /\ \A q \in Seaters : pseat'[q] # "done" => seated'[q] = "none"
           /\ \A q \in Seaters \ {s} : /\ pseat'[q] = pseat[q] /\ seated'[q] = seated[q]
                                       /\ seatedAt'[q] = seatedAt[q]
           /\ pseat'[s] \in {"get", "done"} /\ seated'[s] \in {"none", "Auth"}
           /\ seatedAt'[s] \in {seatedAt[s], 0}
  <1>1. CASE Seat!Step(s, "get")
      BY <1>1 DEF SeatInv, Seat!SeatTypeOK, Seat!Step, Seat!Steps
  <1>2. CASE kind = "Auth" /\ Seat!Done(s, kind, 0)
      BY <1>2 DEF SeatInv, Seat!SeatTypeOK, Seat!Done, Seat!Steps, Seat!Kinds, Seat!TerminalKinds
  <1>3. QED BY <1>1, <1>2 DEF Seat!Failed, Seat!Retried, Seat!RetryableKinds

\* So is a step after which nothing is served.
LEMMA FailureKeeps ==
    ASSUME SeatInv, NEW s \in Seaters, pseat[s] # "done",
           NEW kind \in {"Transient", "RateLimited", "Auth"}, Seat!Failed(s, kind),
           log' \in Seq(Seat!Contents), Len(log) <= Len(log'),
           \A i \in 1 .. Len(log) : log'[i] = log[i],
           puts' \subseteq [from : Seat!Contents \union {NoFile}, to : Seat!Contents],
           UNCHANGED <<seen, since>>
    PROVE  SeatInv'
  <1>1. /\ pseat' \in [Seaters -> Seat!Steps]
        /\ seated' \in [Seaters -> Seat!Kinds \union {"none", "ok"}]
        /\ seatedAt' \in [Seaters -> Nat]
        /\ \A q \in Seaters : pseat'[q] # "done" => seated'[q] = "none"
        /\ \A q \in Seaters \ {s} : /\ pseat'[q] = pseat[q] /\ seated'[q] = seated[q]
                                    /\ seatedAt'[q] = seatedAt[q]
        /\ pseat'[s] \in {"get", "done"} /\ seated'[s] \in {"none", "Auth"}
        /\ seatedAt'[s] \in {seatedAt[s], 0}
      BY SeatFailure
  <1>2. Seat!SeatTypeOK' BY <1>1 DEF SeatInv, Seat!SeatTypeOK
  <1>3. Len(log') \in Nat OBVIOUS
  <1>4. ReadOfLog' BY <1>1, <1>3, HistoryKept DEF ReadOfLog
  <1>5. TipHasContent' BY <1>1, HistoryKept DEF TipHasContent
  <1>6. PutNamesTheRead' BY <1>1, HistoryKept DEF PutNamesTheRead
  <1>7. Seat!RefusalMeansRace' BY <1>1, HistoryKept DEF Seat!RefusalMeansRace
  <1>8. QED BY <1>2, <1>4, <1>5, <1>6, <1>7 DEF SeatInv

LEMMA SeatStepKeeps == SeatInv /\ Seat!NextSeat => SeatInv'
  <1> SUFFICES ASSUME SeatInv, Seat!NextSeat PROVE SeatInv'
      OBVIOUS
  <1>a. log \in Seq(Seat!Contents) /\ Len(log) \in Nat BY DEF SeatInv, Seat!SeatTypeOK
  <1>b. \A s \in Seaters : since[s] \in Nat /\ seatedAt[s] \in Nat
      BY DEF SeatInv, Seat!SeatTypeOK
  <1>c. Seat!File \in Seat!Contents \union {NoFile}
      BY <1>a DEF Seat!File, Seat!Last
  <1>1. ASSUME NEW s \in Seaters, Seat!GetContents(s) PROVE SeatInv'
      <2>1. /\ seen' = [seen EXCEPT ![s] = Seat!File] /\ since' = [since EXCEPT ![s] = Len(log)]
            /\ pseat' = [pseat EXCEPT ![s] = IF Seat!File = Content[s] THEN "tip" ELSE "put"]
            /\ UNCHANGED <<log, puts, seated, seatedAt>> /\ pseat[s] = "get"
          BY <1>1 DEF Seat!GetContents, Seat!Step
      <2>2. Seat!SeatTypeOK' BY <2>1, <1>a, <1>c DEF SeatInv, Seat!SeatTypeOK, Seat!Steps
      <2>3. ReadOfLog' BY <2>1, <1>a, <1>b DEF SeatInv, Seat!SeatTypeOK, ReadOfLog
      <2>4. Seat!File = Content[s] => Len(log) >= 1
          BY <1>a, CrewAssumption DEF Seat!File
      <2>5. TipHasContent'
          BY <2>1, <2>4, <1>a DEF SeatInv, Seat!SeatTypeOK, TipHasContent, Seat!File, Seat!Last
      <2>6. PutNamesTheRead'
          BY <2>1, <1>a DEF SeatInv, Seat!SeatTypeOK, PutNamesTheRead, Seat!File, Seat!Last
      <2>7. seated[s] = "none" BY <2>1 DEF SeatInv, Seat!SeatTypeOK
      <2>8. Seat!RefusalMeansRace'
          BY <2>1, <2>7 DEF SeatInv, Seat!SeatTypeOK, Seat!RefusalMeansRace
      <2>9. QED BY <2>2, <2>3, <2>5, <2>6, <2>8 DEF SeatInv
  <1>2. ASSUME NEW s \in Seaters, Seat!ReadTip(s) PROVE SeatInv'
      <2>1. /\ pseat' = [pseat EXCEPT ![s] = "done"] /\ seated' = [seated EXCEPT ![s] = "ok"]
            /\ seatedAt' = [seatedAt EXCEPT ![s] = Len(log)]
            /\ UNCHANGED <<log, puts, seen, since>> /\ pseat[s] = "tip"
          BY <1>2 DEF Seat!ReadTip, Seat!Done
      <2>2. Seat!SeatTypeOK' BY <2>1, <1>a DEF SeatInv, Seat!SeatTypeOK, Seat!Steps
      <2>3. ReadOfLog' BY <2>1, <1>a, <1>b DEF SeatInv, Seat!SeatTypeOK, ReadOfLog
      <2>4. since[s] \in 1 .. Len(log) /\ log[since[s]] = Content[s]
          BY <2>1, <1>a, <1>b DEF SeatInv, TipHasContent, ReadOfLog
      <2>5. TipHasContent' /\ PutNamesTheRead'
          BY <2>1 DEF SeatInv, Seat!SeatTypeOK, TipHasContent, PutNamesTheRead
      <2>6. Seat!RefusalMeansRace'
          <3> SUFFICES ASSUME NEW q \in Seaters
                       PROVE  /\ seated'[q] = "ok" => \E i \in 1 .. seatedAt'[q] :
                                                          i >= since[q] /\ log[i] = Content[q]
                              /\ seated'[q] \in {"Conflict", "ContractMisuse"} => Len(log) > since[q]
              BY <2>1 DEF Seat!RefusalMeansRace
          <3>1. CASE q = s
              BY <3>1, <2>1, <2>4, <1>b DEF SeatInv, Seat!SeatTypeOK
          <3>2. CASE q # s
              BY <3>2, <2>1 DEF SeatInv, Seat!SeatTypeOK, Seat!RefusalMeansRace
          <3>3. QED BY <3>1, <3>2
      <2>7. QED BY <2>2, <2>3, <2>5, <2>6 DEF SeatInv
  <1>3. ASSUME NEW s \in Seaters, Seat!PutContents(s) PROVE SeatInv'
      <2> DEFINE q == Seat!Put(s)
      <2>0. pseat[s] = "put" /\ UNCHANGED <<seen, since>> BY <1>3 DEF Seat!PutContents
      <2>1. q.to = Content[s] /\ q.from = seen[s] /\ q.to \in Seat!Contents
          BY DEF Seat!Put, Seat!Contents
      <2>2. q \in [from : Seat!Contents \union {NoFile}, to : Seat!Contents]
          BY DEF Seat!Put, Seat!Contents, SeatInv, Seat!SeatTypeOK
      <2> HIDE DEF q
      <2>3. CASE Seat!ServePut(q) /\ Seat!Matches(q) /\ Seat!Done(s, "ok", Len(log) + 1)
                 /\ UNCHANGED puts
          <3>1. /\ log' \in Seq(Seat!Contents) /\ Len(log') = Len(log) + 1
                /\ \A i \in 1 .. Len(log) : log'[i] = log[i]
                /\ log'[Len(log) + 1] = Content[s]
              BY <2>1, <2>3, WriteServed
          <3>2. /\ pseat' = [pseat EXCEPT ![s] = "done"] /\ seated' = [seated EXCEPT ![s] = "ok"]
                /\ seatedAt' = [seatedAt EXCEPT ![s] = Len(log) + 1]
              BY <2>3 DEF Seat!Done
          <3>3. Len(log) <= Len(log') BY <3>1, <1>a
          <3>4. Seat!SeatTypeOK'
              BY <2>0, <2>3, <3>1, <3>2, <1>a DEF SeatInv, Seat!SeatTypeOK, Seat!Steps
          <3> SUFFICES ASSUME NEW r \in Seaters
                       PROVE  /\ since[r] <= Len(log') /\ seatedAt'[r] <= Len(log')
                              /\ pseat'[r] = "tip" => since[r] >= 1 /\ log'[since[r]] = Content[r]
                              /\ pseat'[r] = "put" => seen[r] = IF since[r] = 0 THEN NoFile ELSE log'[since[r]]
                              /\ seated'[r] = "ok" => \E i \in 1 .. seatedAt'[r] :
                                                          i >= since[r] /\ log'[i] = Content[r]
                              /\ seated'[r] \in {"Conflict", "ContractMisuse"} => Len(log') > since[r]
              BY <2>0, <3>4 DEF SeatInv, ReadOfLog, TipHasContent, PutNamesTheRead, Seat!RefusalMeansRace
          <3>5. since[s] <= Len(log) BY DEF SeatInv, ReadOfLog
          <3>6. CASE r = s
              <4>1. /\ pseat'[s] = "done" /\ seated'[s] = "ok" /\ seatedAt'[s] = Len(log) + 1
                  BY <3>2 DEF SeatInv, Seat!SeatTypeOK
              <4>2. Len(log) + 1 \in 1 .. seatedAt'[s] /\ Len(log) + 1 >= since[s]
                  BY <4>1, <3>5, <1>a, <1>b
              <4>3. QED BY <3>1, <3>5, <3>6, <4>1, <4>2, <1>a, <1>b
          <3>7. CASE r # s
              <4>1. pseat'[r] = pseat[r] /\ seated'[r] = seated[r] /\ seatedAt'[r] = seatedAt[r]
                  BY <3>2, <3>7 DEF SeatInv, Seat!SeatTypeOK
              <4>2. QED BY <3>1, <3>3, <4>1, HistoryKept
          <3>8. QED BY <3>6, <3>7
      <2>4. CASE Seat!ServePut(q) /\ ~Seat!Matches(q)
                 /\ Seat!Done(s, Seat!ClassifyStatus(Seat!Mismatch(q)), 0) /\ UNCHANGED puts
          <3>1. UNCHANGED log BY <2>4 DEF Seat!ServePut
          <3>2. Seat!ClassifyStatus(409) = "Conflict" /\ Seat!ClassifyStatus(422) = "ContractMisuse"
              BY DEF Seat!ClassifyStatus, Seat!TransportFailed
          <3>3. PICK kind \in {"Conflict", "ContractMisuse"} : Seat!Done(s, kind, 0)
              BY <2>4, <3>2 DEF Seat!Mismatch
          <3>4. /\ pseat' = [pseat EXCEPT ![s] = "done"] /\ seated' = [seated EXCEPT ![s] = kind]
                /\ seatedAt' = [seatedAt EXCEPT ![s] = 0]
              BY <3>3 DEF Seat!Done
          <3>5. since[s] < Len(log)
              <4>1. seen[s] # Seat!File BY <2>1, <2>4 DEF Seat!Matches
              <4>2. seen[s] = IF since[s] = 0 THEN NoFile ELSE log[since[s]]
                  BY <2>0 DEF SeatInv, PutNamesTheRead
              <4>3. since[s] # Len(log) BY <4>1, <4>2, <1>a DEF Seat!File, Seat!Last
              <4>4. QED BY <4>3, <1>a, <1>b DEF SeatInv, ReadOfLog
          <3>6. Seat!SeatTypeOK'
              BY <2>0, <2>4, <3>1, <3>4 DEF SeatInv, Seat!SeatTypeOK, Seat!Steps, Seat!Kinds, Seat!TerminalKinds
          <3>7. ReadOfLog' BY <2>0, <3>1, <3>4, <1>a DEF SeatInv, Seat!SeatTypeOK, ReadOfLog
          <3>8. TipHasContent' /\ PutNamesTheRead'
              BY <2>0, <3>1, <3>4 DEF SeatInv, Seat!SeatTypeOK, TipHasContent, PutNamesTheRead
          <3>9. Seat!RefusalMeansRace'
              BY <2>0, <3>1, <3>4, <3>5 DEF SeatInv, Seat!SeatTypeOK, Seat!RefusalMeansRace
          <3>10. QED BY <3>6, <3>7, <3>8, <3>9 DEF SeatInv
      <2>5. CASE Seat!Failed(s, "Transient") /\ Seat!ServePut(q) /\ UNCHANGED puts
          <3>1. /\ log' \in Seq(Seat!Contents) /\ Len(log) <= Len(log')
                /\ \A i \in 1 .. Len(log) : log'[i] = log[i]
              BY <2>1, <2>5, WriteServed
          <3>2. puts' \subseteq [from : Seat!Contents \union {NoFile}, to : Seat!Contents]
              BY <2>5 DEF SeatInv, Seat!SeatTypeOK
          <3>3. pseat[s] # "done" BY <2>0
          <3>4. QED BY <2>0, <2>5, <3>1, <3>2, <3>3, FailureKeeps
      <2>6. CASE Seat!Failed(s, "Transient") /\ puts' = puts \union {q} /\ UNCHANGED log
          <3>1. puts' \subseteq [from : Seat!Contents \union {NoFile}, to : Seat!Contents]
              BY <2>2, <2>6 DEF SeatInv, Seat!SeatTypeOK
          <3>2. pseat[s] # "done" /\ Len(log) <= Len(log') BY <2>0, <2>6, <1>a
          <3>3. QED BY <2>0, <2>6, <3>1, <3>2, <1>a, FailureKeeps
      <2>7. QED BY <1>3, <2>3, <2>4, <2>5, <2>6 DEF Seat!PutContents, q
  <1>4. ASSUME NEW s \in Seaters, Seat!SeatRefused(s) PROVE SeatInv'
      <2>1. PICK kind \in {"Transient", "RateLimited", "Auth"} : Seat!Failed(s, kind)
          BY <1>4 DEF Seat!SeatRefused
      <2>2. pseat[s] # "done" /\ UNCHANGED <<log, puts, seen, since>> BY <1>4 DEF Seat!SeatRefused
      <2>3. puts' \subseteq [from : Seat!Contents \union {NoFile}, to : Seat!Contents]
          BY <2>2 DEF SeatInv, Seat!SeatTypeOK
      <2>4. Len(log) <= Len(log') BY <2>2, <1>a
      <2>5. QED BY <2>1, <2>2, <2>3, <2>4, <1>a, FailureKeeps
  <1>5. CASE Seat!ServeLatePut
      <2>1. PICK q \in puts : Seat!ServePut(q) /\ puts' = puts \ {q}
          BY <1>5 DEF Seat!ServeLatePut
      <2>2. UNCHANGED <<pseat, seen, since, seated, seatedAt>> BY <1>5 DEF Seat!ServeLatePut
      <2>3. q.to \in Seat!Contents BY DEF SeatInv, Seat!SeatTypeOK
      <2>4. /\ log' \in Seq(Seat!Contents) /\ Len(log) <= Len(log')
            /\ \A i \in 1 .. Len(log) : log'[i] = log[i]
          BY <2>1, <2>3, WriteServed
      <2>5. Seat!SeatTypeOK' BY <2>1, <2>2, <2>4 DEF SeatInv, Seat!SeatTypeOK
      <2>6. QED BY <2>2, <2>4, <2>5, HistoryKept
               DEF SeatInv, ReadOfLog, TipHasContent, PutNamesTheRead, Seat!RefusalMeansRace
  <1>6. QED BY <1>1, <1>2, <1>3, <1>4, <1>5 DEF Seat!NextSeat, Seat!SeatSteps
-----------------------------------------------------------------------------
(* The session branch's steps.  First what the model's operators on        *)
(* commits do.                                                             *)

LEMMA NoBranchIsNone == NoBranch \notin Session!Commits
  BY CrewAssumption DEF Session!Commits, Session!Changes

LEMMA CommitsAppend ==
    ASSUME NEW c \in Session!Commits, NEW x \in Session!Changes
    PROVE  /\ Append(c, x) \in Session!Commits
           /\ Append(c, x) # NoBranch
           /\ Session!Mutations(Append(c, x)) = Session!Mutations(c) \union ({x} \intersect Writers)
  <1>1. Append(c, x) \in Session!Commits BY DEF Session!Commits
  <1>2. Append(c, x) # NoBranch /\ c # NoBranch BY <1>1, NoBranchIsNone
  <1>3. Session!ToSet(Append(c, x)) = Session!ToSet(c) \union {x}
      <2>1. /\ DOMAIN c = 1 .. Len(c) /\ DOMAIN Append(c, x) = 1 .. Len(c) + 1 /\ Len(c) \in Nat
            /\ \A k \in 1 .. Len(c) : Append(c, x)[k] = c[k]
            /\ Append(c, x)[Len(c) + 1] = x
          BY DEF Session!Commits
      <2>2. 1 .. Len(c) + 1 = (1 .. Len(c)) \union {Len(c) + 1} BY <2>1
      <2> HIDE DEF Session!Commits
      <2>3. QED BY <2>1, <2>2 DEF Session!ToSet
  <1>4. QED BY <1>1, <1>2, <1>3 DEF Session!Mutations

LEMMA PrefixMutations ==
    ASSUME NEW c \in Session!Commits, NEW d \in Session!Commits, Session!IsPrefix(c, d)
    PROVE  Session!Mutations(c) \subseteq Session!Mutations(d)
  <1>1. c # NoBranch /\ d # NoBranch BY NoBranchIsNone
  <1>2. Len(c) \in Nat /\ Len(d) \in Nat /\ DOMAIN c = 1 .. Len(c) /\ DOMAIN d = 1 .. Len(d)
      BY DEF Session!Commits
  <1>3. Len(c) <= Len(d) /\ SubSeq(c, 1, Len(c)) = SubSeq(d, 1, Len(c))
      BY DEF Session!IsPrefix
  <1>4. ASSUME NEW i \in DOMAIN c PROVE i \in DOMAIN d /\ c[i] = d[i]
      <2>1. SubSeq(c, 1, Len(c))[i] = c[i] BY <1>2 DEF Session!Commits
      <2>2. SubSeq(d, 1, Len(c))[i] = d[i] BY <1>2, <1>3 DEF Session!Commits
      <2>3. QED BY <1>2, <1>3, <2>1, <2>2
  <1>5. QED BY <1>1, <1>4 DEF Session!Mutations, Session!ToSet

LEMMA OnceAppend ==
    ASSUME NEW c \in Session!Commits, NEW x \in Session!Changes,
           OnceIn(c), x \notin Session!Mutations(c)
    PROVE  OnceIn(Append(c, x))
  <1>1. c # NoBranch BY NoBranchIsNone
  <1>2. \A i, j \in DOMAIN c : c[i] = c[j] /\ c[i] \in Writers => i = j BY <1>1 DEF OnceIn
  <1>3. \A i \in DOMAIN c : c[i] = x => x \notin Writers
      BY <1>1 DEF Session!Mutations, Session!ToSet
  <1> SUFFICES ASSUME NEW i \in DOMAIN Append(c, x), NEW j \in DOMAIN Append(c, x),
                      Append(c, x)[i] = Append(c, x)[j], Append(c, x)[i] \in Writers
               PROVE  i = j
      BY DEF OnceIn
  <1>4. /\ DOMAIN c = 1 .. Len(c) /\ DOMAIN Append(c, x) = 1 .. Len(c) + 1 /\ Len(c) \in Nat
        /\ \A k \in 1 .. Len(c) : Append(c, x)[k] = c[k]
        /\ Append(c, x)[Len(c) + 1] = x
      BY DEF Session!Commits
  <1>5. CASE i \in 1 .. Len(c) /\ j \in 1 .. Len(c) BY <1>2, <1>4, <1>5
  <1>6. CASE i = Len(c) + 1 /\ j \in 1 .. Len(c) BY <1>3, <1>4, <1>6
  <1>7. CASE i \in 1 .. Len(c) /\ j = Len(c) + 1 BY <1>3, <1>4, <1>7
  <1>8. CASE i = Len(c) + 1 /\ j = Len(c) + 1 BY <1>8
  <1>9. QED BY <1>4, <1>5, <1>6, <1>7, <1>8

LEMMA NothingYet == /\ <<>> \in Session!Commits /\ OnceIn(<<>>)
                    /\ Session!Mutations(<<>>) = {} /\ Session!Mutations(NoBranch) = {}
                    /\ OnceIn(NoBranch)
  BY DEF Session!Commits, OnceIn, Session!Mutations, Session!ToSet

\* Others' commits: a merge, or a push to the default branch.
LEMMA OthersAppend ==
    ASSUME NEW c \in Session!Commits, NEW x \in {Merge, Direct}, OnceIn(c)
    PROVE  /\ Append(c, x) \in Session!Commits /\ OnceIn(Append(c, x))
           /\ Session!Mutations(Append(c, x)) = Session!Mutations(c)
  <1>1. x \in Session!Changes BY DEF Session!Changes
  <1>2. x \notin Writers BY CrewAssumption
  <1>3. x \notin Session!Mutations(c) BY <1>2, NoBranchIsNone DEF Session!Mutations
  <1>4. Append(c, x) \in Session!Commits /\ OnceIn(Append(c, x))
      BY <1>1, <1>3, CommitsAppend, OnceAppend
  <1>5. Session!Mutations(Append(c, x)) = Session!Mutations(c) \union ({x} \intersect Writers)
      BY <1>1, CommitsAppend
  <1>6. QED BY <1>2, <1>4, <1>5

LEMMA SessionInit == Init => SessionInv
  <1> SUFFICES ASSUME Init PROVE SessionInv
      OBVIOUS
  <1>1. Session!InitSession(crew) BY DEF Init
  <1>2. main \in {NoBranch, <<>>} /\ session = NoBranch /\ acked = {} /\ dropped = {}
      BY <1>1 DEF Session!InitSession
  <1>3. main \in Session!Refs /\ session \in Session!Refs BY <1>2, NothingYet DEF Session!Refs
  <1>4. deletes \in BOOLEAN BY <1>1 DEF Session!InitSession
  <1>5. Session!SessionTypeOK
      BY <1>1, <1>3, <1>4 DEF Session!InitSession, Session!SessionTypeOK, Session!Refs,
                              Session!Answers
  <1>6. OnceIn(main) /\ OnceIn(session) BY <1>2, NothingYet
  <1>7. ReadsWithout /\ PushesOnce
      BY <1>1 DEF Session!InitSession, ReadsWithout, PushesOnce
  <1>8. AckedKept BY <1>2 DEF AckedKept
  <1>9. QED BY <1>5, <1>6, <1>7, <1>8 DEF SessionInv

LEMMA SessionUnchanged == SessionInv /\ UNCHANGED sessionVars => SessionInv'
  <1> SUFFICES ASSUME SessionInv, UNCHANGED sessionVars PROVE SessionInv'
      OBVIOUS
  <1> USE DEF sessionVars
  <1>1. Session!SessionTypeOK' BY DEF SessionInv, Session!SessionTypeOK
  <1>2. OnceIn(main)' /\ OnceIn(session)' BY DEF SessionInv, OnceIn
  <1>3. ReadsWithout' /\ PushesOnce'
      BY DEF SessionInv, ReadsWithout, PushesOnce, OnceIn, Session!Mutations
  <1>4. AckedKept' BY DEF SessionInv, AckedKept, Session!Mutations
  <1>5. QED BY <1>1, <1>2, <1>3, <1>4 DEF SessionInv

LEMMA TipIsOnce ==
    ASSUME SessionInv
    PROVE  /\ Session!remoteTip \in Session!Refs /\ OnceIn(Session!remoteTip)
           /\ Session!Mutations(Session!remoteTip)
                 \subseteq Session!Mutations(session) \union Session!Mutations(main)
  BY DEF SessionInv, Session!SessionTypeOK, Session!remoteTip

\* A push that is accepted brings its mutation and drops none.
LEMMA PushAdds ==
    ASSUME SessionInv, NEW w \in Writers, psess[w] = "push", Session!PushAccepted(w)
    PROVE  /\ work[w] \in Session!Commits /\ OnceIn(work[w])
           /\ Session!Mutations(session) \union {w} \subseteq Session!Mutations(work[w])
  <1>1. work[w] \in Session!Commits /\ OnceIn(work[w]) /\ w \in Session!Mutations(work[w])
      BY DEF SessionInv, Session!SessionTypeOK, Session!Refs, PushesOnce
  <1>2. session \in Session!Refs BY DEF SessionInv, Session!SessionTypeOK
  <1>3. Session!Mutations(session) \subseteq Session!Mutations(work[w])
      <2>1. CASE session = NoBranch BY <2>1, NothingYet
      <2>2. CASE session # NoBranch
          BY <1>1, <1>2, <2>2, PrefixMutations DEF Session!Refs, Session!PushAccepted
      <2>3. QED BY <2>1, <2>2
  <1>4. QED BY <1>1, <1>3

\* A step of the rail or of another user that loses no mutation.
LEMMA OthersKeep ==
    ASSUME SessionInv, UNCHANGED <<psess, base, exists, work, told, acked, deletes>>,
           main' \in Session!Refs, session' \in Session!Refs, dropped' \subseteq Writers,
           OnceIn(main'), OnceIn(session'),
           Session!Mutations(session) \union Session!Mutations(main) \union dropped
             \subseteq Session!Mutations(session') \union Session!Mutations(main') \union dropped'
    PROVE  SessionInv'
  <1>1. Session!SessionTypeOK' BY DEF SessionInv, Session!SessionTypeOK
  <1>2. OnceIn(main)' /\ OnceIn(session)' BY DEF OnceIn
  <1>3. ReadsWithout' /\ PushesOnce'
      BY DEF SessionInv, ReadsWithout, PushesOnce, OnceIn, Session!Mutations
  <1>4. AckedKept' BY DEF SessionInv, AckedKept, Session!Mutations
  <1>5. QED BY <1>1, <1>2, <1>3, <1>4 DEF SessionInv

LEMMA SessionStepKeeps == SessionInv /\ Session!SessionNext => SessionInv'
  <1> SUFFICES ASSUME SessionInv, Session!SessionNext PROVE SessionInv'
      OBVIOUS
  <1>a. Session!SessionTypeOK BY DEF SessionInv
  <1>b. main \in Session!Refs /\ session \in Session!Refs /\ dropped \subseteq Writers
      BY <1>a DEF Session!SessionTypeOK
  <1>c. OnceIn(main) /\ OnceIn(session) BY DEF SessionInv
  <1>1. ASSUME NEW w \in Writers, Session!ReadSubtree(w) PROVE SessionInv'
      <2>0. UNCHANGED <<main, session, work, dropped, deletes>> /\ psess[w] = "idle"
          BY <1>1 DEF Session!ReadSubtree
      <2>1. CASE w \in Session!Mutations(Session!remoteTip)
          <3>1. /\ acked' = acked \union {w} /\ told' = [told EXCEPT ![w] = "ok"]
                /\ UNCHANGED <<psess, base, exists>>
              BY <1>1, <2>1 DEF Session!ReadSubtree, Session!Landed
          <3>2. Session!SessionTypeOK'
              BY <1>a, <2>0, <3>1 DEF Session!SessionTypeOK, Session!Answers
          <3>3. OnceIn(main)' /\ OnceIn(session)' BY <1>c, <2>0 DEF OnceIn
          <3>4. ReadsWithout' /\ PushesOnce'
              BY <2>0, <3>1 DEF SessionInv, ReadsWithout, PushesOnce, OnceIn, Session!Mutations
          <3>5. w \in Session!Mutations(session) \union Session!Mutations(main)
              BY <2>1, TipIsOnce
          <3>6. AckedKept' BY <2>0, <3>1, <3>5 DEF SessionInv, AckedKept, Session!Mutations
          <3>7. QED BY <3>2, <3>3, <3>4, <3>6 DEF SessionInv
      <2>2. CASE w \notin Session!Mutations(Session!remoteTip)
          <3> DEFINE tip == Session!remoteTip
          <3>1. /\ base' = [base EXCEPT ![w] = tip]
                /\ exists' = [exists EXCEPT ![w] = tip # NoBranch]
                /\ told' = [told EXCEPT ![w] = "none"]
                /\ psess' = [psess EXCEPT ![w] = "read"]
                /\ UNCHANGED acked
              BY <1>1, <2>2 DEF Session!ReadSubtree, Session!Landed, Session!remoteExists
          <3>2. tip \in Session!Refs /\ OnceIn(tip) /\ w \notin Session!Mutations(tip)
              BY <2>2, TipIsOnce
          <3> HIDE DEF tip
          <3>3. Session!SessionTypeOK'
              BY <1>a, <2>0, <3>1, <3>2 DEF Session!SessionTypeOK, Session!Answers
          <3>4. OnceIn(main)' /\ OnceIn(session)' BY <1>c, <2>0 DEF OnceIn
          <3>5. ReadsWithout'
              BY <1>a, <3>1, <3>2 DEF SessionInv, Session!SessionTypeOK, ReadsWithout
          <3>6. PushesOnce'
              BY <1>a, <2>0, <3>1 DEF SessionInv, Session!SessionTypeOK, PushesOnce
          <3>7. AckedKept' BY <2>0, <3>1 DEF SessionInv, AckedKept
          <3>8. QED BY <3>3, <3>4, <3>5, <3>6, <3>7 DEF SessionInv
      <2>3. QED BY <2>1, <2>2
  <1>2. ASSUME NEW w \in Writers, Session!CommitSubtree(w) PROVE SessionInv'
      <2>0. UNCHANGED <<main, session, base, exists, acked, dropped, deletes>> /\ psess[w] = "read"
          BY <1>2 DEF Session!CommitSubtree
      <2>a. OnceIn(main)' /\ OnceIn(session)' BY <1>c, <2>0 DEF OnceIn
      <2>b. AckedKept' BY <2>0 DEF SessionInv, AckedKept
      <2>1. CASE Session!CASPrecondition(base[w])
          <3> DEFINE tip == IF Session!remoteTip = NoBranch THEN <<>> ELSE Session!remoteTip
                     made == Append(tip, w)
          <3>1. /\ work' = [work EXCEPT ![w] = made]
                /\ psess' = [psess EXCEPT ![w] = "push"] /\ UNCHANGED told
              BY <1>2, <2>1 DEF Session!CommitSubtree
          <3>2. Session!remoteTip = base[w]
              BY <2>1 DEF Session!CASPrecondition
          <3>3. OnceIn(base[w]) /\ w \notin Session!Mutations(base[w]) /\ base[w] \in Session!Refs
              BY <1>a, <2>0 DEF SessionInv, ReadsWithout, Session!SessionTypeOK
          <3>4. tip \in Session!Commits /\ OnceIn(tip) /\ w \notin Session!Mutations(tip)
              BY <3>2, <3>3, NothingYet DEF Session!Refs
          <3>5. w \in Session!Changes BY DEF Session!Changes
          <3> HIDE DEF tip
          <3>6. /\ made \in Session!Commits /\ made # NoBranch /\ OnceIn(made)
                /\ w \in Session!Mutations(made)
              BY <3>4, <3>5, CommitsAppend, OnceAppend
          <3> HIDE DEF made
          <3>7. Session!SessionTypeOK'
              BY <1>a, <2>0, <3>1, <3>6 DEF Session!SessionTypeOK, Session!Refs
          <3>8. ReadsWithout'
              BY <1>a, <2>0, <3>1 DEF SessionInv, Session!SessionTypeOK, ReadsWithout
          <3>9. PushesOnce'
              BY <1>a, <3>1, <3>6 DEF SessionInv, Session!SessionTypeOK, PushesOnce
          <3>10. QED BY <2>a, <2>b, <3>7, <3>8, <3>9 DEF SessionInv
      <2>2. CASE ~Session!CASPrecondition(base[w])
          <3>1. /\ told' = [told EXCEPT ![w] = "conflict"]
                /\ psess' = [psess EXCEPT ![w] = "idle"] /\ UNCHANGED work
              BY <1>2, <2>2 DEF Session!CommitSubtree
          <3>2. Session!SessionTypeOK'
              BY <1>a, <2>0, <3>1 DEF Session!SessionTypeOK, Session!Answers
          <3>3. ReadsWithout' /\ PushesOnce'
              BY <1>a, <2>0, <3>1 DEF SessionInv, Session!SessionTypeOK, ReadsWithout, PushesOnce
          <3>4. QED BY <2>a, <2>b, <3>2, <3>3 DEF SessionInv
      <2>3. QED BY <2>1, <2>2
  <1>3. ASSUME NEW w \in Writers, psess[w] = "push",
               psess' = [psess EXCEPT ![w] = "idle"],
               \E t \in Session!Answers : told' = [told EXCEPT ![w] = t],
               \/ UNCHANGED <<session, acked>>
               \/ /\ Session!PushAccepted(w) /\ session' = work[w]
                  /\ acked' \in {acked, acked \union {w}},
               UNCHANGED <<main, base, exists, work, dropped, deletes>>
        PROVE  SessionInv'
      <2>1. Session!PushAccepted(w) => /\ work[w] \in Session!Commits /\ OnceIn(work[w])
                                       /\ Session!Mutations(session) \union {w}
                                            \subseteq Session!Mutations(work[w])
          BY <1>3, PushAdds
      <2>2. session' \in Session!Refs /\ OnceIn(session')
          BY <1>3, <1>b, <1>c, <2>1 DEF Session!Refs
      <2>3. Session!SessionTypeOK'
          BY <1>3, <1>a, <2>2 DEF Session!SessionTypeOK
      <2>4. OnceIn(main)' /\ OnceIn(session)' BY <1>3, <1>c, <2>2 DEF OnceIn
      <2>5. ReadsWithout' /\ PushesOnce'
          BY <1>3, <1>a DEF SessionInv, Session!SessionTypeOK, ReadsWithout, PushesOnce
      <2>6. AckedKept'
          <3>1. acked' \subseteq Session!Mutations(session') \union Session!Mutations(main) \union dropped
              BY <1>3, <2>1 DEF SessionInv, AckedKept
          <3>2. QED BY <1>3, <3>1 DEF AckedKept, Session!Mutations
      <2>7. QED BY <2>3, <2>4, <2>5, <2>6 DEF SessionInv
  <1>4. ASSUME NEW w \in Writers, Session!Push(w) PROVE SessionInv'
      <2>1. "ok" \in Session!Answers /\ "conflict" \in Session!Answers BY DEF Session!Answers
      <2>2. QED BY <1>3, <1>4, <2>1 DEF Session!Push
  <1>5. ASSUME NEW w \in Writers, Session!PushLost(w) PROVE SessionInv'
      <2>1. "error" \in Session!Answers BY DEF Session!Answers
      <2>2. QED BY <1>3, <1>5, <2>1 DEF Session!PushLost
  <1>6. CASE Session!CreateBranch
      <2>1. /\ session = NoBranch /\ session' = main /\ UNCHANGED <<main, dropped>>
            /\ UNCHANGED <<psess, base, exists, work, told, acked, deletes>>
          BY <1>6 DEF Session!CreateBranch, Session!Others
      <2>2. Session!Mutations(session) = {} BY <2>1, NothingYet
      <2>3. QED BY <1>b, <1>c, <2>1, <2>2, OthersKeep
  <1>7. CASE Session!MergePullRequest
      <2>1. /\ main # NoBranch /\ session # NoBranch /\ Session!IsPrefix(main, session)
            /\ main' = Append(session, Merge) /\ UNCHANGED <<session, dropped>>
            /\ UNCHANGED <<psess, base, exists, work, told, acked, deletes>>
          BY <1>7 DEF Session!MergePullRequest, Session!Others, Session!IsStrictPrefix
      <2>2. main \in Session!Commits /\ session \in Session!Commits BY <1>b, <2>1 DEF Session!Refs
      <2>3. Session!Mutations(main) \subseteq Session!Mutations(session)
          BY <2>1, <2>2, PrefixMutations
      <2>4. /\ main' \in Session!Commits /\ OnceIn(main')
            /\ Session!Mutations(main') = Session!Mutations(session)
          BY <1>c, <2>1, <2>2, OthersAppend
      <2>5. QED BY <1>b, <1>c, <2>1, <2>3, <2>4, OthersKeep DEF Session!Refs
  <1>8. CASE Session!DeleteBranch
      <2>1. /\ session' = NoBranch /\ UNCHANGED main
            /\ dropped' = dropped \union (Session!Mutations(session) \ Session!Mutations(main))
            /\ UNCHANGED <<psess, base, exists, work, told, acked, deletes>>
          BY <1>8 DEF Session!DeleteBranch, Session!Others
      <2>2. Session!Mutations(session) \subseteq Writers BY DEF Session!Mutations
      <2>3. session' \in Session!Refs /\ OnceIn(session')
          BY <2>1, NothingYet DEF Session!Refs
      <2>4. QED BY <1>b, <1>c, <2>1, <2>2, <2>3, OthersKeep
  <1>9. CASE Session!CommitToMain
      <2> DEFINE tip == IF main = NoBranch THEN <<>> ELSE main
      <2>1. /\ main' = Append(tip, Direct) /\ UNCHANGED <<session, dropped>>
            /\ UNCHANGED <<psess, base, exists, work, told, acked, deletes>>
          BY <1>9 DEF Session!CommitToMain, Session!Others
      <2>2. tip \in Session!Commits /\ OnceIn(tip) /\ Session!Mutations(tip) = Session!Mutations(main)
          BY <1>b, <1>c, NothingYet DEF Session!Refs
      <2> HIDE DEF tip
      <2>3. /\ main' \in Session!Commits /\ OnceIn(main')
            /\ Session!Mutations(main') = Session!Mutations(main)
          BY <2>1, <2>2, OthersAppend
      <2>4. QED BY <1>b, <1>c, <2>1, <2>3, OthersKeep DEF Session!Refs
  <1>10. QED BY <1>1, <1>2, <1>4, <1>5, <1>6, <1>7, <1>8, <1>9 DEF Session!SessionNext, Session!Call
-----------------------------------------------------------------------------
(* The runs' steps.                                                        *)

LEMMA RunsInit == Init => RunsInv
  <1> SUFFICES ASSUME Init PROVE RunsInv
      OBVIOUS
  <1>1. Runs!InitRuns(crew) BY DEF Init
  <1>2. runs = <<>> /\ DOMAIN runs = {} BY <1>1 DEF Runs!InitRuns
  <1>3. Runs!RunsTypeOK BY <1>1, <1>2 DEF Runs!InitRuns, Runs!RunsTypeOK
  <1>4. OneIsFirst /\ FirstLives BY <1>2 DEF OneIsFirst, FirstLives
  <1>5. CancelsSeeFirst /\ HandleIsFirst
      BY <1>1 DEF Runs!InitRuns, CancelsSeeFirst, HandleIsFirst
  <1>6. QED BY <1>3, <1>4, <1>5 DEF RunsInv

LEMMA RunsUnchanged == RunsInv /\ UNCHANGED runVars => RunsInv'
  BY DEF runVars, RunsInv, Runs!RunsTypeOK, OneIsFirst, FirstLives, CancelsSeeFirst,
         HandleIsFirst, First

LEMMA FirstIsOne == ASSUME RunsInv, NEW i, NEW j, First(i), First(j) PROVE i = j
  <1>1. i \in Nat /\ j \in Nat BY DEF First, RunsInv, Runs!RunsTypeOK
  <1>2. i <= j /\ j <= i BY DEF First
  <1>3. QED BY <1>1, <1>2

\* The lowest of a set that holds the first run is the first run.
LEMMA LowestIsFirst ==
    ASSUME RunsInv, NEW S \in SUBSET DOMAIN runs, \A i \in S : runs[i].ours,
           NEW f \in S, First(f)
    PROVE  Runs!Min(S) = f
  <1>1. \A y \in S : f <= y BY DEF First
  <1>2. ASSUME NEW x \in S, \A y \in S : x <= y PROVE x = f
      <2>1. x \in Nat /\ f \in Nat BY DEF RunsInv, Runs!RunsTypeOK
      <2>2. x <= f /\ f <= x BY <1>1, <1>2
      <2>3. QED BY <2>1, <2>2
  <1>3. QED BY <1>1, <1>2 DEF Runs!Min

\* What a listing finds when all runs fit on the page.
LEMMA ListingSeesFirst ==
    ASSUME RunsInv, Runs!ByName(Runs!Newest) # {}
    PROVE  /\ Runs!ByName(Runs!Newest) \subseteq DOMAIN runs
           /\ \A i \in Runs!ByName(Runs!Newest) : runs[i].ours
           /\ Len(runs) <= PageSize => \E i \in Runs!ByName(Runs!Newest) : First(i)
  <1>1. DOMAIN runs = 1 .. Len(runs) /\ Len(runs) \in Nat BY DEF RunsInv, Runs!RunsTypeOK
  <1>2. PageSize \in Nat BY CrewAssumption
  <1>3. PICK i \in DOMAIN runs : First(i)
      BY DEF Runs!ByName, Runs!Newest, Runs!Ours, RunsInv, OneIsFirst
  <1>4. Len(runs) <= PageSize => i \in Runs!ByName(Runs!Newest)
      BY <1>1, <1>2, <1>3 DEF Runs!ByName, Runs!Newest, Runs!Ours, First
  <1>5. QED BY <1>3, <1>4 DEF Runs!ByName, Runs!Newest, Runs!Ours

\* A step of one submitter that leaves the runs alone.
LEMMA SubmitterKeeps ==
    ASSUME RunsInv, UNCHANGED runs, accepted' \in Nat, dispatched' \in Nat,
           NEW s \in Submitters, UNCHANGED handle,
           NEW step \in {"probe", "dispatch", "resolve", "cancel", "done"},
           psub[s] # "done", psub' = [psub EXCEPT ![s] = step],
           \/ UNCHANGED subError
           \/ step = "done" /\ \E kind \in Runs!Kinds : subError' = [subError EXCEPT ![s] = kind],
           \/ UNCHANGED listedRuns /\ step # "cancel"
           \/ /\ Runs!ByName(Runs!Newest) # {} \/ step # "cancel"
              /\ listedRuns' = [listedRuns EXCEPT ![s] = Runs!ByName(Runs!Newest)]
    PROVE  RunsInv'
  <1>1. Runs!ByName(Runs!Newest) \subseteq DOMAIN runs
      BY DEF Runs!ByName, Runs!Newest
  <1>2. Runs!RunsTypeOK' BY <1>1 DEF RunsInv, Runs!RunsTypeOK
  <1>3. OneIsFirst' /\ FirstLives' BY DEF RunsInv, OneIsFirst, FirstLives, First
  <1>4. HandleIsFirst' BY DEF RunsInv, HandleIsFirst, First
  <1>5. CancelsSeeFirst'
      <2> SUFFICES ASSUME NEW q \in Submitters, psub'[q] = "cancel"
                   PROVE  /\ \A i \in listedRuns'[q] : runs[i].ours
                          /\ Len(runs) <= PageSize => \E i \in listedRuns'[q] : First(i)
          BY DEF CancelsSeeFirst, First
      <2>1. CASE q = s /\ step = "cancel"
          <3>1. listedRuns'[s] = Runs!ByName(Runs!Newest) /\ Runs!ByName(Runs!Newest) # {}
              BY <2>1 DEF RunsInv, Runs!RunsTypeOK
          <3>2. QED BY <2>1, <3>1, ListingSeesFirst
      <2>2. CASE q # s
          <3>1. psub'[q] = psub[q] /\ listedRuns'[q] = listedRuns[q]
              BY <2>2 DEF RunsInv, Runs!RunsTypeOK
          <3>2. QED BY <3>1 DEF RunsInv, CancelsSeeFirst
      <2>3. QED BY <2>1, <2>2 DEF RunsInv, Runs!RunsTypeOK
  <1>6. QED BY <1>2, <1>3, <1>4, <1>5 DEF RunsInv

\* A run comes: of the token, or another's.
LEMMA RunComes ==
    ASSUME RunsInv, NEW ours \in BOOLEAN,
           runs' = Append(runs, [ours |-> ours, live |-> TRUE]),
           accepted' \in Nat, UNCHANGED <<dispatched, psub, listedRuns, handle, subError>>
    PROVE  RunsInv'
  <1>1. /\ DOMAIN runs = 1 .. Len(runs) /\ Len(runs) \in Nat
        /\ DOMAIN runs' = 1 .. Len(runs) + 1 /\ Len(runs') = Len(runs) + 1
        /\ \A i \in DOMAIN runs : runs'[i] = runs[i]
        /\ runs'[Len(runs) + 1] = [ours |-> ours, live |-> TRUE]
        /\ runs' \in Seq([ours : BOOLEAN, live : BOOLEAN])
      BY DEF RunsInv, Runs!RunsTypeOK
  <1>2. DOMAIN runs \subseteq DOMAIN runs' BY <1>1
  <1>3. Runs!RunsTypeOK' BY <1>1, <1>2 DEF RunsInv, Runs!RunsTypeOK
  <1>4. PageSize \in Nat BY CrewAssumption
  <1>5. ASSUME NEW f, First(f) PROVE First(f)'
      BY <1>1, <1>5 DEF First
  <1>6. ASSUME ~\E i \in DOMAIN runs : runs[i].ours, NEW f \in DOMAIN runs', runs'[f].ours
        PROVE  f = Len(runs) + 1
      BY <1>1, <1>6
  <1>7. OneIsFirst'
      <2>1. CASE \E i \in DOMAIN runs : runs[i].ours
          <3>1. PICK f \in DOMAIN runs : First(f) BY <2>1 DEF RunsInv, OneIsFirst
          <3>2. QED BY <1>2, <1>5, <3>1 DEF OneIsFirst
      <2>2. CASE ~\E i \in DOMAIN runs : runs[i].ours
          <3>1. ASSUME NEW i \in DOMAIN runs', runs'[i].ours PROVE First(i)'
              <4>1. i = Len(runs) + 1 BY <1>6, <2>2, <3>1
              <4>2. \A j \in DOMAIN runs' : runs'[j].ours => j = i BY <1>6, <2>2, <4>1
              <4>3. QED BY <1>1, <3>1, <4>1, <4>2 DEF First
          <3>2. QED BY <3>1 DEF OneIsFirst
      <2>3. QED BY <2>1, <2>2
  <1>8. ASSUME NEW f \in DOMAIN runs', First(f)'
        PROVE  First(f) \/ f = Len(runs) + 1
      BY <1>1, <1>2, <1>8 DEF First
  <1>9. FirstLives'
      <2> SUFFICES ASSUME Len(runs') <= PageSize, NEW f \in DOMAIN runs', First(f)'
                   PROVE  runs'[f].live
          BY DEF FirstLives
      <2>1. CASE f = Len(runs) + 1 BY <1>1, <2>1
      <2>2. CASE First(f)
          <3>1. f \in DOMAIN runs /\ Len(runs) <= PageSize BY <1>1, <1>4, <2>2 DEF First
          <3>2. runs[f].live BY <2>2, <3>1 DEF RunsInv, FirstLives
          <3>3. QED BY <1>1, <3>1, <3>2
      <2>3. QED BY <1>8, <2>1, <2>2
  <1>10. Len(runs') <= PageSize => Len(runs) <= PageSize BY <1>1, <1>4
  <1>11. CancelsSeeFirst'
      <2> SUFFICES ASSUME NEW s \in Submitters, psub[s] = "cancel"
                   PROVE  /\ \A i \in listedRuns[s] : runs'[i].ours
                          /\ Len(runs') <= PageSize => \E i \in listedRuns[s] : First(i)'
          BY DEF CancelsSeeFirst
      <2>1. listedRuns[s] \subseteq DOMAIN runs BY DEF RunsInv, Runs!RunsTypeOK
      <2>2. \A i \in listedRuns[s] : runs'[i].ours
          BY <1>1, <2>1 DEF RunsInv, CancelsSeeFirst
      <2>3. Len(runs') <= PageSize => \E i \in listedRuns[s] : First(i)'
          BY <1>5, <1>10 DEF RunsInv, CancelsSeeFirst
      <2>4. QED BY <2>2, <2>3
  <1>12. HandleIsFirst'
      <2> SUFFICES ASSUME NEW s \in Submitters, handle[s] # 0
                   PROVE  runs'[handle[s]].ours /\ (Len(runs') <= PageSize => First(handle[s])')
          BY DEF HandleIsFirst, First
      <2>1. handle[s] \in DOMAIN runs BY DEF RunsInv, Runs!RunsTypeOK
      <2>2. QED BY <1>1, <1>5, <1>10, <2>1 DEF RunsInv, HandleIsFirst
  <1>13. QED BY <1>3, <1>7, <1>9, <1>11, <1>12 DEF RunsInv

\* A sequence with one element replaced.
LEMMA ReplacedInSeq ==
    ASSUME NEW S, NEW s \in Seq(S), NEW i \in DOMAIN s, NEW x \in S,
           NEW t, t = [s EXCEPT ![i] = x]
    PROVE  /\ t \in Seq(S) /\ DOMAIN t = DOMAIN s /\ Len(t) = Len(s)
           /\ \A j \in DOMAIN s : j # i => t[j] = s[j]
           /\ t[i] = x
  <1>1. s \in [1 .. Len(s) -> S] /\ DOMAIN s = 1 .. Len(s) /\ Len(s) \in Nat OBVIOUS
  <1>2. t \in [1 .. Len(s) -> S] BY <1>1
  <1>3. t \in Seq(S) BY <1>1, <1>2
  <1>4. QED BY <1>1, <1>2, <1>3

LEMMA RunsStepKeeps == RunsInv /\ Runs!NextRuns => RunsInv'
  <1> SUFFICES ASSUME RunsInv, Runs!NextRuns PROVE RunsInv'
      OBVIOUS
  <1>a. accepted \in Nat /\ dispatched \in Nat BY DEF RunsInv, Runs!RunsTypeOK
  <1>b. psub \in [Submitters -> {"probe", "dispatch", "resolve", "cancel", "done"}]
      BY DEF RunsInv, Runs!RunsTypeOK
  <1>1. ASSUME NEW s \in Submitters, Runs!Probe(s) PROVE RunsInv'
      BY <1>1, <1>a, SubmitterKeeps DEF Runs!Probe
  <1>2. ASSUME NEW s \in Submitters, Runs!Resolve(s) PROVE RunsInv'
      BY <1>2, <1>a, SubmitterKeeps DEF Runs!Resolve, Runs!At
  <1>3. ASSUME NEW s \in Submitters, Runs!Dispatch(s) PROVE RunsInv'
      BY <1>3, <1>a, SubmitterKeeps DEF Runs!Dispatch, Runs!At
  <1>4. ASSUME NEW s \in Submitters, Runs!CancelSibling(s) PROVE RunsInv'
      <2> DEFINE canon == Runs!Canonical(listedRuns[s])
      <2>1. PICK i \in listedRuns[s] \ {canon} :
                /\ runs' = [runs EXCEPT ![i].live = FALSE]
                /\ listedRuns' = [listedRuns EXCEPT ![s] = @ \ {i}]
          BY <1>4 DEF Runs!CancelSibling
      <2>2. PICK step \in {"cancel", "probe"} : psub' = [psub EXCEPT ![s] = step]
          <3>1. psub' = psub \/ psub' = [psub EXCEPT ![s] = "probe"]
              BY <1>4 DEF Runs!CancelSibling, Runs!At
          <3>2. psub[s] = "cancel" BY <1>4 DEF Runs!CancelSibling
          <3>3. psub = [psub EXCEPT ![s] = "cancel"] BY <1>b, <3>2
          <3>4. QED BY <3>1, <3>3
      <2>3. psub[s] = "cancel" /\ UNCHANGED <<accepted, dispatched, handle, subError>>
          BY <1>4 DEF Runs!CancelSibling
      <2>4. /\ listedRuns[s] \subseteq DOMAIN runs /\ i \in DOMAIN runs
            /\ runs \in Seq([ours : BOOLEAN, live : BOOLEAN])
          BY DEF RunsInv, Runs!RunsTypeOK
      <2>5. /\ DOMAIN runs' = DOMAIN runs /\ Len(runs') = Len(runs)
            /\ \A j \in DOMAIN runs : /\ runs'[j].ours = runs[j].ours
                                      /\ j # i => runs'[j] = runs[j]
            /\ runs' \in Seq([ours : BOOLEAN, live : BOOLEAN])
          <3> DEFINE Run == [ours : BOOLEAN, live : BOOLEAN]
                     x == [runs[i] EXCEPT !.live = FALSE]
          <3>1. runs' = [runs EXCEPT ![i] = x] BY <2>1
          <3>2. runs[i] \in Run
              <4> HIDE DEF Run
              <4>1. runs \in Seq(Run) BY <2>4 DEF Run
              <4>2. QED BY <2>4, <4>1
          <3>3. x \in Run /\ x.ours = runs[i].ours BY <3>2
          <3> HIDE DEF Run, x
          <3>4. runs \in Seq(Run) BY <2>4 DEF Run
          <3>5. /\ runs' \in Seq(Run) /\ DOMAIN runs' = DOMAIN runs /\ Len(runs') = Len(runs)
                /\ \A j \in DOMAIN runs : j # i => runs'[j] = runs[j]
                /\ runs'[i] = x
              BY <2>4, <3>1, <3>3, <3>4, ReplacedInSeq
          <3>6. QED BY <3>3, <3>5 DEF Run
      <2>6. \A j : First(j)' <=> First(j) BY <2>5 DEF First
      <2>7. Runs!RunsTypeOK'
          BY <1>b, <2>1, <2>2, <2>3, <2>5 DEF RunsInv, Runs!RunsTypeOK
      <2>8. OneIsFirst' BY <2>5, <2>6 DEF RunsInv, OneIsFirst
      <2>9. ASSUME Len(runs) <= PageSize, NEW f, First(f)
            PROVE  f # i /\ f \in listedRuns[s]
          <3>1. PICK g \in listedRuns[s] : First(g)
              BY <2>3, <2>9 DEF RunsInv, CancelsSeeFirst
          <3>2. f = g BY <2>9, <3>1, FirstIsOne
          <3>3. canon = f
              BY <2>3, <2>4, <2>9, <3>1, <3>2, LowestIsFirst
                 DEF RunsInv, CancelsSeeFirst, Runs!Canonical
          <3>4. QED BY <2>1, <3>1, <3>2, <3>3
      <2>10. FirstLives'
          BY <2>5, <2>6, <2>9 DEF RunsInv, FirstLives
      <2>11. CancelsSeeFirst'
          <3> SUFFICES ASSUME NEW q \in Submitters, psub'[q] = "cancel"
                       PROVE  /\ \A j \in listedRuns'[q] : runs'[j].ours
                              /\ Len(runs) <= PageSize => \E j \in listedRuns'[q] : First(j)
              BY <2>5, <2>6 DEF CancelsSeeFirst
          <3>1. psub[q] = "cancel" BY <1>b, <2>2, <2>3
          <3>2. listedRuns'[q] \subseteq listedRuns[q] /\ (q # s => listedRuns'[q] = listedRuns[q])
                /\ listedRuns'[s] = listedRuns[s] \ {i}
              BY <2>1 DEF RunsInv, Runs!RunsTypeOK
          <3>3. listedRuns[q] \subseteq DOMAIN runs BY DEF RunsInv, Runs!RunsTypeOK
          <3>4. \A j \in listedRuns'[q] : runs'[j].ours
              BY <2>5, <3>1, <3>2, <3>3 DEF RunsInv, CancelsSeeFirst
          <3>5. ASSUME Len(runs) <= PageSize PROVE \E j \in listedRuns'[q] : First(j)
              <4>1. PICK f \in listedRuns[q] : First(f)
                  BY <3>1, <3>5 DEF RunsInv, CancelsSeeFirst
              <4>2. f # i BY <2>9, <3>5, <4>1
              <4>3. QED BY <3>2, <4>1, <4>2
          <3>6. QED BY <3>4, <3>5
      <2>12. HandleIsFirst'
          <3> SUFFICES ASSUME NEW q \in Submitters, handle[q] # 0
                       PROVE  runs'[handle[q]].ours /\ (Len(runs) <= PageSize => First(handle[q]))
              BY <2>3, <2>5, <2>6 DEF HandleIsFirst
          <3>1. handle[q] \in DOMAIN runs BY DEF RunsInv, Runs!RunsTypeOK
          <3>2. QED BY <2>5, <3>1 DEF RunsInv, HandleIsFirst
      <2>13. QED BY <2>7, <2>8, <2>10, <2>11, <2>12 DEF RunsInv
  <1>5. ASSUME NEW s \in Submitters, Runs!Answer(s) PROVE RunsInv'
      <2> DEFINE canon == Runs!Canonical(listedRuns[s])
      <2>1. /\ psub[s] = "cancel" /\ psub' = [psub EXCEPT ![s] = "done"]
            /\ listedRuns[s] = {canon} /\ handle' = [handle EXCEPT ![s] = canon]
            /\ UNCHANGED <<runs, accepted, dispatched, listedRuns, subError>>
          BY <1>5 DEF Runs!Answer, Runs!At
      <2> HIDE DEF canon
      <2>2. canon \in DOMAIN runs /\ runs[canon].ours
          BY <2>1 DEF RunsInv, Runs!RunsTypeOK, CancelsSeeFirst
      <2>3. Len(runs) <= PageSize => First(canon) BY <2>1 DEF RunsInv, CancelsSeeFirst
      <2>4. Runs!RunsTypeOK' BY <1>b, <2>1, <2>2 DEF RunsInv, Runs!RunsTypeOK
      <2>5. OneIsFirst' /\ FirstLives' BY <2>1 DEF RunsInv, OneIsFirst, FirstLives, First
      <2>6. CancelsSeeFirst' BY <1>b, <2>1 DEF RunsInv, CancelsSeeFirst, First
      <2>7. HandleIsFirst'
          <3> SUFFICES ASSUME NEW q \in Submitters, handle'[q] # 0
                       PROVE  runs[handle'[q]].ours /\ (Len(runs) <= PageSize => First(handle'[q]))
              BY <2>1 DEF HandleIsFirst, First
          <3>1. handle'[q] = IF q = s THEN canon ELSE handle[q]
              BY <2>1 DEF RunsInv, Runs!RunsTypeOK
          <3>2. QED BY <2>2, <2>3, <3>1 DEF RunsInv, HandleIsFirst
      <2>8. QED BY <2>4, <2>5, <2>6, <2>7 DEF RunsInv
  <1>6. ASSUME NEW s \in Submitters, Runs!SubRefused(s) PROVE RunsInv'
      <2>1. /\ psub[s] # "done"
            /\ UNCHANGED <<runs, accepted, dispatched, listedRuns, handle>>
          BY <1>6 DEF Runs!SubRefused
      <2>2. \/ psub' = [psub EXCEPT ![s] = "probe"] /\ UNCHANGED subError
            \/ /\ psub' = [psub EXCEPT ![s] = "done"]
               /\ \E kind \in Runs!Kinds : subError' = [subError EXCEPT ![s] = kind]
          BY <1>6 DEF Runs!SubRefused, Runs!Kinds, Runs!RetryableKinds, Runs!TerminalKinds
      <2>3. QED BY <1>a, <2>1, <2>2, SubmitterKeeps
  <1>7. CASE Runs!CreateRun
      <2>1. accepted' \in Nat BY <1>7, <1>a DEF Runs!CreateRun
      <2>2. QED BY <1>7, <2>1, RunComes DEF Runs!CreateRun
  <1>8. CASE Runs!ForeignRun
      BY <1>8, <1>a, RunComes DEF Runs!ForeignRun
  <1>9. QED BY <1>1, <1>2, <1>3, <1>4, <1>5, <1>6, <1>7, <1>8 DEF Runs!NextRuns, Runs!SubSteps

\* The invariant gives every submitter the same, living run.
LEMMA RunsAreOne == RunsInv => Runs!OneHandle
  <1> SUFFICES ASSUME RunsInv, Len(runs) <= PageSize, NEW s \in Submitters, handle[s] # 0
               PROVE  /\ handle[s] = Runs!Min({i \in DOMAIN runs : Runs!Ours(i)})
                      /\ handle[s] \in Runs!OursAlive
      BY DEF Runs!OneHandle
  <1>1. First(handle[s]) BY DEF RunsInv, HandleIsFirst
  <1>2. handle[s] \in {i \in DOMAIN runs : Runs!Ours(i)} BY <1>1 DEF First, Runs!Ours
  <1>3. handle[s] = Runs!Min({i \in DOMAIN runs : Runs!Ours(i)})
      BY <1>1, <1>2, LowestIsFirst DEF Runs!Ours
  <1>4. runs[handle[s]].live BY <1>1 DEF RunsInv, FirstLives, First
  <1>5. QED BY <1>2, <1>3, <1>4 DEF Runs!OursAlive
-----------------------------------------------------------------------------
(* The catalogue's steps.                                                  *)

LEMMA CatalogInit == Init => CatalogInv
  <1> SUFFICES ASSUME Init PROVE CatalogInv
      OBVIOUS
  <1>1. PICK olds : Catalog!InitCatalog(crew, olds) BY DEF Init
  <1>2. PICK old \in olds : catalog = [r \in Repos |-> IF r \in old THEN "topics" ELSE "absent"]
      BY <1>1 DEF Catalog!InitCatalog
  <1>3. /\ posts = {}
        /\ pcat = [c \in Provisioners \union Listers |-> IF c \in crew THEN Catalog!Begin(c) ELSE "done"]
        /\ answer = [c \in Provisioners \union Listers |-> "none"]
      BY <1>1 DEF Catalog!InitCatalog
  <1>4. CatalogShape BY <1>2, <1>3 DEF CatalogShape, CatalogSteps, CatalogAnswers, Catalog!Begin
  <1>5. BareHasOwner /\ SuccessHasTopics
      BY <1>2, <1>3 DEF BareHasOwner, SuccessHasTopics
  <1>6. QED BY <1>3, <1>4, <1>5 DEF CatalogInv

LEMMA CatalogUnchanged == CatalogInv /\ UNCHANGED catalogVars => CatalogInv'
  BY DEF catalogVars, CatalogInv, CatalogShape, BareHasOwner, SuccessHasTopics, Began

\* What the end of a provisioner's step leaves of its own record: it is still
\* on its way, or has its answer.
Moved(p) ==
    /\ pcat' \in [Provisioners \union Listers -> CatalogSteps]
    /\ answer' \in [Provisioners \union Listers -> CatalogAnswers]
    /\ \A c \in (Provisioners \union Listers) \ {p} : pcat'[c] = pcat[c] /\ answer'[c] = answer[c]
    /\ \A q \in Provisioners \ {p} : pcat'[q] = pcat[q] /\ answer'[q] = answer[q]
    /\ pcat'[p] # "list"
    /\ pcat'[p] # "done" <=> answer'[p] = "none"

LEMMA GotoMoves ==
    ASSUME CatalogInv, NEW p \in Provisioners, pcat[p] # "done",
           NEW step \in {"create", "find", "topics"}, Catalog!Goto(p, step)
    PROVE  Moved(p) /\ answer'[p] = "none"
  BY DEF CatalogInv, CatalogShape, CatalogSteps, CatalogAnswers, Catalog!Goto, Moved

LEMMA ReturnMoves ==
    ASSUME CatalogInv, NEW p \in Provisioners, pcat[p] # "done",
           NEW result \in Catalog!TerminalKinds \union {"ok"}, Catalog!Return(p, result)
    PROVE  Moved(p) /\ answer'[p] = result
  BY DEF CatalogInv, CatalogShape, CatalogSteps, CatalogAnswers, Catalog!Return, Moved,
     Catalog!TerminalKinds

LEMMA FailureMoves ==
    ASSUME CatalogInv, NEW p \in Provisioners, pcat[p] # "done",
           NEW kind \in Catalog!DoFails, Catalog!FailWith(p, kind)
    PROVE  Moved(p) /\ answer'[p] # "ok"
  <1>1. CASE Catalog!Goto(p, Catalog!Begin(p))
      BY <1>1, GotoMoves DEF Catalog!Begin
  <1>2. CASE kind = "Auth" /\ Catalog!Return(p, kind)
      BY <1>2, ReturnMoves DEF Catalog!TerminalKinds
  <1>3. QED BY <1>1, <1>2 DEF Catalog!FailWith, Catalog!Retried, Catalog!RetryableKinds,
                              Catalog!DoFails

\* A step that leaves topics where they are and makes nothing bare, or wanted,
\* but what is its own provisioner's.
LEMMA MoveKeeps ==
    ASSUME CatalogInv, NEW p \in Provisioners, pcat[p] # "done", Moved(p),
           catalog' \in [Repos -> {"absent", "bare", "topics"}], posts' \subseteq Repos,
           \A r \in Repos : catalog[r] = "topics" => catalog'[r] = "topics",
           \A r \in Repos : catalog'[r] = "bare" \/ r \in posts' =>
               catalog[r] = "bare" \/ r \in posts \/ r = Wanted[p],
           answer'[p] = "ok" => catalog'[Wanted[p]] = "topics",
           UNCHANGED deleted
    PROVE  CatalogInv'
  <1>1. /\ \A q \in Provisioners \ {p} : pcat'[q] = pcat[q] /\ answer'[q] = answer[q]
      BY DEF Moved, CatalogInv, CatalogShape
  <1>2. CatalogShape' BY <1>1 DEF Moved, CatalogInv, CatalogShape
  <1>3. \A q \in Provisioners : Began(q) => Began(q)' BY <1>1 DEF Began, Moved
  <1>4. Began(p)' BY DEF Began, Moved
  <1>5. BareHasOwner' BY <1>3, <1>4 DEF CatalogInv, BareHasOwner
  <1>6. \A q \in Provisioners : Wanted[q] \in Repos BY CrewAssumption
  <1>7. SuccessHasTopics' BY <1>1, <1>6 DEF CatalogInv, SuccessHasTopics
  <1>8. QED BY <1>2, <1>5, <1>7 DEF CatalogInv

\* A step of a lister, GitHub or a user that leaves the provisioners alone.
LEMMA RestKeeps ==
    ASSUME CatalogInv,
           pcat' \in [Provisioners \union Listers -> CatalogSteps],
           answer' \in [Provisioners \union Listers -> CatalogAnswers],
           \A q \in Provisioners : pcat'[q] = pcat[q] /\ answer'[q] = answer[q],
           catalog' \in [Repos -> {"absent", "bare", "topics"}], posts' \subseteq posts,
           \A r \in Repos : catalog[r] = "topics" => catalog'[r] = "topics" \/ r \in deleted',
           \A r \in Repos : catalog'[r] = "bare" => catalog[r] = "bare" \/ r \in posts,
           deleted \subseteq deleted'
    PROVE  CatalogInv'
  <1>1. CatalogShape' BY DEF CatalogInv, CatalogShape
  <1>2. BareHasOwner' BY DEF CatalogInv, BareHasOwner, Began
  <1>3. \A q \in Provisioners : Wanted[q] \in Repos BY CrewAssumption
  <1>4. SuccessHasTopics' BY <1>3 DEF CatalogInv, SuccessHasTopics
  <1>5. QED BY <1>1, <1>2, <1>4 DEF CatalogInv

\* What GitHub does with a creation and with topics.
LEMMA CreateServed ==
    ASSUME CatalogInv, NEW r \in Repos, Catalog!ServeCreate(r)
    PROVE  /\ catalog' \in [Repos -> {"absent", "bare", "topics"}]
           /\ \A x \in Repos : catalog[x] = "topics" => catalog'[x] = "topics"
           /\ \A x \in Repos : catalog'[x] = "bare" => catalog[x] = "bare" \/ x = r
  BY DEF CatalogInv, CatalogShape, Catalog!ServeCreate, Catalog!Creatable

LEMMA TopicsServed ==
    ASSUME CatalogInv, NEW r \in Repos, Catalog!ServeTopics(r)
    PROVE  /\ catalog' \in [Repos -> {"absent", "bare", "topics"}]
           /\ \A x \in Repos : catalog[x] = "topics" => catalog'[x] = "topics"
           /\ \A x \in Repos : catalog'[x] = "bare" => catalog[x] = "bare"
           /\ r \in Catalog!Present => catalog'[r] = "topics"
  BY DEF CatalogInv, CatalogShape, Catalog!ServeTopics, Catalog!Present

LEMMA CatalogStepKeeps == CatalogInv /\ Catalog!NextCatalog => CatalogInv'
  <1> SUFFICES ASSUME CatalogInv, Catalog!NextCatalog PROVE CatalogInv'
      OBVIOUS
  <1>a. catalog \in [Repos -> {"absent", "bare", "topics"}] /\ posts \subseteq Repos
      BY DEF CatalogInv, CatalogShape
  <1>b. \A p \in Provisioners : Wanted[p] \in Repos BY CrewAssumption
  <1>d. /\ pcat \in [Provisioners \union Listers -> CatalogSteps]
        /\ answer \in [Provisioners \union Listers -> CatalogAnswers]
      BY DEF CatalogInv, CatalogShape
  <1>c. Catalog!ClassifyStatus(404) = "NotFound"
      BY DEF Catalog!ClassifyStatus, Catalog!TransportFailed
  <1>1. ASSUME NEW p \in Provisioners, Catalog!Create(p) PROVE CatalogInv'
      <2>1. pcat[p] # "done" /\ UNCHANGED deleted BY <1>1 DEF Catalog!Create
      <2>2. Moved(p) /\ answer'[p] # "ok"
          <3>1. CASE Catalog!Created(p)
              BY <2>1, <3>1, GotoMoves DEF Catalog!Created, Catalog!AlreadyExists
          <3>2. CASE Catalog!FailWith(p, "Transient")
              BY <2>1, <3>2, FailureMoves DEF Catalog!DoFails
          <3>3. QED BY <1>1, <3>1, <3>2 DEF Catalog!Create
      <2>3. CASE Catalog!ServeCreate(Wanted[p]) /\ UNCHANGED posts
          BY <1>a, <1>b, <2>1, <2>2, <2>3, CreateServed, MoveKeeps
      <2>4. CASE posts' = posts \union {Wanted[p]} /\ UNCHANGED catalog
          BY <1>a, <1>b, <2>1, <2>2, <2>4, MoveKeeps
      <2>5. QED BY <1>1, <2>3, <2>4 DEF Catalog!Create
  <1>2. ASSUME NEW p \in Provisioners, Catalog!FindExisting(p) PROVE CatalogInv'
      <2>1. pcat[p] # "done" /\ UNCHANGED <<catalog, posts, deleted>>
          BY <1>2 DEF Catalog!FindExisting
      <2>2. Moved(p) /\ answer'[p] # "ok"
          <3>1. CASE Catalog!Goto(p, "topics") BY <2>1, <3>1, GotoMoves
          <3>2. CASE Catalog!Return(p, "NotFound")
              BY <2>1, <3>2, ReturnMoves DEF Catalog!TerminalKinds
          <3>3. QED BY <1>2, <1>c, <3>1, <3>2 DEF Catalog!FindExisting
      <2>3. QED BY <1>a, <2>1, <2>2, MoveKeeps
  <1>3. ASSUME NEW p \in Provisioners, Catalog!SetTopics(p) PROVE CatalogInv'
      <2>1. /\ pcat[p] # "done" /\ UNCHANGED <<posts, deleted>>
            /\ Catalog!ServeTopics(Wanted[p])
          BY <1>3 DEF Catalog!SetTopics
      <2>2. Moved(p) /\ (answer'[p] = "ok" => Wanted[p] \in Catalog!Present)
          <3>1. CASE Wanted[p] \in Catalog!Present /\ Catalog!Return(p, "ok")
              BY <2>1, <3>1, ReturnMoves
          <3>2. CASE Catalog!Return(p, "NotFound")
              BY <2>1, <3>2, ReturnMoves DEF Catalog!TerminalKinds
          <3>3. CASE Catalog!FailWith(p, "Transient")
              BY <2>1, <3>3, FailureMoves DEF Catalog!DoFails
          <3>4. QED BY <1>3, <1>c, <3>1, <3>2, <3>3 DEF Catalog!SetTopics
      <2>3. QED BY <1>a, <1>b, <2>1, <2>2, TopicsServed, MoveKeeps
  <1>4. ASSUME NEW p \in Provisioners, Catalog!Refuse(p) PROVE CatalogInv'
      <2>1. pcat[p] # "done" /\ UNCHANGED <<catalog, posts, deleted>>
          BY <1>4 DEF Catalog!Refuse
      <2>2. PICK kind \in Catalog!DoFails : Catalog!FailWith(p, kind)
          BY <1>4 DEF Catalog!Refuse
      <2>3. Moved(p) /\ answer'[p] # "ok" BY <2>1, <2>2, FailureMoves
      <2>4. QED BY <1>a, <2>1, <2>3, MoveKeeps
  <1>5. ASSUME NEW l \in Listers, Catalog!FetchPage(l) PROVE CatalogInv'
      <2>1. pcat[l] = "list" /\ UNCHANGED <<catalog, posts, deleted>>
          BY <1>5 DEF Catalog!FetchPage
      <2>2. l \notin Provisioners BY <2>1 DEF CatalogInv, CatalogShape
      <2>3. UNCHANGED <<pcat, answer>> \/ Catalog!Return(l, "ok")
          BY <1>5 DEF Catalog!FetchPage
      <2>4. /\ pcat' \in [Provisioners \union Listers -> CatalogSteps]
            /\ answer' \in [Provisioners \union Listers -> CatalogAnswers]
            /\ \A q \in Provisioners : pcat'[q] = pcat[q] /\ answer'[q] = answer[q]
          BY <2>2, <2>3 DEF Catalog!Return, CatalogInv, CatalogShape, CatalogSteps, CatalogAnswers
      <2>5. QED BY <1>a, <2>1, <2>4, RestKeeps
  <1>6. ASSUME NEW l \in Listers, Catalog!Refuse(l) PROVE CatalogInv'
      <2>1. CASE l \in Provisioners BY <1>4, <1>6, <2>1
      <2>2. CASE l \notin Provisioners
          <3>1. UNCHANGED <<catalog, posts, deleted>> BY <1>6 DEF Catalog!Refuse
          <3>2. PICK kind \in Catalog!DoFails : Catalog!FailWith(l, kind)
              BY <1>6 DEF Catalog!Refuse
          <3>3. /\ pcat' \in [Provisioners \union Listers -> CatalogSteps]
                /\ answer' \in [Provisioners \union Listers -> CatalogAnswers]
                /\ \A q \in Provisioners : pcat'[q] = pcat[q] /\ answer'[q] = answer[q]
              BY <2>2, <3>2 DEF Catalog!FailWith, Catalog!Goto, Catalog!Return, CatalogInv, CatalogShape,
                                CatalogSteps, CatalogAnswers, Catalog!Begin, Catalog!Retried,
                                Catalog!RetryableKinds, Catalog!TerminalKinds, Catalog!DoFails
          <3>4. QED BY <1>a, <3>1, <3>3, RestKeeps
      <2>3. QED BY <2>1, <2>2
  <1>7. CASE Catalog!ServeLateCreate
      <2>1. PICK r \in posts : Catalog!ServeCreate(r) /\ posts' = posts \ {r}
          BY <1>7 DEF Catalog!ServeLateCreate
      <2>2. UNCHANGED <<pcat, answer, deleted>> BY <1>7 DEF Catalog!ServeLateCreate
      <2>3. /\ catalog' \in [Repos -> {"absent", "bare", "topics"}]
            /\ \A x \in Repos : catalog[x] = "topics" => catalog'[x] = "topics"
            /\ \A x \in Repos : catalog'[x] = "bare" => catalog[x] = "bare" \/ x = r
          BY <1>a, <2>1, CreateServed
      <2>4. QED BY <1>d, <2>1, <2>2, <2>3, RestKeeps
  <1>8. ASSUME NEW r \in Repos, Catalog!Delete(r) PROVE CatalogInv'
      <2>1. /\ UNCHANGED <<posts, pcat, answer>> /\ deleted' = deleted \union {r}
            /\ catalog' = [catalog EXCEPT ![r] = "absent"]
          BY <1>8 DEF Catalog!Delete
      <2>2. QED BY <1>a, <1>d, <2>1, RestKeeps
  <1>9. QED BY <1>1, <1>2, <1>3, <1>4, <1>5, <1>6, <1>7, <1>8 DEF Catalog!NextCatalog

\* What is bare is some provisioner's that runs, or has returned an error: had
\* it succeeded, the topics would be there or the repository deleted.
LEMMA BareOwed == CatalogInv => Catalog!BareIsOwed
  BY DEF CatalogAnswers, CatalogInv, CatalogShape, BareHasOwner, SuccessHasTopics, Began, Catalog!BareIsOwed
-----------------------------------------------------------------------------
(* The order of the listing.                                               *)

\* Two repositories never have one place, and no place is past the last.
LEMMA PlacesDiffer ==
    ASSUME NEW S \in SUBSET Nat, IsFiniteSet(S)
    PROVE  /\ \A r \in S : Place(S, r) \in 1 .. Cardinality(S)
           /\ \A r, q \in S : Place(S, r) = Place(S, q) => r = q
  <1> DEFINE upTo(r) == {q \in S : q <= r}
  <1>1. ASSUME NEW r \in Nat
        PROVE  /\ IsFiniteSet(upTo(r)) /\ Cardinality(upTo(r)) \in Nat
               /\ Cardinality(upTo(r)) <= Cardinality(S)
      <2>1. upTo(r) \in SUBSET S OBVIOUS
      <2> HIDE DEF upTo
      <2>2. QED BY <2>1, FS_Subset, FS_CardinalityType
  <1>2. ASSUME NEW r \in S PROVE Cardinality(upTo(r)) # 0
      <2>1. r \in upTo(r) OBVIOUS
      <2>2. IsFiniteSet(upTo(r)) BY <1>1
      <2> HIDE DEF upTo
      <2>3. QED BY <2>1, <2>2, FS_EmptySet
  <1>3. ASSUME NEW r \in S, NEW q \in S, r < q PROVE Cardinality(upTo(r)) # Cardinality(upTo(q))
      <2>0. r \in Nat /\ q \in Nat OBVIOUS
      <2>1. \A p \in Nat : p <= r => p <= q BY <1>3, <2>0
      <2>2. upTo(r) \in SUBSET upTo(q) BY <2>1
      <2>3. q \in upTo(q) /\ q \notin upTo(r) BY <1>3, <2>0
      <2>4. IsFiniteSet(upTo(q)) BY <1>1, <2>0
      <2> HIDE DEF upTo
      <2>5. Cardinality(upTo(q)) = Cardinality(upTo(r)) => upTo(q) = upTo(r)
          BY <2>2, <2>4, FS_Subset
      <2>6. QED BY <2>3, <2>5
  <1>4. \A r \in S : Place(S, r) = Cardinality(upTo(r)) BY DEF Place
  <1>5. Cardinality(S) \in Nat BY FS_CardinalityType
  <1> HIDE DEF upTo
  <1>6. ASSUME NEW r \in S PROVE Place(S, r) \in 1 .. Cardinality(S) BY <1>1, <1>2, <1>4, <1>5
  <1>7. ASSUME NEW r \in S, NEW q \in S, r # q PROVE Place(S, r) # Place(S, q)
      <2>1. r < q \/ q < r BY <1>7
      <2>2. QED BY <1>3, <1>4, <2>1
  <1>8. QED BY <1>6, <1>7

\* Every place is taken, so the listing in order has every repository at its
\* place.
LEMMA OrderIsByPlace ==
    ASSUME NEW S \in SUBSET Nat, IsFiniteSet(S)
    PROVE  /\ InOrder(S) \in Seq(S) /\ Len(InOrder(S)) = Cardinality(S)
           /\ \A r \in S : InOrder(S)[Place(S, r)] = r
           /\ \A i \in 1 .. Cardinality(S) : Place(S, InOrder(S)[i]) = i
  <1> DEFINE n == Cardinality(S)
             f == [r \in S |-> Place(S, r)]
  <1>1. n \in Nat BY FS_CardinalityType
  <1>2. f \in Injection(S, 1 .. n) BY PlacesDiffer DEF Injection, IsInjective
  <1>3. IsFiniteSet(1 .. n) /\ Cardinality(1 .. n) = n BY <1>1, FS_Interval
  <1>4. f \in Surjection(S, 1 .. n) BY <1>2, <1>3, FS_Injection
  <1>5. \A i \in 1 .. n : \E r \in S : Place(S, r) = i BY <1>4 DEF Surjection
  <1>6. \A i \in 1 .. n : InOrder(S)[i] \in S /\ Place(S, InOrder(S)[i]) = i
      BY <1>5 DEF InOrder
  <1>7. InOrder(S) \in [1 .. n -> S] BY <1>6 DEF InOrder
  <1>a. InOrder(S) \in Seq(S) /\ DOMAIN InOrder(S) = 1 .. n BY <1>1, <1>7, SeqDef
  <1>b. Len(InOrder(S)) \in Nat /\ DOMAIN InOrder(S) = 1 .. Len(InOrder(S))
      BY <1>a, LenProperties
  <1>c. Len(InOrder(S)) = n
      <2> HIDE DEF n
      <2>1. QED BY <1>1, <1>a, <1>b
  <1>8. InOrder(S) \in Seq(S) /\ Len(InOrder(S)) = n BY <1>a, <1>c
  <1>9. \A r \in S : InOrder(S)[Place(S, r)] = r
      <2> SUFFICES ASSUME NEW r \in S PROVE InOrder(S)[Place(S, r)] = r
          OBVIOUS
      <2>1. Place(S, r) \in 1 .. n BY PlacesDiffer
      <2> DEFINE q == InOrder(S)[Place(S, r)]
      <2>2. q \in S /\ Place(S, q) = Place(S, r) BY <1>6, <2>1
      <2>3. \A a, b \in S : Place(S, a) = Place(S, b) => a = b BY PlacesDiffer
      <2> HIDE DEF q
      <2>4. q = r BY <2>2, <2>3
      <2>5. QED BY <2>4 DEF q
  <1>10. QED BY <1>6, <1>8, <1>9

\* A creation moves a repository back in the order, if it moves it at all.
LEMMA PlaceGrows ==
    ASSUME NEW T \in SUBSET Nat, IsFiniteSet(T), NEW S \in SUBSET T, NEW r \in Nat
    PROVE  /\ Place(S, r) \in Nat /\ Place(T, r) \in Nat
           /\ Place(S, r) <= Place(T, r)
  <1>1. {q \in S : q <= r} \in SUBSET {q \in T : q <= r} OBVIOUS
  <1>2. {q \in T : q <= r} \in SUBSET T OBVIOUS
  <1>3. IsFiniteSet({q \in T : q <= r}) BY <1>2, FS_Subset
  <1>4. QED BY <1>1, <1>3, FS_Subset, FS_CardinalityType DEF Place

\* A deletion moves it forward by at most one.
LEMMA PlaceShrinks ==
    ASSUME NEW S \in SUBSET Nat, IsFiniteSet(S), NEW x, NEW r \in Nat
    PROVE  Place(S \ {x}, r) \in Nat /\ Place(S, r) \in Nat /\ Place(S, r) <= Place(S \ {x}, r) + 1
  <1> DEFINE upTo == {q \in S : q <= r}
  <1>1. upTo \in SUBSET S /\ {q \in S \ {x} : q <= r} = upTo \ {x} OBVIOUS
  <1>2. IsFiniteSet(upTo) BY <1>1, FS_Subset
  <1>3. Place(S, r) = Cardinality(upTo) /\ Place(S \ {x}, r) = Cardinality(upTo \ {x})
      BY <1>1 DEF Place
  <1> HIDE DEF upTo
  <1>4. /\ Cardinality(upTo \ {x}) = IF x \in upTo THEN Cardinality(upTo) - 1 ELSE Cardinality(upTo)
        /\ IsFiniteSet(upTo \ {x})
      BY <1>2, FS_RemoveElement
  <1>5. Cardinality(upTo) \in Nat /\ Cardinality(upTo \ {x}) \in Nat BY <1>2, <1>4, FS_CardinalityType
  <1>6. QED BY <1>3, <1>4, <1>5
-----------------------------------------------------------------------------
\* A part of a finite set counts no more than the whole.
LEMMA FewerMissing ==
    ASSUME NEW A, NEW B, IsFiniteSet(B), A \subseteq B
    PROVE  IsFiniteSet(A) /\ Cardinality(A) \in Nat /\ Cardinality(B) \in Nat
           /\ Cardinality(A) <= Cardinality(B)
  BY FS_Subset, FS_CardinalityType

\* What a creation moves, it moves away from what was read.
LEMMA CreationHidesNone ==
    ASSUME NEW T \in SUBSET Nat, IsFiniteSet(T), NEW S \in SUBSET T, NEW kept \in SUBSET S,
           NEW n \in Nat, NEW rows
    PROVE  Missing(T, kept, n, rows) \subseteq Missing(S, kept, n, rows)
  <1>1. \A r \in kept : /\ Place(S, r) \in Nat /\ Place(T, r) \in Nat
                        /\ Place(S, r) <= Place(T, r)
      <2> SUFFICES ASSUME NEW r \in kept
                   PROVE  /\ Place(S, r) \in Nat /\ Place(T, r) \in Nat
                          /\ Place(S, r) <= Place(T, r)
          OBVIOUS
      <2>1. r \in Nat OBVIOUS
      <2>2. QED BY <2>1, PlaceGrows, ZenonT(30)
  <1>2. \A r \in kept : Place(T, r) <= n => Place(S, r) <= n
      <2> SUFFICES ASSUME NEW r \in kept, Place(T, r) <= n PROVE Place(S, r) <= n
          OBVIOUS
      <2>1. QED BY <1>1
  <1>3. QED BY <1>2 DEF Missing

\* A deletion moves one row, at most, among those that were read.
LEMMA DeletionHidesOne ==
    ASSUME NEW S \in SUBSET Nat, IsFiniteSet(S), NEW kept \in SUBSET S, NEW x,
           NEW n \in Nat, NEW rows
    PROVE  Cardinality(Missing(S \ {x}, kept \ {x}, n, rows))
               <= Cardinality(Missing(S, kept, n, rows)) + 1
  <1> DEFINE before == Missing(S, kept, n, rows)
             after == Missing(S \ {x}, kept \ {x}, n, rows)
  <1>1. \A r \in kept : /\ Place(S \ {x}, r) \in Nat /\ Place(S, r) \in Nat
                        /\ Place(S, r) <= Place(S \ {x}, r) + 1
      BY PlaceShrinks
  <1>2. \A r \in after : r \in before \/ (r \in S /\ Place(S, r) = n + 1)
      BY <1>1 DEF Missing
  <1>3. \A r, q \in S : Place(S, r) = Place(S, q) => r = q BY PlacesDiffer
  <1>4. before \in SUBSET S BY DEF Missing
  <1> HIDE DEF before, after
  <1>5. \E next : after \subseteq before \union {next}
      <2>1. CASE after \subseteq before BY <2>1
      <2>2. CASE \E r \in after : r \notin before
          <3>1. PICK next \in after : next \notin before BY <2>2
          <3>2. after \subseteq before \union {next} BY <1>2, <1>3, <3>1
          <3>3. QED BY <3>2
      <2>3. QED BY <2>1, <2>2
  <1>6. PICK next : after \subseteq before \union {next} BY <1>5
  <1>7. IsFiniteSet(before) BY <1>4, FS_Subset
  <1>8. /\ IsFiniteSet(before \union {next}) /\ Cardinality(before) \in Nat
        /\ Cardinality(before \union {next}) <= Cardinality(before) + 1
      <2>1. /\ IsFiniteSet(before \union {next})
            /\ Cardinality(before \union {next})
                 = IF next \in before THEN Cardinality(before) ELSE Cardinality(before) + 1
          BY <1>7, FS_AddElement
      <2>2. Cardinality(before) \in Nat BY <1>7, FS_CardinalityType
      <2>3. QED BY <2>1, <2>2
  <1>9. /\ Cardinality(after) <= Cardinality(before \union {next})
        /\ Cardinality(after) \in Nat /\ Cardinality(before \union {next}) \in Nat
      BY <1>6, <1>8, FewerMissing
  <1>10. Cardinality(after) <= Cardinality(before) + 1 BY <1>8, <1>9
  <1>11. QED BY <1>10 DEF before, after

\* A page is the next rows of the order, and the last page reaches its end.
NextRows(S, n, size) ==
    SubSeq(InOrder(S), n + 1, IF n + size < Cardinality(S) THEN n + size ELSE Cardinality(S))

LEMMA PageReads ==
    ASSUME NEW S \in SUBSET Nat, IsFiniteSet(S), NEW n \in Nat, NEW size \in Nat
    PROVE  /\ NextRows(S, n, size) \in Seq(S)
           /\ \A r \in S : n < Place(S, r) /\ Place(S, r) <= n + size
                 => r \in Rows(NextRows(S, n, size)) /\ Place(S, r) <= n + Len(NextRows(S, n, size))
           /\ Len(NextRows(S, n, size)) <= size
           /\ Len(NextRows(S, n, size)) < size => n + Len(NextRows(S, n, size)) >= Cardinality(S)
  <1> DEFINE total == Cardinality(S)
             end == IF n + size < total THEN n + size ELSE total
             page == NextRows(S, n, size)
  <1>1. total \in Nat /\ end \in Nat /\ end <= n + size /\ end <= total BY FS_CardinalityType
  <1>2. \A i \in 1 .. total : InOrder(S)[i] \in S
      <2>1. InOrder(S) \in Seq(S) /\ Len(InOrder(S)) = total BY OrderIsByPlace
      <2>2. QED BY <2>1, ElementOfSeq
  <1>3. \A i \in n + 1 .. end : InOrder(S)[i] \in S BY <1>1, <1>2
  <1>4. page = SubSeq(InOrder(S), n + 1, end) BY DEF NextRows
  <1>5. \A r \in S : InOrder(S)[Place(S, r)] = r BY OrderIsByPlace
  <1>6. \A r \in S : Place(S, r) \in 1 .. total BY PlacesDiffer
  <1> HIDE DEF page
  <1>7. /\ page \in Seq(S)
        /\ Len(page) = IF n + 1 <= end THEN end - n ELSE 0
        /\ \A i \in 1 .. end - n : page[i] = InOrder(S)[n + i]
      <2> HIDE DEF end, total
      <2>1. /\ page \in Seq(S)
            /\ Len(page) = IF n + 1 <= end THEN end - (n + 1) + 1 ELSE 0
            /\ \A i \in 1 .. end - (n + 1) + 1 : page[i] = InOrder(S)[(n + 1) + i - 1]
          BY <1>1, <1>3, <1>4, SubSeqProperties
      <2>2. QED BY <1>1, <2>1
  <1>8. ASSUME NEW r \in S, n < Place(S, r), Place(S, r) <= n + size
        PROVE  r \in Rows(page) /\ Place(S, r) <= n + Len(page)
      <2> DEFINE i == Place(S, r) - n
      <2>1. Place(S, r) \in Nat /\ Place(S, r) <= end BY <1>1, <1>6, <1>8
      <2>2. i \in 1 .. end - n /\ n + i = Place(S, r) /\ n + 1 <= end BY <1>1, <1>8, <2>1
      <2>3. page[i] = r BY <1>5, <1>7, <2>2
      <2>4. i \in 1 .. Len(page) BY <1>7, <2>2
      <2>5. QED BY <1>1, <1>7, <2>1, <2>2, <2>3, <2>4 DEF Rows
  <1>9. Len(page) <= size BY <1>1, <1>7
  <1>10. Len(page) < size => n + Len(page) >= total BY <1>1, <1>7
  <1>11. QED BY <1>7, <1>8, <1>9, <1>10 DEF page

\* Of the repositories a page makes up for, none is missing that was not, and
\* when it is the last, no other is missing at all.
LEMMA PageHidesNone ==
    ASSUME NEW S \in SUBSET Nat, IsFiniteSet(S), NEW kept \in SUBSET S,
           NEW n \in Nat, NEW size \in Nat, NEW rows
    PROVE  LET page == NextRows(S, n, size)
               now == rows \union Rows(page)
           IN  /\ Missing(S, kept, n + Len(page), now) \subseteq Missing(S, kept, n, rows)
               /\ Len(page) < size \/ n + Len(page) >= Cardinality(S)
                     => kept \ now \subseteq Missing(S, kept, n, rows)
  <1> DEFINE page == NextRows(S, n, size)
             now == rows \union Rows(page)
  <1>1. /\ page \in Seq(S) /\ Len(page) <= size
        /\ \A r \in S : n < Place(S, r) /\ Place(S, r) <= n + size => r \in Rows(page)
        /\ Len(page) < size => n + Len(page) >= Cardinality(S)
      BY PageReads
  <1>2. Len(page) \in Nat BY <1>1, LenProperties
  <1>3. \A r \in S : Place(S, r) \in 1 .. Cardinality(S) BY PlacesDiffer
  <1>4. Cardinality(S) \in Nat BY FS_CardinalityType
  <1> HIDE DEF page
  <1>5. ASSUME NEW r \in S, Place(S, r) <= n + Len(page), r \notin Rows(page)
        PROVE  Place(S, r) <= n
      <2>1. Place(S, r) \in Nat BY <1>3, <1>4
      <2>2. Place(S, r) <= n + size BY <1>1, <1>2, <1>5, <2>1
      <2>3. QED BY <1>1, <1>5, <2>1, <2>2
  <1>6. Missing(S, kept, n + Len(page), now) \subseteq Missing(S, kept, n, rows)
      BY <1>5 DEF Missing
  <1>7. ASSUME Len(page) < size \/ n + Len(page) >= Cardinality(S), NEW r \in kept \ now
        PROVE  r \in Missing(S, kept, n, rows)
      <2>1. n + Len(page) >= Cardinality(S) BY <1>1, <1>7
      <2>2. r \in S /\ Place(S, r) \in 1 .. Cardinality(S) BY <1>3
      <2>3. Place(S, r) <= n + Len(page) BY <1>2, <1>4, <2>1, <2>2
      <2>4. QED BY <1>5, <1>7, <2>2, <2>3 DEF Missing
  <1>8. QED BY <1>6, <1>7 DEF page
-----------------------------------------------------------------------------
(* The lister's steps.                                                     *)

\* Counting means the same to OrgCatalog as here.
LEMMA SameCount == \A A : Catalog!Cardinality(A) = Cardinality(A)
  BY DEF Catalog!Cardinality, Cardinality

\* There are finitely many repositories, so whatever is counted is finite.
LEMMA ReposCount ==
    ASSUME NEW A, A \subseteq Repos
    PROVE  A \in SUBSET Nat /\ IsFiniteSet(A) /\ Cardinality(A) \in Nat
  BY CrewAssumption, FewerMissing

LEMMA PresentAreRepos == Catalog!Present \subseteq Repos
  BY DEF Catalog!Present

\* Before the first page nothing is missing: no place is before the first.
LEMMA NothingMissing ==
    ASSUME NEW S, S \subseteq Repos
    PROVE  Missing(S, S, 0, Rows(<<>>)) = {}
  <1>1. S \in SUBSET Nat /\ IsFiniteSet(S) BY ReposCount
  <1>2. \A r \in S : Place(S, r) \in 1 .. Cardinality(S) BY <1>1, PlacesDiffer
  <1>3. Cardinality(S) \in Nat BY <1>1, FS_CardinalityType
  <1>4. QED BY <1>2, <1>3 DEF Missing

LEMMA ListingInit == Init => ListingInv
  <1> SUFFICES ASSUME Init PROVE ListingInv
      OBVIOUS
  <1>1. PICK olds : Catalog!InitCatalog(crew, olds) BY DEF Init
  <1>2. /\ pcat = [c \in Provisioners \union Listers |-> IF c \in crew THEN Catalog!Begin(c) ELSE "done"]
        /\ answer = [c \in Provisioners \union Listers |-> "none"]
        /\ listed = [l \in Listers |-> <<>>]
        /\ awaited = [l \in Listers |-> Catalog!Present]
        /\ lost = [l \in Listers |-> 0]
        /\ deleted = {}
      BY <1>1 DEF Catalog!InitCatalog
  <1>3. ListingShape
      BY <1>2, FS_EmptySet, CrewAssumption DEF ListingShape
  <1>4. ListerAnswers BY <1>2, CrewAssumption DEF ListerAnswers, Catalog!Begin
  <1>5. WholePages
      <2>1. 0 \in Nat /\ 0 = 0 * PageSize BY CrewAssumption
      <2>2. QED BY <1>2, <2>1 DEF WholePages
  <1>6. MissingAreLost
      <2> SUFFICES ASSUME NEW l \in Listers
                   PROVE  Cardinality(Missing(Catalog!Present, awaited[l], Len(listed[l]), Rows(listed[l])))
                            <= lost[l]
          BY DEF MissingAreLost
      <2>1. awaited[l] = Catalog!Present /\ listed[l] = <<>> /\ lost[l] = 0 BY <1>2
      <2>2. Missing(Catalog!Present, Catalog!Present, 0, Rows(<<>>)) = {} BY PresentAreRepos, NothingMissing
      <2>3. Len(<<>>) = 0 OBVIOUS
      <2>4. Missing(Catalog!Present, awaited[l], Len(listed[l]), Rows(listed[l])) = {}
          BY <2>1, <2>2, <2>3
      <2>5. Cardinality({}) = 0 BY FS_EmptySet
      <2>6. Cardinality(Missing(Catalog!Present, awaited[l], Len(listed[l]), Rows(listed[l]))) = 0
          BY <2>4, <2>5, Zenon
      <2>7. QED BY <2>1, <2>6
  <1>7. NoneMissing BY <1>2 DEF NoneMissing
  <1>8. QED BY <1>3, <1>4, <1>5, <1>6, <1>7 DEF ListingInv

LEMMA ListingUnchanged == ListingInv /\ UNCHANGED catalogVars => ListingInv'
  BY DEF catalogVars, ListingInv, ListingShape, ListerAnswers, WholePages, MissingAreLost,
     NoneMissing, Catalog!Present

\* A step that leaves the listers alone and takes no repository away.
LEMMA CreationKeepsListing ==
    ASSUME ListingInv, UNCHANGED <<listed, awaited, lost, deleted>>,
           \A l \in Listers : pcat'[l] = pcat[l] /\ answer'[l] = answer[l],
           Catalog!Present \subseteq (Catalog!Present)', (Catalog!Present)' \subseteq Repos
    PROVE  ListingInv'
  <1> DEFINE S == Catalog!Present
             T == (Catalog!Present)'
  <1>1. ListingShape' BY DEF ListingInv, ListingShape
  <1>2. ListerAnswers' BY DEF ListingInv, ListerAnswers
  <1>3. WholePages' BY DEF ListingInv, WholePages
  <1>4. NoneMissing' BY DEF ListingInv, NoneMissing
  <1>5. MissingAreLost'
      <2> SUFFICES ASSUME NEW l \in Listers, pcat[l] = "list"
                   PROVE  Cardinality(Missing(T, awaited[l], Len(listed[l]), Rows(listed[l]))) <= lost[l]
          BY DEF MissingAreLost
      <2> DEFINE n == Len(listed[l])
                 rows == Rows(listed[l])
      <2>1. awaited[l] \in SUBSET S /\ n \in Nat /\ lost[l] \in Nat
          BY DEF ListingInv, ListingShape
      <2>2. T \in SUBSET Nat /\ IsFiniteSet(T) BY ReposCount
      <2>3. S \in SUBSET T OBVIOUS
      <2> HIDE DEF S, T, n, rows
      <2>4. Missing(T, awaited[l], n, rows) \subseteq Missing(S, awaited[l], n, rows)
          BY <2>1, <2>2, <2>3, CreationHidesNone
      <2>5. IsFiniteSet(Missing(S, awaited[l], n, rows))
          <3>1. Missing(S, awaited[l], n, rows) \in SUBSET T BY <2>1, <2>3 DEF Missing
          <3>2. QED BY <2>2, <3>1, FS_Subset
      <2>6. /\ Cardinality(Missing(T, awaited[l], n, rows)) \in Nat
            /\ Cardinality(Missing(S, awaited[l], n, rows)) \in Nat
            /\ Cardinality(Missing(T, awaited[l], n, rows))
                 <= Cardinality(Missing(S, awaited[l], n, rows))
          BY <2>4, <2>5, FewerMissing
      <2>7. Cardinality(Missing(S, awaited[l], n, rows)) <= lost[l]
          BY DEF ListingInv, MissingAreLost, S, n, rows
      <2>8. Cardinality(Missing(T, awaited[l], n, rows)) <= lost[l] BY <2>1, <2>6, <2>7
      <2>9. QED BY <2>8 DEF T, n, rows
  <1>6. QED BY <1>1, <1>2, <1>3, <1>4, <1>5 DEF ListingInv

\* A deletion hides one row from each lister, and is counted by each.
LEMMA DeletionKeepsListing ==
    ASSUME CatalogInv, ListingInv, NEW r \in Repos, Catalog!Delete(r)
    PROVE  ListingInv'
  <1> DEFINE S == Catalog!Present
             T == (Catalog!Present)'
  <1>1. /\ r \in S /\ r \notin deleted /\ Cardinality(deleted) < MaxDeletions
        /\ deleted' = deleted \union {r}
        /\ awaited' = [l \in Listers |-> awaited[l] \intersect (S \ {r})]
        /\ lost' = [l \in Listers |-> lost[l] + 1]
        /\ UNCHANGED <<pcat, answer, listed>>
      <2>1. /\ r \in S /\ r \notin deleted /\ Cardinality(deleted) < MaxDeletions
            /\ deleted' = deleted \union {r} /\ Catalog!Await(S \ {r}, 1)
            /\ UNCHANGED <<pcat, answer, listed>>
          BY SameCount DEF Catalog!Delete
      <2> HIDE DEF S
      <2>2. /\ awaited' = [l \in Listers |-> awaited[l] \intersect (S \ {r})]
            /\ lost' = [l \in Listers |-> lost[l] + 1]
          BY <2>1 DEF Catalog!Await
      <2>3. QED BY <2>1, <2>2
  <1>2. catalog \in [Repos -> {"absent", "bare", "topics"}]
        /\ catalog' = [catalog EXCEPT ![r] = "absent"]
      BY DEF Catalog!Delete, CatalogInv, CatalogShape
  <1>3. T = S \ {r} BY <1>2 DEF Catalog!Present
  <1>4. S \in SUBSET Nat /\ IsFiniteSet(S) BY PresentAreRepos, ReposCount
  <1> HIDE DEF S, T
  <1>5. /\ awaited \in [Listers -> SUBSET S] /\ lost \in [Listers -> Nat]
        /\ listed \in [Listers -> Seq(Repos)]
        /\ deleted \subseteq Repos /\ Cardinality(deleted) <= MaxDeletions
        /\ \A l \in Listers : lost[l] <= Cardinality(deleted)
      BY DEF ListingInv, ListingShape, S
  <1>6. \A l \in Listers : awaited'[l] = awaited[l] \ {r} /\ lost'[l] = lost[l] + 1
      BY <1>1, <1>5
  <1>7. ListingShape'
      <2>1. /\ IsFiniteSet(deleted) /\ Cardinality(deleted) \in Nat BY <1>5, ReposCount
      <2>2. Cardinality(deleted') = Cardinality(deleted) + 1 BY <1>1, <2>1, FS_AddElement
      <2>3. \A l \in Listers : lost'[l] <= Cardinality(deleted') BY <1>5, <1>6, <2>1, <2>2
      <2>4. deleted' \subseteq Repos /\ Cardinality(deleted') <= MaxDeletions
          BY <1>1, <1>5, <2>1, <2>2, CrewAssumption
      <2>5. awaited' \in [Listers -> SUBSET T] BY <1>1, <1>3, <1>5
      <2>6. lost' \in [Listers -> Nat] BY <1>1, <1>5
      <2>7. QED BY <1>1, <1>5, <2>3, <2>4, <2>5, <2>6 DEF ListingShape, T
  <1>8. ListerAnswers' BY <1>1 DEF ListingInv, ListerAnswers
  <1>9. WholePages' BY <1>1 DEF ListingInv, WholePages
  <1>10. MissingAreLost'
      <2> SUFFICES ASSUME NEW l \in Listers, pcat[l] = "list"
                   PROVE  Cardinality(Missing(T, awaited'[l], Len(listed[l]), Rows(listed[l]))) <= lost'[l]
          BY <1>1 DEF MissingAreLost, T
      <2> DEFINE n == Len(listed[l])
                 rows == Rows(listed[l])
                 kept == awaited[l]
      <2>1. kept \in SUBSET S /\ n \in Nat /\ lost[l] \in Nat BY <1>5
      <2>2. Cardinality(Missing(S, kept, n, rows)) <= lost[l]
          BY DEF ListingInv, MissingAreLost, S
      <2>3. T = S \ {r} /\ awaited'[l] = kept \ {r} /\ lost'[l] = lost[l] + 1 BY <1>3, <1>6
      <2> HIDE DEF n, rows, kept
      <2>4. Cardinality(Missing(S \ {r}, kept \ {r}, n, rows))
              <= Cardinality(Missing(S, kept, n, rows)) + 1
          BY <1>4, <2>1, DeletionHidesOne
      <2>5. Missing(S, kept, n, rows) \subseteq S /\ Missing(S \ {r}, kept \ {r}, n, rows) \subseteq S
          BY <2>1 DEF Missing
      <2>6. /\ Cardinality(Missing(S, kept, n, rows)) \in Nat
            /\ Cardinality(Missing(S \ {r}, kept \ {r}, n, rows)) \in Nat
          BY <1>4, <2>5, FewerMissing
      <2>7. Cardinality(Missing(T, awaited'[l], n, rows)) <= lost'[l]
          BY <2>1, <2>2, <2>3, <2>4, <2>6
      <2>8. QED BY <2>7 DEF n, rows
  <1>11. NoneMissing'
      <2> SUFFICES ASSUME NEW l \in Listers, answer[l] = "ok"
                   PROVE  Cardinality(awaited'[l] \ Rows(listed[l])) <= lost'[l]
          BY <1>1 DEF NoneMissing
      <2>1. Cardinality(awaited[l] \ Rows(listed[l])) <= lost[l]
          BY DEF ListingInv, NoneMissing
      <2>2. awaited'[l] \ Rows(listed[l]) \subseteq awaited[l] \ Rows(listed[l]) BY <1>6
      <2>3. awaited[l] \ Rows(listed[l]) \subseteq S BY <1>5
      <2>4. IsFiniteSet(awaited[l] \ Rows(listed[l])) BY <1>4, <2>3, FewerMissing
      <2>5. /\ Cardinality(awaited'[l] \ Rows(listed[l])) \in Nat
            /\ Cardinality(awaited[l] \ Rows(listed[l])) \in Nat
            /\ Cardinality(awaited'[l] \ Rows(listed[l]))
                 <= Cardinality(awaited[l] \ Rows(listed[l]))
          BY <2>2, <2>4, FewerMissing
      <2>6. lost[l] \in Nat /\ lost'[l] = lost[l] + 1 BY <1>5, <1>6
      <2>7. QED BY <2>1, <2>5, <2>6
  <1>12. QED BY <1>7, <1>8, <1>9, <1>10, <1>11 DEF ListingInv

\* What a page of GitHub's listing holds for a lister that has read k pages.
LEMMA PageIsNext ==
    ASSUME NEW k \in Nat
    PROVE  /\ (k * PageSize) \div PageSize = k
           /\ Catalog!Page(k + 1) = NextRows(Catalog!Present, k * PageSize, PageSize)
           /\ Len(Catalog!Sorted) = Cardinality(Catalog!Present)
  <1> DEFINE S == Catalog!Present
  <1>1. PageSize \in Nat /\ PageSize > 0 BY CrewAssumption
  <1>2. (k * PageSize) \div PageSize = k BY <1>1
  <1>3. Catalog!Sorted = InOrder(S) BY DEF Catalog!Sorted, Catalog!Rank, Catalog!Cardinality, InOrder, Place, Cardinality
  <1>4. S \in SUBSET Nat /\ IsFiniteSet(S) BY PresentAreRepos, ReposCount
  <1> HIDE DEF S
  <1>5. Len(InOrder(S)) = Cardinality(S) BY <1>4, OrderIsByPlace
  <1>6. ((k + 1) - 1) * PageSize = k * PageSize /\ (k + 1) * PageSize = k * PageSize + PageSize
      BY <1>1
  <1>7. Catalog!Page(k + 1) = NextRows(S, k * PageSize, PageSize)
      <2>1. Catalog!Page(k + 1) = SubSeq(InOrder(S), ((k + 1) - 1) * PageSize + 1,
              IF (k + 1) * PageSize < Len(InOrder(S)) THEN (k + 1) * PageSize ELSE Len(InOrder(S)))
          <3>1. Catalog!Page(k + 1) = SubSeq(Catalog!Sorted, ((k + 1) - 1) * PageSize + 1,
                  IF (k + 1) * PageSize < Len(Catalog!Sorted)
                  THEN (k + 1) * PageSize ELSE Len(Catalog!Sorted))
              BY DEF Catalog!Page
          <3>2. QED BY <1>3, <3>1
      <2>2. QED BY <1>5, <1>6, <2>1 DEF NextRows
  <1>8. QED BY <1>2, <1>3, <1>5, <1>7 DEF S

\* The rows read so far and a page's.
LEMMA ConcatRows ==
    ASSUME NEW s \in Seq(Repos), NEW t \in Seq(Repos)
    PROVE  /\ s \o t \in Seq(Repos) /\ Len(s \o t) = Len(s) + Len(t)
           /\ Rows(s \o t) = Rows(s) \union Rows(t)
  <1>1. /\ s \o t \in Seq(Repos) /\ Len(s \o t) = Len(s) + Len(t)
        /\ \A i \in 1 .. Len(s) + Len(t) : (s \o t)[i] =
                IF i <= Len(s) THEN s[i] ELSE t[i - Len(s)]
        /\ Len(s) \in Nat /\ Len(t) \in Nat
      BY ConcatProperties, LenProperties
  <1> DEFINE u == s \o t
  <1> HIDE DEF u
  <1>2. /\ Len(u) = Len(s) + Len(t)
        /\ \A i \in 1 .. Len(s) : i \in 1 .. Len(u) /\ u[i] = s[i]
        /\ \A i \in 1 .. Len(t) : i + Len(s) \in 1 .. Len(u) /\ u[i + Len(s)] = t[i]
        /\ \A i \in 1 .. Len(u) : \/ i \in 1 .. Len(s) /\ u[i] = s[i]
                                  \/ i - Len(s) \in 1 .. Len(t) /\ u[i] = t[i - Len(s)]
      BY <1>1 DEF u
  <1>3. Rows(u) \subseteq Rows(s) \union Rows(t) BY <1>2 DEF Rows
  <1>4. Rows(s) \subseteq Rows(u) BY <1>2 DEF Rows
  <1>5. Rows(t) \subseteq Rows(u) BY <1>2 DEF Rows
  <1>6. Rows(u) = Rows(s) \union Rows(t) BY <1>3, <1>4, <1>5
  <1>7. QED BY <1>1, <1>6 DEF u

\* Other listers than l, whose page was read or refused.
OthersListing(l) ==
    \A m \in Listers \ {l} : /\ pcat'[m] = pcat[m] /\ answer'[m] = answer[m]
                             /\ listed'[m] = listed[m] /\ awaited'[m] = awaited[m]
                             /\ lost'[m] = lost[m]

\* What a lister's step owes for itself is enough.
LEMMA OthersKeepListing ==
    ASSUME ListingInv, NEW l \in Listers, OthersListing(l), UNCHANGED <<catalog, deleted>>,
           listed' \in [Listers -> Seq(Repos)],
           awaited' \in [Listers -> SUBSET Catalog!Present],
           lost' \in [Listers -> Nat],
           lost'[l] <= lost[l],
           pcat'[l] \in {"list", "done"},
           answer'[l] \in Catalog!TerminalKinds \union {"none", "ok"},
           pcat'[l] # "done" => answer'[l] = "none",
           pcat'[l] = "list" => \E k \in Nat : Len(listed'[l]) = k * PageSize,
           pcat'[l] = "list" =>
               Cardinality(Missing(Catalog!Present, awaited'[l], Len(listed'[l]), Rows(listed'[l])))
                   <= lost'[l],
           answer'[l] = "ok" => Cardinality(awaited'[l] \ Rows(listed'[l])) <= lost'[l]
    PROVE  ListingInv'
  <1>1. (Catalog!Present)' = Catalog!Present BY DEF Catalog!Present
  <1>2. ListingShape'
      <2>1. \A m \in Listers : lost'[m] <= Cardinality(deleted)
          <3> SUFFICES ASSUME NEW m \in Listers PROVE lost'[m] <= Cardinality(deleted)
              OBVIOUS
          <3>1. lost[m] <= Cardinality(deleted) /\ lost[m] \in Nat /\ deleted \subseteq Repos
              BY DEF ListingInv, ListingShape
          <3>2. Cardinality(deleted) \in Nat BY <3>1, ReposCount
          <3>3. lost'[m] \in Nat /\ lost'[m] <= lost[m]
              <4>1. CASE m = l BY <4>1
              <4>2. CASE m # l BY <3>1, <4>2 DEF OthersListing
              <4>3. QED BY <4>1, <4>2
          <3>4. QED BY <3>1, <3>2, <3>3
      <2>2. QED BY <1>1, <2>1 DEF ListingInv, ListingShape
  <1>3. ListerAnswers' BY DEF ListingInv, ListerAnswers, OthersListing
  <1>4. WholePages' BY DEF ListingInv, WholePages, OthersListing
  <1>5. MissingAreLost' BY <1>1 DEF ListingInv, MissingAreLost, OthersListing
  <1>6. NoneMissing' BY DEF ListingInv, NoneMissing, OthersListing
  <1>7. QED BY <1>2, <1>3, <1>4, <1>5, <1>6 DEF ListingInv

\* A page read is one page more, and closes the listing when it is the last.
LEMMA FetchKeepsListing ==
    ASSUME CatalogInv, ListingInv, NEW l \in Listers, Catalog!FetchPage(l)
    PROVE  ListingInv'
  <1> DEFINE S == Catalog!Present
             n == Len(listed[l])
             rows == Rows(listed[l])
             page == NextRows(S, n, PageSize)
             kept == awaited[l]
  <1>1. /\ pcat[l] = "list" /\ UNCHANGED <<catalog, awaited, lost, deleted>>
        /\ listed' = [listed EXCEPT ![l] = @ \o Catalog!Page((n \div PageSize) + 1)]
        /\ \/ Catalog!LastPage(listed[l], Catalog!Page((n \div PageSize) + 1)) /\ Catalog!Return(l, "ok")
           \/ /\ ~Catalog!LastPage(listed[l], Catalog!Page((n \div PageSize) + 1))
              /\ UNCHANGED <<pcat, answer>>
      BY DEF Catalog!FetchPage
  <1>2. PICK k \in Nat : n = k * PageSize BY <1>1 DEF ListingInv, WholePages
  <1>3. S \in SUBSET Nat /\ IsFiniteSet(S) /\ S \subseteq Repos /\ Cardinality(S) \in Nat
      BY PresentAreRepos, ReposCount
  <1>4. /\ listed \in [Listers -> Seq(Repos)] /\ awaited \in [Listers -> SUBSET S]
        /\ lost \in [Listers -> Nat]
      BY DEF ListingInv, ListingShape
  <1>5. n \in Nat /\ kept \in SUBSET S /\ lost[l] \in Nat BY <1>4
  <1>6. (n \div PageSize) = k /\ Catalog!Page(k + 1) = page /\ Len(Catalog!Sorted) = Cardinality(S)
      BY <1>2, PageIsNext
  <1>7. Cardinality(Missing(S, kept, n, rows)) <= lost[l]
      BY <1>1 DEF ListingInv, MissingAreLost
  <1>8. PageSize \in Nat /\ PageSize > 0 BY CrewAssumption
  <1>9. /\ DOMAIN pcat = Provisioners \union Listers /\ DOMAIN answer = Provisioners \union Listers
        /\ answer[l] = "none"
      BY <1>1 DEF CatalogInv, CatalogShape, ListingInv, ListerAnswers
  <1>10. /\ listed' = [listed EXCEPT ![l] = @ \o page]
         /\ \/ Catalog!LastPage(listed[l], page) /\ Catalog!Return(l, "ok")
            \/ ~Catalog!LastPage(listed[l], page) /\ UNCHANGED <<pcat, answer>>
      BY <1>1, <1>6
  <1> HIDE DEF S
  <1>11. page \in Seq(S) /\ Len(page) <= PageSize BY <1>3, <1>5, <1>8, PageReads
  <1>12. page \in Seq(Repos) /\ Len(page) \in Nat
      BY <1>3, <1>11, SeqMonotonic, LenProperties
  <1>13. /\ Missing(S, kept, n + Len(page), rows \union Rows(page)) \subseteq Missing(S, kept, n, rows)
         /\ Len(page) < PageSize \/ n + Len(page) >= Cardinality(S)
              => kept \ (rows \union Rows(page)) \subseteq Missing(S, kept, n, rows)
      BY <1>3, <1>5, <1>8, PageHidesNone
  <1> HIDE DEF page, n, rows, kept
  <1>14. IsFiniteSet(Missing(S, kept, n, rows))
      <2>1. Missing(S, kept, n, rows) \in SUBSET S BY <1>5 DEF Missing
      <2>2. QED BY <1>3, <2>1, FS_Subset
  <1>15. /\ listed[l] \o page \in Seq(Repos) /\ Len(listed[l] \o page) = n + Len(page)
         /\ Rows(listed[l] \o page) = rows \union Rows(page)
      BY <1>4, <1>12, ConcatRows DEF n, rows
  <1>16. /\ listed'[l] = listed[l] \o page /\ awaited'[l] = kept /\ lost'[l] = lost[l]
         /\ listed' \in [Listers -> Seq(Repos)]
      BY <1>1, <1>4, <1>10, <1>15 DEF kept
  <1>17. Cardinality(Missing(S, awaited'[l], Len(listed'[l]), Rows(listed'[l]))) <= lost'[l]
      <2> DEFINE after == Missing(S, kept, n + Len(page), rows \union Rows(page))
                 before == Missing(S, kept, n, rows)
      <2>1. Missing(S, awaited'[l], Len(listed'[l]), Rows(listed'[l])) = after
          BY <1>15, <1>16, Zenon
      <2>2. after \subseteq before /\ IsFiniteSet(before) /\ Cardinality(before) <= lost[l]
          BY <1>7, <1>13, <1>14
      <2> HIDE DEF after, before
      <2>3. /\ Cardinality(after) <= Cardinality(before)
            /\ Cardinality(after) \in Nat /\ Cardinality(before) \in Nat
          BY <2>2, FewerMissing
      <2>4. Cardinality(after) <= lost[l] BY <1>5, <2>2, <2>3
      <2>5. QED BY <1>16, <2>1, <2>4, Zenon
  <1>18. Catalog!LastPage(listed[l], page) =>
             Cardinality(awaited'[l] \ Rows(listed'[l])) <= lost'[l]
      <2> SUFFICES ASSUME Catalog!LastPage(listed[l], page)
                   PROVE  Cardinality(awaited'[l] \ Rows(listed'[l])) <= lost'[l]
          OBVIOUS
      <2> DEFINE after == kept \ (rows \union Rows(page))
                 before == Missing(S, kept, n, rows)
      <2>1. Len(page) < PageSize \/ n + Len(page) >= Cardinality(S)
          BY <1>6 DEF Catalog!LastPage, n
      <2>2. after \subseteq before /\ IsFiniteSet(before) /\ Cardinality(before) <= lost[l]
          BY <1>7, <1>13, <1>14, <2>1
      <2>3. awaited'[l] \ Rows(listed'[l]) = after BY <1>15, <1>16, Zenon
      <2> HIDE DEF after, before
      <2>4. /\ Cardinality(after) <= Cardinality(before)
            /\ Cardinality(after) \in Nat /\ Cardinality(before) \in Nat
          BY <2>2, FewerMissing
      <2>5. Cardinality(after) <= lost[l] BY <1>5, <2>2, <2>4
      <2>6. QED BY <1>16, <2>3, <2>5, Zenon
  <1>19. OthersListing(l)
      <2>1. \A m \in Listers \ {l} : pcat'[m] = pcat[m] /\ answer'[m] = answer[m]
          BY <1>9, <1>10 DEF Catalog!Return
      <2>2. \A m \in Listers \ {l} : listed'[m] = listed[m] BY <1>4, <1>10
      <2>3. QED BY <1>1, <2>1, <2>2 DEF OthersListing
  <1>a. /\ UNCHANGED <<catalog, deleted>> /\ lost'[l] <= lost[l]
        /\ awaited' \in [Listers -> SUBSET Catalog!Present] /\ lost' \in [Listers -> Nat]
      BY <1>1, <1>4, <1>5, <1>16 DEF S
  <1>b. Cardinality(Missing(Catalog!Present, awaited'[l], Len(listed'[l]), Rows(listed'[l])))
          <= lost'[l]
      BY <1>17 DEF S
  <1>20. CASE Catalog!LastPage(listed[l], page) /\ Catalog!Return(l, "ok")
      <2>1. pcat'[l] = "done" /\ answer'[l] = "ok" BY <1>9, <1>20 DEF Catalog!Return
      <2>2. Cardinality(awaited'[l] \ Rows(listed'[l])) <= lost'[l] BY <1>18, <1>20
      <2>3. QED BY <1>16, <1>19, <1>a, <2>1, <2>2, OthersKeepListing
  <1>21. CASE ~Catalog!LastPage(listed[l], page) /\ UNCHANGED <<pcat, answer>>
      <2>1. pcat'[l] = "list" /\ answer'[l] = "none" BY <1>1, <1>9, <1>21
      <2>2. Len(page) = PageSize BY <1>8, <1>11, <1>12, <1>21 DEF Catalog!LastPage
      <2>3. k + 1 \in Nat /\ Len(listed'[l]) = (k + 1) * PageSize
          BY <1>2, <1>8, <1>15, <1>16, <2>2
      <2>4. \E j \in Nat : Len(listed'[l]) = j * PageSize BY <2>3
      <2>5. QED BY <1>16, <1>19, <1>a, <1>b, <2>1, <2>4, OthersKeepListing
  <1>22. QED BY <1>10, <1>20, <1>21

\* A refused page is an error, or the listing begins again with nothing read.
LEMMA RefusalKeepsListing ==
    ASSUME CatalogInv, ListingInv, NEW l \in Listers, Catalog!Refuse(l)
    PROVE  ListingInv'
  <1>1. /\ pcat[l] # "done" /\ UNCHANGED <<catalog, posts, deleted>>
        /\ listed' = [listed EXCEPT ![l] = <<>>] /\ Catalog!Forget(l)
      BY DEF Catalog!Refuse
  <1>2. PICK kind \in Catalog!DoFails : Catalog!FailWith(l, kind) BY DEF Catalog!Refuse
  <1>3. /\ DOMAIN pcat = Provisioners \union Listers /\ DOMAIN answer = Provisioners \union Listers
        /\ answer[l] = "none" /\ l \notin Provisioners
      BY <1>1, CrewAssumption DEF CatalogInv, CatalogShape, ListingInv, ListerAnswers
  <1>4. \/ Catalog!Goto(l, "list")
        \/ kind = "Auth" /\ Catalog!Return(l, kind)
      BY <1>2, <1>3 DEF Catalog!FailWith, Catalog!Retried, Catalog!RetryableKinds,
                        Catalog!DoFails, Catalog!Begin
  <1>5. /\ listed \in [Listers -> Seq(Repos)] /\ awaited \in [Listers -> SUBSET Catalog!Present]
        /\ lost \in [Listers -> Nat]
      BY DEF ListingInv, ListingShape
  <1>6. /\ awaited' = [awaited EXCEPT ![l] = Catalog!Present] /\ lost' = [lost EXCEPT ![l] = 0]
      BY <1>1 DEF Catalog!Forget
  <1>7. /\ listed'[l] = <<>> /\ awaited'[l] = Catalog!Present /\ lost'[l] = 0
        /\ listed' \in [Listers -> Seq(Repos)]
        /\ awaited' \in [Listers -> SUBSET Catalog!Present]
        /\ lost' \in [Listers -> Nat] /\ lost'[l] <= lost[l]
      BY <1>1, <1>5, <1>6
  <1>8. OthersListing(l)
      BY <1>1, <1>3, <1>4, <1>5, <1>6 DEF OthersListing, Catalog!Goto, Catalog!Return
  <1>9. Cardinality(Missing(Catalog!Present, awaited'[l], Len(listed'[l]), Rows(listed'[l])))
          <= lost'[l]
      <2>1. Missing(Catalog!Present, Catalog!Present, 0, Rows(<<>>)) = {}
          BY PresentAreRepos, NothingMissing
      <2>2. Len(<<>>) = 0 OBVIOUS
      <2>3. Missing(Catalog!Present, awaited'[l], Len(listed'[l]), Rows(listed'[l])) = {}
          BY <1>7, <2>1, <2>2, Zenon
      <2>4. Cardinality({}) = 0 BY FS_EmptySet
      <2>5. Cardinality(Missing(Catalog!Present, awaited'[l], Len(listed'[l]), Rows(listed'[l]))) = 0
          BY <2>3, <2>4, Zenon
      <2>6. QED BY <1>7, <2>5
  <1>10. Len(listed'[l]) = 0 * PageSize /\ 0 \in Nat BY <1>7, CrewAssumption
  <1>11. /\ pcat'[l] \in {"list", "done"}
         /\ answer'[l] \in Catalog!TerminalKinds \union {"none", "ok"}
         /\ pcat'[l] # "done" => answer'[l] = "none"
         /\ answer'[l] # "ok"
      BY <1>3, <1>4 DEF Catalog!Goto, Catalog!Return, Catalog!TerminalKinds
  <1>12. QED BY <1>1, <1>7, <1>8, <1>9, <1>10, <1>11, OthersKeepListing

\* A provisioner's step leaves the listers alone, and takes nothing away.
LEMMA ProvisionersKeepListing ==
    ASSUME CatalogInv, ListingInv, NEW p \in Provisioners, Moved(p),
           UNCHANGED <<listed, awaited, lost, deleted>>,
           catalog' = catalog \/ Catalog!ServeCreate(Wanted[p]) \/ Catalog!ServeTopics(Wanted[p])
    PROVE  ListingInv'
  <1>1. Wanted[p] \in Repos /\ catalog \in [Repos -> {"absent", "bare", "topics"}]
      BY CrewAssumption DEF CatalogInv, CatalogShape
  <1>2. Catalog!Present \subseteq (Catalog!Present)' /\ (Catalog!Present)' \subseteq Repos
      BY <1>1 DEF Catalog!Present, Catalog!ServeCreate, Catalog!ServeTopics, Catalog!Creatable
  <1>3. \A l \in Listers : pcat'[l] = pcat[l] /\ answer'[l] = answer[l]
      BY CrewAssumption DEF Moved
  <1>4. QED BY <1>2, <1>3, CreationKeepsListing

LEMMA ListingStepKeeps == CatalogInv /\ ListingInv /\ Catalog!NextCatalog => ListingInv'
  <1> SUFFICES ASSUME CatalogInv, ListingInv, Catalog!NextCatalog PROVE ListingInv'
      OBVIOUS
  <1>c. Catalog!ClassifyStatus(404) = "NotFound"
      BY DEF Catalog!ClassifyStatus, Catalog!TransportFailed
  <1>d. catalog \in [Repos -> {"absent", "bare", "topics"}] /\ posts \subseteq Repos
      BY DEF CatalogInv, CatalogShape
  <1>1. ASSUME NEW p \in Provisioners, Catalog!Create(p) PROVE ListingInv'
      <2>1. pcat[p] # "done" /\ UNCHANGED <<listed, awaited, lost, deleted>>
          BY <1>1 DEF Catalog!Create
      <2>2. Moved(p)
          <3>1. CASE Catalog!Created(p)
              BY <2>1, <3>1, GotoMoves DEF Catalog!Created, Catalog!AlreadyExists
          <3>2. CASE Catalog!FailWith(p, "Transient")
              BY <2>1, <3>2, FailureMoves DEF Catalog!DoFails
          <3>3. QED BY <1>1, <3>1, <3>2 DEF Catalog!Create
      <2>3. catalog' = catalog \/ Catalog!ServeCreate(Wanted[p]) BY <1>1 DEF Catalog!Create
      <2>4. QED BY <2>1, <2>2, <2>3, ProvisionersKeepListing
  <1>2. ASSUME NEW p \in Provisioners, Catalog!FindExisting(p) PROVE ListingInv'
      <2>1. pcat[p] # "done" /\ UNCHANGED <<catalog, listed, awaited, lost, deleted>>
          BY <1>2 DEF Catalog!FindExisting
      <2>2. Moved(p)
          <3>1. CASE Catalog!Goto(p, "topics") BY <2>1, <3>1, GotoMoves
          <3>2. CASE Catalog!Return(p, "NotFound")
              BY <2>1, <3>2, ReturnMoves DEF Catalog!TerminalKinds
          <3>3. QED BY <1>2, <1>c, <3>1, <3>2 DEF Catalog!FindExisting
      <2>3. QED BY <2>1, <2>2, ProvisionersKeepListing
  <1>3. ASSUME NEW p \in Provisioners, Catalog!SetTopics(p) PROVE ListingInv'
      <2>1. /\ pcat[p] # "done" /\ UNCHANGED <<listed, awaited, lost, deleted>>
            /\ Catalog!ServeTopics(Wanted[p])
          BY <1>3 DEF Catalog!SetTopics
      <2>2. Moved(p)
          <3>1. CASE Catalog!Return(p, "ok") BY <2>1, <3>1, ReturnMoves
          <3>2. CASE Catalog!Return(p, "NotFound")
              BY <2>1, <3>2, ReturnMoves DEF Catalog!TerminalKinds
          <3>3. CASE Catalog!FailWith(p, "Transient")
              BY <2>1, <3>3, FailureMoves DEF Catalog!DoFails
          <3>4. QED BY <1>3, <1>c, <3>1, <3>2, <3>3 DEF Catalog!SetTopics
      <2>3. QED BY <2>1, <2>2, ProvisionersKeepListing
  <1>4. ASSUME NEW p \in Provisioners, Catalog!Refuse(p) PROVE ListingInv'
      <2>1. pcat[p] # "done" /\ UNCHANGED <<catalog, listed, awaited, lost, deleted>>
          BY <1>4, CrewAssumption DEF Catalog!Refuse
      <2>2. PICK kind \in Catalog!DoFails : Catalog!FailWith(p, kind)
          BY <1>4 DEF Catalog!Refuse
      <2>3. Moved(p) BY <2>1, <2>2, FailureMoves
      <2>4. QED BY <2>1, <2>3, ProvisionersKeepListing
  <1>5. ASSUME NEW l \in Listers, Catalog!FetchPage(l) PROVE ListingInv'
      BY <1>5, FetchKeepsListing
  <1>6. ASSUME NEW l \in Listers, Catalog!Refuse(l) PROVE ListingInv'
      BY <1>6, RefusalKeepsListing
  <1>7. CASE Catalog!ServeLateCreate
      <2>1. PICK r \in posts : Catalog!ServeCreate(r) BY <1>7 DEF Catalog!ServeLateCreate
      <2>2. UNCHANGED <<pcat, answer, listed, awaited, lost, deleted>>
          BY <1>7 DEF Catalog!ServeLateCreate
      <2>3. Catalog!Present \subseteq (Catalog!Present)' /\ (Catalog!Present)' \subseteq Repos
          BY <1>d, <2>1 DEF Catalog!Present, Catalog!ServeCreate, Catalog!Creatable
      <2>4. QED BY <2>2, <2>3, CreationKeepsListing
  <1>8. ASSUME NEW r \in Repos, Catalog!Delete(r) PROVE ListingInv'
      BY <1>8, DeletionKeepsListing
  <1>9. QED BY <1>1, <1>2, <1>3, <1>4, <1>5, <1>6, <1>7, <1>8 DEF Catalog!NextCatalog

\* OrgCatalog's words for what is missing.
LEMMA CompleteListings == ListingInv => Catalog!CatalogComplete
  <1> SUFFICES ASSUME ListingInv, NEW l \in Listers, answer[l] = "ok"
               PROVE  Catalog!Cardinality(awaited[l] \ {listed[l][i] : i \in 1 .. Len(listed[l])})
                        <= lost[l]
      BY DEF Catalog!CatalogComplete
  <1> DEFINE rows == {listed[l][i] : i \in 1 .. Len(listed[l])}
  <1>1. Rows(listed[l]) = rows BY DEF Rows
  <1>2. Cardinality(awaited[l] \ Rows(listed[l])) <= lost[l] BY DEF ListingInv, NoneMissing
  <1> HIDE DEF rows
  <1>3. Catalog!Cardinality(awaited[l] \ rows) = Cardinality(awaited[l] \ Rows(listed[l]))
      BY <1>1, SameCount, Zenon
  <1>4. Catalog!Cardinality(awaited[l] \ rows) <= lost[l] BY <1>2, <1>3
  <1>5. QED BY <1>4 DEF rows

LEMMA CatalogTyped == CatalogInv /\ ListingInv => Catalog!CatalogTypeOK
  <1> SUFFICES ASSUME CatalogInv, ListingInv PROVE Catalog!CatalogTypeOK
      OBVIOUS
  <1>1. /\ catalog \in [Repos -> {"absent", "bare", "topics"}] /\ posts \subseteq Repos
        /\ pcat \in [Provisioners \union Listers -> {"create", "find", "topics", "list", "done"}]
        /\ answer \in [Provisioners \union Listers -> Catalog!Kinds \union {"none", "ok"}]
        /\ \A c \in DOMAIN pcat : pcat[c] # "done" => answer[c] = "none"
      BY DEF CatalogInv, CatalogShape, CatalogSteps, CatalogAnswers, ListingInv, ListerAnswers, Catalog!Kinds
  <1>2. /\ listed \in [Listers -> Seq(Repos)] /\ lost \in [Listers -> Nat] /\ deleted \subseteq Repos
        /\ awaited \in [Listers -> SUBSET Repos]
      BY PresentAreRepos DEF ListingInv, ListingShape
  <1>3. \A l \in Listers : lost[l] \in 0 .. MaxDeletions
      <2>1. Cardinality(deleted) \in Nat BY <1>2, ReposCount
      <2>2. \A l \in Listers : lost[l] <= Cardinality(deleted) /\ Cardinality(deleted) <= MaxDeletions
          BY DEF ListingInv, ListingShape
      <2>3. QED BY <1>2, <2>1, <2>2, CrewAssumption
  <1>4. lost \in [Listers -> 0 .. MaxDeletions] BY <1>2, <1>3
  <1>5. QED BY <1>1, <1>2, <1>4 DEF Catalog!CatalogTypeOK

\* Every failure, of whatever component, is counted once.
LEMMA FaultsCount ==
    ASSUME faults \in Nat, Next PROVE faults' \in Nat
  <1>1. CASE CatalogStep
      <2>1. ASSUME NEW p \in Provisioners, Catalog!Create(p) PROVE faults' \in Nat
          BY <2>1 DEF Catalog!Create, Catalog!Faulty
      <2>2. ASSUME NEW p \in Provisioners, Catalog!FindExisting(p) \/ Catalog!SetTopics(p)
            PROVE  faults' \in Nat
          BY <2>2 DEF Catalog!FindExisting, Catalog!SetTopics, Catalog!Faulty
      <2>3. ASSUME NEW c, Catalog!Refuse(c) PROVE faults' \in Nat
          BY <2>3 DEF Catalog!Refuse, Catalog!Faulty
      <2>4. ASSUME NEW l \in Listers, Catalog!FetchPage(l) PROVE faults' \in Nat
          BY <2>4 DEF Catalog!FetchPage
      <2>5. ASSUME NEW r \in Repos, Catalog!Delete(r) PROVE faults' \in Nat
          BY <2>5 DEF Catalog!Delete
      <2>6. CASE Catalog!ServeLateCreate BY <2>6 DEF Catalog!ServeLateCreate
      <2>7. QED
          BY <1>1, <2>1, <2>2, <2>3, <2>4, <2>5, <2>6 DEF CatalogStep, Catalog!NextCatalog
  <1>2. CASE SeatStep
      BY <1>2 DEF SeatStep, Seat!NextSeat, Seat!SeatSteps, Seat!GetContents, Seat!ReadTip, Seat!PutContents,
         Seat!SeatRefused, Seat!ServeLatePut, Seat!SeatFault
  <1>3. CASE RunsStep
      BY <1>3 DEF RunsStep, Runs!NextRuns, Runs!SubSteps, Runs!Probe, Runs!Dispatch, Runs!Resolve,
         Runs!CancelSibling, Runs!Answer, Runs!SubRefused, Runs!CreateRun, Runs!ForeignRun, Runs!SubFault
  <1>4. CASE StoreStep
      BY <1>4 DEF StoreStep, Store!NextStore, Store!StoreSteps, Store!Clone, Store!Commit, Store!Push,
         Store!StoreRefused, Store!ServeLatePush, Store!StoreFault
  <1>5. CASE SessionStep
      BY <1>5 DEF SessionStep, Session!SessionNext, Session!Call, Session!ReadSubtree, Session!CommitSubtree,
         Session!Push, Session!PushLost, Session!CreateBranch, Session!MergePullRequest,
         Session!DeleteBranch, Session!CommitToMain, Session!Happens
  <1>6. QED BY <1>1, <1>2, <1>3, <1>4, <1>5 DEF Next

-----------------------------------------------------------------------------
(* The installation: every component's invariant, kept by its own steps,   *)
(* and by the others', which leave its variables alone.                    *)

IInv == /\ CatalogInv /\ ListingInv /\ SeatInv /\ RunsInv /\ StoreInv /\ SessionInv
        /\ crew \in Crews /\ faults \in Nat

(* Every behaviour keeps the invariants of the five components, whatever   *)
(* crew is at work and however its steps are mixed.                        *)
THEOREM Invariant == Spec => []IInv
  <1>1. Init => IInv
      BY CatalogInit, ListingInit, SeatInit, RunsInit, StoreInit, SessionInit DEF IInv, Init
  <1>2. IInv /\ [Next]_vars => IInv'
      <2> SUFFICES ASSUME IInv, [Next]_vars PROVE IInv'
          OBVIOUS
      <2>0. crew' \in Crews /\ faults' \in Nat
          BY FaultsCount DEF IInv, Next, CatalogStep, SeatStep, RunsStep, StoreStep, SessionStep, vars
      <2> USE <2>0, CatalogUnchanged, ListingUnchanged, SeatUnchanged, RunsUnchanged, StoreUnchanged, SessionUnchanged
      <2>1. CASE CatalogStep BY <2>1, CatalogStepKeeps, ListingStepKeeps DEF CatalogStep, IInv
      <2>2. CASE SeatStep BY <2>2, SeatStepKeeps DEF SeatStep, IInv
      <2>3. CASE RunsStep BY <2>3, RunsStepKeeps DEF RunsStep, IInv
      <2>4. CASE StoreStep
          <3>1. Len(log) \in Nat BY DEF IInv, SeatInv, Seat!SeatTypeOK
          <3>2. QED BY <2>4, <3>1, StoreStepKeeps DEF StoreStep, IInv
      <2>5. CASE SessionStep BY <2>5, SessionStepKeeps DEF SessionStep, IInv
      <2>6. CASE UNCHANGED vars BY <2>6 DEF vars, IInv
      <2>7. QED BY <2>1, <2>2, <2>3, <2>4, <2>5, <2>6 DEF Next
  <1>3. QED BY <1>1, <1>2, PTL DEF Spec

(* Type correctness of the five components, and no caller that still runs  *)
(* has an answer.                                                          *)
THEOREM TypeCorrect == Spec => []TypeOK
  <1>1. IInv => TypeOK BY CatalogTyped DEF IInv, SeatInv, RunsInv, StoreInv, SessionInv, TypeOK
  <1>2. QED BY <1>1, Invariant, PTL

(* ListInstallationRepos misses no repository that was there all along,    *)
(* but one for each deletion meanwhile: however many pages it reads, and   *)
(* whatever is created, refused or served late between two of them.        *)
THEOREM ListingsAreComplete == Spec => []CatalogComplete
  <1>1. IInv => CatalogComplete BY CompleteListings DEF IInv, CatalogComplete
  <1>2. QED BY <1>1, Invariant, PTL

(* CreateOrgRepo never leaves a repository without its topics in silence,  *)
(* however many provisioners want it, lose answers or are served late.     *)
THEOREM TopicsAreOwed == Spec => []BareIsOwed
  <1>1. IInv => BareIsOwed BY BareOwed DEF IInv, BareIsOwed
  <1>2. QED BY <1>1, Invariant, PTL

(* PutRepoContentsFile is refused on a sha only after a commit overtook    *)
(* its read, and succeeds only with its content in the file.               *)
THEOREM OnlyRacesAreRefused == Spec => []RefusalMeansRace
  <1>1. IInv => RefusalMeansRace BY DEF IInv, SeatInv, RefusalMeansRace
  <1>2. QED BY <1>1, Invariant, PTL

(* Submitters of one token are given one living run while a page holds     *)
(* them all, and storers of one content one address.                       *)
THEOREM AnswersAgree == Spec => []OneAnswer
  <1>1. StoreInv => Store!OneAddress
      BY DEF StoreInv, StoredIsThere, Store!OneAddress
  <1>2. IInv => OneAnswer BY <1>1, RunsAreOne DEF IInv, OneAnswer
  <1>3. QED BY <1>2, Invariant, PTL

(* A commit of GitStore that was reported is on the session branch, merged *)
(* or deleted with it, and no mutation is on a branch twice.               *)
THEOREM CommitsLandOnce == Spec => []CommittedOnce
  <1>1. SessionInv => Session!CommittedOnce
      BY DEF SessionInv, AckedKept, OnceIn, Session!CommittedOnce
  <1>2. IInv => CommittedOnce BY <1>1 DEF IInv, CommittedOnce
  <1>3. QED BY <1>2, Invariant, PTL
=============================================================================
