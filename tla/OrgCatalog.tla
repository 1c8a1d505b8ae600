------------------------------ MODULE OrgCatalog ------------------------------
(***************************************************************************)
(* The catalogue of an organisation's repositories (github.go): a          *)
(* provisioner runs CreateOrgRepo, which creates a repository and then     *)
(* sets its topics by a second call, and a lister runs                     *)
(* ListInstallationRepos, page by page.  Both are activities: a failure of *)
(* a retryable kind runs the whole operation again.  A call may be         *)
(* refused, served without an answer, or served after its caller gave up.  *)
(***************************************************************************)
EXTENDS ErrorKinds, FiniteSets, Sequences

CONSTANTS Provisioners,
          Wanted,       \* the repository each one provisions
          Listers,
          Repos,        \* names, in the order of the listing: 1 .. n
          Refused,      \* those GitHub takes for invalid: 422 as well
          PageSize,     \* 100 in the code
          MaxFaults,    \* bound on calls that fail
          MaxDeletions  \* bound on repositories a user deletes

VARIABLES catalog,    \* what each name has: nothing, a bare repository, topics
          posts,      \* creations whose caller gave up, not yet served
          pcat,       \* how far each provisioner's and lister's attempt is
          answer,     \* what it returned
          listed,     \* the rows a lister has read, page after page
          awaited,    \* the repositories that exist since it began (history)
          lost,       \* deletions since it began (history)
          deleted,    \* the names a user has deleted, each at most once
          faults      \* failed calls so far

Present == {r \in Repos : catalog[r] # "absent"}

\* What a provisioner or a lister is at the start of an attempt.
Begin(c) == IF c \in Provisioners THEN "create" ELSE "list"

InitCatalog(crew, olds) ==
    /\ catalog \in {[r \in Repos |-> IF r \in old THEN "topics" ELSE "absent"] : old \in olds}
    /\ posts = {}
    /\ pcat = [c \in Provisioners \union Listers |-> IF c \in crew THEN Begin(c) ELSE "done"]
    /\ answer = [c \in Provisioners \union Listers |-> "none"]
    /\ listed = [l \in Listers |-> <<>>]
    /\ awaited = [l \in Listers |-> Present]
    /\ lost = [l \in Listers |-> 0]
    /\ deleted = {}

\* The lister's history: what was there all along.
Await(present, gone) ==
    /\ awaited' = [l \in Listers |-> awaited[l] \intersect present]
    /\ lost' = [l \in Listers |-> lost[l] + gone]

Forget(l) == /\ awaited' = [awaited EXCEPT ![l] = Present]
             /\ lost' = [lost EXCEPT ![l] = 0]
-----------------------------------------------------------------------------
(* Mutations of the definitions below, used only to show that the          *)
(* properties can fail.                                                    *)

\* A mistake for the checks to find: an existing repository is success.
ExistsIsDone(p) == /\ pcat' = [pcat EXCEPT ![p] = "done"]
                   /\ answer' = [answer EXCEPT ![p] = "ok"]

\* A mistake for the checks to find: the page that is full is the last one.
StopsWhenFull(rows, page) == Len(page) <= PageSize

\* A mistake for the checks to find: only the total ends the listing.
UntilTotal(rows, page) == Present # {} /\ Len(rows) + Len(page) >= Cardinality(Present)
-----------------------------------------------------------------------------
\* An attempt that failed is repeated from its start, or its error returned.
Return(c, result) == /\ pcat' = [pcat EXCEPT ![c] = "done"]
                     /\ answer' = [answer EXCEPT ![c] = result]

Goto(c, step) == /\ pcat' = [pcat EXCEPT ![c] = step]
                 /\ UNCHANGED answer

FailWith(c, kind) == IF Retried(kind, {}, 1, 0) THEN Goto(c, Begin(c)) ELSE Return(c, kind)

\* do() fails: the transport, a rate limit, a permission.
DoFails == {"Transient", "RateLimited", "Auth"}

Faulty == faults < MaxFaults /\ faults' = faults + 1

\* GitHub: POST /orgs/{org}/repos and PUT /repos/{full}/topics.
Creatable(r) == catalog[r] = "absent" /\ r \notin Refused
ServeCreate(r) == catalog' = IF Creatable(r) THEN [catalog EXCEPT ![r] = "bare"] ELSE catalog
ServeTopics(r) == catalog' = IF r \in Present THEN [catalog EXCEPT ![r] = "topics"] ELSE catalog

\* processCreateOrgRepoResponse: 422 and 409 go on to the existing repository.
AlreadyExists(p) == Goto(p, "find")
Created(p) == IF Creatable(Wanted[p]) THEN Goto(p, "topics") ELSE AlreadyExists(p)

Create(p) ==
    /\ pcat[p] = "create"
    /\ \/ ServeCreate(Wanted[p]) /\ Created(p) /\ UNCHANGED <<posts, faults>>
       \/ Faulty /\ FailWith(p, "Transient")
          /\ \/ ServeCreate(Wanted[p]) /\ UNCHANGED posts
             \/ posts' = posts \union {Wanted[p]} /\ UNCHANGED catalog
    /\ UNCHANGED <<listed, awaited, lost, deleted>>

\* getRepoFullName of a repository that exists; a refused name is NotFound.
FindExisting(p) ==
    /\ pcat[p] = "find"
    /\ IF Wanted[p] \in Present THEN Goto(p, "topics") ELSE Return(p, ClassifyStatus(404))
    /\ UNCHANGED <<catalog, posts, listed, awaited, lost, deleted, faults>>

\* setTopicsIfNeeded, SetRepoTopics: the last call of both branches.
SetTopics(p) ==
    /\ pcat[p] = "topics"
    /\ ServeTopics(Wanted[p])
    /\ \/ Return(p, IF Wanted[p] \in Present THEN "ok" ELSE ClassifyStatus(404)) /\ UNCHANGED faults
       \/ Faulty /\ FailWith(p, "Transient")
    /\ UNCHANGED <<posts, listed, awaited, lost, deleted>>

\* One page of the listing as GitHub serves it, and fetchOneRepoPage's test.
Rank(r) == Cardinality({q \in Present : q <= r})
Sorted == [i \in 1 .. Cardinality(Present) |-> CHOOSE r \in Present : Rank(r) = i]
Page(k) == SubSeq(Sorted, (k - 1) * PageSize + 1,
                  IF k * PageSize < Len(Sorted) THEN k * PageSize ELSE Len(Sorted))
LastPage(rows, page) ==
    \/ Len(page) < PageSize
    \/ Len(Sorted) > 0 /\ Len(rows) + Len(page) >= Len(Sorted)

FetchPage(l) ==
    /\ pcat[l] = "list"
    /\ LET page == Page((Len(listed[l]) \div PageSize) + 1)
       IN  /\ listed' = [listed EXCEPT ![l] = @ \o page]
           /\ IF LastPage(listed[l], page) THEN Return(l, "ok") ELSE UNCHANGED <<pcat, answer>>
    /\ UNCHANGED <<catalog, posts, awaited, lost, deleted, faults>>

\* Any call that is refused unserved: the listing forgets its pages.
Refuse(c) ==
    /\ pcat[c] # "done"
    /\ Faulty
    /\ \E kind \in DoFails : FailWith(c, kind)
    /\ IF c \in Listers THEN listed' = [listed EXCEPT ![c] = <<>>] /\ Forget(c)
                        ELSE UNCHANGED <<listed, awaited, lost>>
    /\ UNCHANGED <<catalog, posts, deleted>>

ServeLateCreate == \E r \in posts : /\ ServeCreate(r)
                                    /\ posts' = posts \ {r}
    /\ UNCHANGED <<pcat, answer, listed, awaited, lost, deleted, faults>>

\* A user deletes a repository.
Delete(r) == /\ r \in Present
             /\ r \notin deleted /\ Cardinality(deleted) < MaxDeletions
             /\ deleted' = deleted \union {r}
             /\ catalog' = [catalog EXCEPT ![r] = "absent"]
             /\ Await(Present \ {r}, 1)
             /\ UNCHANGED <<posts, pcat, answer, listed, faults>>

NextCatalog == \/ \E p \in Provisioners : Create(p) \/ FindExisting(p) \/ SetTopics(p) \/ Refuse(p)
               \/ \E l \in Listers : FetchPage(l) \/ Refuse(l)
               \/ ServeLateCreate
               \/ \E r \in Repos : Delete(r)

CallerSteps(c) == IF c \in Provisioners THEN Create(c) \/ FindExisting(c) \/ SetTopics(c)
                                        ELSE FetchPage(c)
-----------------------------------------------------------------------------
(* Type correctness; and a caller that still runs has no answer.           *)
CatalogTypeOK ==
    /\ catalog \in [Repos -> {"absent", "bare", "topics"}]
    /\ posts \subseteq Repos
    /\ \A c \in DOMAIN pcat : pcat[c] # "done" => answer[c] = "none"
    /\ pcat \in [Provisioners \union Listers -> {"create", "find", "topics", "list", "done"}]
    /\ answer \in [Provisioners \union Listers -> Kinds \union {"none", "ok"}]
    /\ listed \in [Listers -> Seq(Repos)]
    /\ awaited \in [Listers -> SUBSET Repos]
    /\ lost \in [Listers -> 0 .. MaxDeletions]
    /\ deleted \subseteq Repos

(* A repository is never left without its topics in silence: the call that *)
(* wants it is still running or has reported an error, whichever of its    *)
(* two calls failed, was repeated or came late.  (Only a creation served   *)
(* late, after a user deleted what its repetition had made, is nobody's.)  *)
BareIsOwed ==
    \A r \in Repos : catalog[r] = "bare" =>
        \/ \E p \in Provisioners : /\ Wanted[p] = r
                                   /\ pcat[p] # "done" \/ answer[p] \in TerminalKinds
        \/ r \in deleted

(* A complete listing misses no repository that was there all along, more  *)
(* than there were deletions meanwhile: every deletion may move one row    *)
(* to a page that was already read; a creation moves none out of sight.    *)
CatalogComplete ==
    \A l \in Listers : answer[l] = "ok" =>
        Cardinality(awaited[l] \ {listed[l][i] : i \in 1 .. Len(listed[l])}) <= lost[l]
=============================================================================
