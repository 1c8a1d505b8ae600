----------------------------- MODULE WorkflowSeat -----------------------------
(***************************************************************************)
(* The workflow file of a repository (agentic.go).  PutRepoContentsFile    *)
(* reads the file, returns the branch's tip when it is as wanted, and      *)
(* writes it otherwise, naming the blob it read.  A blob's sha is a        *)
(* function of its content, and stands for it here.  The commits of the    *)
(* default branch are numbered by their place in the log.                  *)
(***************************************************************************)
EXTENDS ErrorKinds, Sequences, SequencesExt

CONSTANTS Seaters,    \* callers
          Content,    \* what each one wants in the file
          NoFile,
          MaxFaults   \* bound on calls that fail

VARIABLES log,        \* the default branch: the file's content at each commit
          puts,       \* writes whose caller gave up, not yet served
          pseat,      \* how far each attempt is
          seen,       \* the content it read, which names the blob it replaces
          since,      \* the tip when it read (history)
          seated,     \* what it returned
          seatedAt,   \* the commit it returned, 0 for none
          faults

File == IF log = <<>> THEN NoFile ELSE Last(log)
Contents == {Content[s] : s \in Seaters}
Steps == {"get", "tip", "put", "done"}

InitSeat(crew, old) ==
    /\ log \in {<<>>} \union {<<x>> : x \in old}
    /\ puts = {}
    /\ pseat = [s \in Seaters |-> IF s \in crew THEN "get" ELSE "done"]
    /\ seen = [s \in Seaters |-> NoFile]
    /\ since = [s \in Seaters |-> 0]
    /\ seated = [s \in Seaters |-> "none"]
    /\ seatedAt = [s \in Seaters |-> 0]
-----------------------------------------------------------------------------
(* Mutations of the definitions below, used only to show that the          *)
(* properties can fail.                                                    *)

\* A mistake for the checks to find: the sha of the file read is not sent.
ShaForgotten(s) == [from |-> NoFile, to |-> Content[s]]
-----------------------------------------------------------------------------
\* GitHub: PUT contents replaces the blob it names, or creates an absent file.
Matches(q) == q.from = File
ServePut(q) == log' = IF Matches(q) THEN Append(log, q.to) ELSE log
Mismatch(q) == IF q.from = NoFile THEN 422 ELSE 409

Put(s) == [from |-> seen[s], to |-> Content[s]]

Done(s, result, commit) == /\ pseat' = [pseat EXCEPT ![s] = "done"]
                           /\ seated' = [seated EXCEPT ![s] = result]
                           /\ seatedAt' = [seatedAt EXCEPT ![s] = commit]

Step(s, step) == pseat' = [pseat EXCEPT ![s] = step] /\ UNCHANGED <<seated, seatedAt>>

Failed(s, kind) == IF Retried(kind, {}, 1, 0) THEN Step(s, "get") ELSE Done(s, kind, 0)

SeatFault == faults < MaxFaults /\ faults' = faults + 1

\* getRepoContentsFile, bytesEqual.
GetContents(s) ==
    /\ pseat[s] = "get"
    /\ seen' = [seen EXCEPT ![s] = File]
    /\ since' = [since EXCEPT ![s] = Len(log)]
    /\ Step(s, IF File = Content[s] THEN "tip" ELSE "put")
    /\ UNCHANGED <<log, puts, faults>>

\* getDefaultBranchTip: the file was as wanted; the tip may have moved on.
ReadTip(s) == /\ pseat[s] = "tip"
              /\ Done(s, "ok", Len(log))
              /\ UNCHANGED <<log, puts, seen, since, faults>>

\* sendContentsFilePut.
PutContents(s) ==
    /\ pseat[s] = "put"
    /\ \/ /\ ServePut(Put(s))
          /\ IF Matches(Put(s)) THEN Done(s, "ok", Len(log) + 1)
                                ELSE Done(s, ClassifyStatus(Mismatch(Put(s))), 0)
          /\ UNCHANGED <<puts, faults>>
       \/ /\ SeatFault /\ Failed(s, "Transient")
          /\ \/ ServePut(Put(s)) /\ UNCHANGED puts
             \/ puts' = puts \union {Put(s)} /\ UNCHANGED log
    /\ UNCHANGED <<seen, since>>

SeatRefused(s) == /\ pseat[s] # "done"
                  /\ SeatFault
                  /\ \E kind \in {"Transient", "RateLimited", "Auth"} : Failed(s, kind)
                  /\ UNCHANGED <<log, puts, seen, since>>

ServeLatePut == \E q \in puts : /\ ServePut(q)
                                /\ puts' = puts \ {q}
    /\ UNCHANGED <<pseat, seen, since, seated, seatedAt, faults>>

SeatSteps(s) == GetContents(s) \/ ReadTip(s) \/ PutContents(s)

NextSeat == (\E s \in Seaters : SeatSteps(s) \/ SeatRefused(s)) \/ ServeLatePut
-----------------------------------------------------------------------------
(* Type correctness; and a caller that still runs has no answer.           *)
SeatTypeOK ==
    /\ log \in Seq(Contents)
    /\ puts \subseteq [from : Contents \union {NoFile}, to : Contents]
    /\ pseat \in [Seaters -> Steps]
    /\ seen \in [Seaters -> Contents \union {NoFile}]
    /\ since \in [Seaters -> Nat]
    /\ seated \in [Seaters -> Kinds \union {"none", "ok"}]
    /\ seatedAt \in [Seaters -> Nat]
    /\ \A s \in Seaters : pseat[s] # "done" => seated[s] = "none"

(* A call that succeeds had its content in the file at some moment of its  *)
(* last attempt, whoever wrote it; and a call that is refused its write    *)
(* was overtaken by a commit after it read: nothing but a race, or its own *)
(* earlier write served late, makes PutRepoContentsFile fail on a sha.     *)
RefusalMeansRace ==
    \A s \in Seaters :
        /\ seated[s] = "ok" =>
              \E i \in 1 .. seatedAt[s] : i >= since[s] /\ log[i] = Content[s]
        /\ seated[s] \in {"Conflict", "ContractMisuse"} => Len(log) > since[s]
=============================================================================
