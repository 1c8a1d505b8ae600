------------------------------ MODULE Seating ------------------------------
(***************************************************************************)
(* method-assets/materialize.go: the assets of a release are seated in a   *)
(* worktree, all of them or what one step needs, step after step; a seat   *)
(* may be cut short between any two of its writes, its process gone or a   *)
(* write refused.  taskspec.go: which step a lifecycle's task asks for.    *)
(***************************************************************************)
EXTENDS StepManifest, Sequences

CONSTANTS
    Releases,   \* the assets of each release of the module, a sequence
    Tasks,      \* the tasks that are dispatched: id -> [kind, command, worker, reviews, artifact]
    Own,        \* paths a person may put a file of their own at
    Entries,    \* paths a person may add to the manifest by hand, of files outside .claude or of none
    Stubborn,   \* files whose removal may fail
    MaxSeats,   \* bound: seats begun
    MaxHands    \* bound: files added and manifests edited by hand

\* A person lists no file of their own that is in the tree: a seat would remove it.
ASSUME SeatingAssumption ==
    /\ Len(Releases) \in Nat \ {0} /\ DOMAIN Releases = 1 .. Len(Releases)
    /\ \A p \in Own \intersect Entries : p[1] = ".."

VARIABLES
    release,    \* the release that is installed
    disk,       \* path -> the release its content is of, 0 for a person's own
    dirs,       \* the directories under .claude
    manifest,   \* .claude/.method-assets-manifest.json: [is, files]
    seat,       \* the seat under way: [at, what, prev, retained, errs]
    last,       \* the last seat that came to an end: [what, of, ok]
    loose,      \* ghost: what seats that were cut short left unlisted
    seats, hands
seatVars == <<release, disk, dirs, manifest, seat, last, loose, seats, hands>>

Everything == <<"", "">>    \* in place of a command: Materialize, the full tree
Idle == [at |-> "idle", what |-> Everything, prev |-> {}, retained |-> {}, errs |-> FALSE]

\* The table compiled into a release: of the first the committed file.
Tables == [r \in DOMAIN Releases |-> IF r = 1 THEN stepManifests ELSE GeneratedTable(Releases[r])]
Table(r) == Tables[r]

\* The files of each seat that can be asked for.
FilesOf ==
    [r \in DOMAIN Releases |->
        [what \in {Everything} \union {Tasks[id].command : id \in DOMAIN Tasks} |->
            LET all == ClaudeFiles(Releases[r])
            IN  IF what = Everything THEN all ELSE ClaudeFilesFor(all, Table(r), what)]]
Files(r, what) == FilesOf[r][what]

\* taskspec.go: the step and the charter a task is worked under; none for a
\* review that no agent does, nor for a command of no manifest.
Commanded(id) == Tasks[id].command # Everything /\ Tasks[id].command \in DOMAIN Table(release)
MethodSpecFor(id) ==
    LET t == Tasks[id]
        m == Table(release)[t.command]
    IN  [command |-> t.command, workerClass |-> t.worker, charter |-> m.agent, mode |-> m.mode, model |-> m.model,
         skills |-> m.skills, verbs |-> m.verbs, builtin |-> m.builtin,
         artifact |-> IF t.artifact # "" \/ t.reviews \notin DOMAIN Tasks THEN t.artifact ELSE Tasks[t.reviews].artifact]

-----------------------------------------------------------------------------
InClaude(p) == p[1] # ".."
Parents(p) == IF ~InClaude(p) THEN {} ELSE IF p[1] = "skills" THEN {<<"skills">>, p} ELSE {<<p[1]>>}
Put(d, ps, content) == [p \in DOMAIN d \union ps |-> IF p \in ps THEN content ELSE d[p]]
Without(d, ps) == [p \in DOMAIN d \ ps |-> d[p]]

\* A mistake for the checks to find: any entry of the manifest is removed.
AnyManifestPath(p) == TRUE
isSafeManifestPath(p) == InClaude(p)

\* The emptied directories go, a skill's before the one of all skills.
pruneEmptyDirs(ds, d) ==
    LET kept == {x \in ds : Len(x) = 2 /\ x \in DOMAIN d}
        held == {p[1] : p \in {p \in DOMAIN d : p[1] # "skills" \/ p \in ds}}
    IN  kept \union {x \in ds : Len(x) = 1 /\ x[1] \in held}

\* Map order: an interruption lets any part of the files through.  Bound: what it
\* lets through is all or nothing of a directory.
Parts(ps) == {{p \in ps : p[1] \in through} : through \in SUBSET {p[1] : p \in ps}}

InitSeating ==
    /\ release = 1 /\ disk = [p \in {e \in Entries : ~InClaude(e)} |-> 0] /\ dirs = {}
    /\ manifest = [is |-> "missing", files |-> {}]
    /\ seat = Idle /\ last = [what |-> Everything, of |-> 1, ok |-> FALSE]
    /\ loose = {} /\ seats = 0 /\ hands = 0

\* The seat ends: an error names what went wrong, or there was none.
SeatEnds(ok) == seat' = Idle /\ last' = [what |-> seat.what, of |-> release, ok |-> ok]

\* loadPrevManifest: a corrupt manifest is an error, a missing one is empty.
BeginSeat(what) ==
    /\ seat.at = "idle" /\ seats < MaxSeats
    /\ seats' = seats + 1
    /\ IF manifest.is = "corrupt" \/ Files(release, what) = {}
       THEN last' = [what |-> what, of |-> release, ok |-> FALSE] /\ UNCHANGED seat
       ELSE seat' = [Idle EXCEPT !.at = "write", !.what = what, !.prev = manifest.files] /\ UNCHANGED last
    /\ UNCHANGED <<release, disk, dirs, manifest, loose, hands>>

Materialize == BeginSeat(Everything)
MaterializeStep(id) == Commanded(id) /\ BeginSeat(MethodSpecFor(id).command)

writeAssets ==
    /\ seat.at = "write"
    /\ \E ps \in Parts(Files(release, seat.what)) :
        /\ disk' = Put(disk, ps, release)
        /\ dirs' = dirs \union UNION {Parents(p) : p \in ps}
        /\ IF ps = Files(release, seat.what)
           THEN seat' = [seat EXCEPT !.at = "prune"] /\ UNCHANGED <<last, loose>>
           ELSE SeatEnds(FALSE) /\ loose' = loose \union (ps \ manifest.files)
    /\ UNCHANGED <<release, manifest, seats, hands>>

Orphans == seat.prev \ Files(release, seat.what)

\* A mistake for the checks to find: a file that would not go is forgotten.
NoneKept(stuck) == {}
Retained(stuck) == stuck

pruneOrphans ==
    /\ seat.at = "prune"
    /\ \E stuck \in SUBSET (Stubborn \intersect Orphans \intersect DOMAIN disk) :
        LET safe == {p \in Orphans : isSafeManifestPath(p)}
        IN  /\ disk' = Without(disk, safe \ stuck)
            /\ dirs' = pruneEmptyDirs(dirs, disk')
            /\ seat' = [seat EXCEPT !.at = "list", !.retained = Retained(stuck \intersect safe),
                                    !.errs = safe # Orphans \/ stuck # {}]
    /\ UNCHANGED <<release, manifest, last, loose, seats, hands>>

\* Cut short among the removals, or when they are done.
PruneCutShort ==
    /\ seat.at = "prune"
    /\ \E ps \in Parts({p \in Orphans : isSafeManifestPath(p)}) : disk' = Without(disk, ps)
    /\ SeatEnds(FALSE) /\ loose' = loose \union (Files(release, seat.what) \ manifest.files)
    /\ UNCHANGED <<release, dirs, manifest, seats, hands>>

Claimed == Files(release, seat.what) \union seat.retained
WriteManifest ==
    /\ seat.at = "list"
    /\ manifest' = [is |-> "listed", files |-> Claimed]
    /\ SeatEnds(~seat.errs) /\ loose' = loose \ Claimed
    /\ UNCHANGED <<release, disk, dirs, seats, hands>>

\* The file is truncated and not yet written.
ManifestCutShort ==
    /\ seat.at = "list"
    /\ manifest' = [is |-> "corrupt", files |-> {}]
    /\ SeatEnds(FALSE) /\ loose' = loose \union (Claimed \intersect DOMAIN disk)
    /\ UNCHANGED <<release, disk, dirs, seats, hands>>

-----------------------------------------------------------------------------
(***************************************************************************)
(* What people do meanwhile.                                               *)
(***************************************************************************)
Upgrade ==
    /\ seat.at = "idle" /\ release < Len(Releases)
    /\ release' = release + 1
    /\ UNCHANGED <<disk, dirs, manifest, seat, last, loose, seats, hands>>

PutOwn(p) ==
    /\ hands < MaxHands /\ hands' = hands + 1
    /\ p \notin DOMAIN disk
    /\ disk' = Put(disk, {p}, 0) /\ dirs' = dirs \union Parents(p)
    /\ UNCHANGED <<release, manifest, seat, last, loose, seats>>

EditManifest(p) ==
    /\ hands < MaxHands /\ hands' = hands + 1
    /\ manifest.is = "listed" /\ manifest' = [manifest EXCEPT !.files = @ \union {p}]
    /\ UNCHANGED <<release, disk, dirs, seat, last, loose, seats>>

\* What the error of a corrupt manifest tells its reader to do.
DeleteManifest ==
    /\ seat.at = "idle" /\ manifest.is = "corrupt"
    /\ manifest' = [is |-> "missing", files |-> {}]
    /\ UNCHANGED <<release, disk, dirs, seat, last, loose, seats, hands>>

NextSeating ==
    \/ Materialize \/ \E id \in DOMAIN Tasks : MaterializeStep(id)
    \/ writeAssets \/ pruneOrphans \/ PruneCutShort \/ WriteManifest \/ ManifestCutShort
    \/ Upgrade \/ DeleteManifest
    \/ \E p \in Own : PutOwn(p)
    \/ \E p \in Entries : EditManifest(p)

SeatingSpec == InitSeating /\ [][NextSeating]_seatVars

-----------------------------------------------------------------------------
TreeFiles == {p \in DOMAIN disk : InClaude(p)}
Theirs == {p \in DOMAIN disk : disk[p] = 0}
Seated == seat.at = "idle" /\ last.ok

\* materialize.go: when a seat has returned no error, the tree holds what that
\* seat asked for, in the content of its release, a person's own files, and
\* what earlier seats that were cut short left behind; nothing of a step seated
\* before, of a release before, or of a removal that failed before.
SeatIsExact ==
    Seated =>
        LET asked == Files(last.of, last.what)
        IN  TreeFiles \ (Theirs \union loose) = asked /\ \A p \in asked : disk[p] = last.of

\* materialize.go: a person's file at a path no release claims stays as it is,
\* and so does one outside .claude though the manifest was made to name it.
ForeignKept ==
    [][\A p \in Theirs :
          (\A r \in DOMAIN Releases : p \notin Files(r, Everything))
            => p \in DOMAIN disk' /\ disk'[p] = 0]_seatVars

CommittedIsGenerated == stepManifests = GeneratedTable(Releases[1])

\* gen-stepmanifest, stepmanifest.go, taskspec.go: the step a task is seated for
\* finds its command, the charter of the worker the task names and no other;
\* no skill it may read links to one that is not there; its verbs are served in
\* its mode, what its mode implies among them; and the first release's table is
\* what the generator writes from its assets.
SurfaceCloses ==
    /\ CommittedIsGenerated
    /\ \A id \in DOMAIN Tasks :
        (Seated /\ last.of = release /\ Commanded(id) /\ last.what = Tasks[id].command) =>
            LET a == Releases[release]
                spec == MethodSpecFor(id)
                skills == {s \in DOMAIN a.links : <<"skills", s>> \in TreeFiles}
            IN  /\ {<<"commands", spec.command>>, <<"agents", spec.workerClass>>} \subseteq TreeFiles
                /\ spec.charter = spec.workerClass
                /\ \A s \in spec.skills : s \in skills /\ skillLinks(a, s) \subseteq skills
                /\ \A v \in spec.verbs \intersect DOMAIN composedVerbModes : spec.mode \in composedVerbModes[v]
                /\ modeImplicitVerbs(spec.mode) \subseteq spec.verbs
                /\ spec.builtin \intersect DisallowedBuiltinTools(Table(release), spec.command) = {}
=============================================================================
