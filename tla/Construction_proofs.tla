-------------------------- MODULE Construction_proofs --------------------------
(***************************************************************************)
(* Proofs about a construction: seats of step files (Seating), for any     *)
(* releases, tasks, files of a person's own and bounds; walks of           *)
(* activities (Lifecycles), for any lifecycles that someone may write, of  *)
(* any length, and any number of attempts; and sites (ConstructionSite),   *)
(* for any design, plan and number of edits by hand.                       *)
(***************************************************************************)
EXTENDS Lifecycles, Seating, ConstructionSite, FiniteSetTheorems, TLAPS

-----------------------------------------------------------------------------
(* Seats.  What is asked for of a release, and what is left of it.         *)

\* What a seat may be asked for.
Whats == {Everything} \union {Tasks[id].command : id \in DOMAIN Tasks}
\* What any release claims of the tree, and what a manifest may come to list.
Shipped == UNION {Files(r, Everything) : r \in DOMAIN Releases}
Listable == Shipped \union Entries

\* Seats are of some release, and lists name listable files.
SeatTypeOK ==
    /\ release \in DOMAIN Releases
    /\ seat \in [at : {"idle", "write", "prune", "list"}, what : Whats, prev : SUBSET Listable,
                 retained : SUBSET Listable, errs : BOOLEAN]
    /\ last \in [what : Whats, of : DOMAIN Releases, ok : BOOLEAN]
    /\ manifest \in [is : {"missing", "listed", "corrupt"}, files : SUBSET Listable]

\* What seats put into the tree and did not take out again, and what the seat
\* under way is to write.
Left == TreeFiles \ Theirs
Asked == Files(release, seat.what)

\* Nothing a seat left in the tree is forgotten: what comes next finds it in the
\* manifest, in the copy of it that it read, or among what it writes itself,
\* unless a seat that was cut short left it.
Remembered ==
    Left \subseteq loose \union CASE seat.at = "idle"  -> manifest.files
                                  [] seat.at = "write" -> seat.prev
                                  [] seat.at = "prune" -> seat.prev \union Asked
                                  [] seat.at = "list"  -> Claimed

\* The copy is of what is still listed, for people only add to it.
ListedOK ==
    /\ manifest.is # "listed" => manifest.files = {}
    /\ seat.at \in {"write", "prune"} => seat.prev \subseteq manifest.files

\* What was asked for is there from the writing on.
WrittenOK == seat.at \in {"prune", "list"} => \A p \in Asked : p \in DOMAIN disk /\ disk[p] = release

\* A file that would not go is an error of the seat.
RetainedOK == seat.at = "list" /\ ~seat.errs => seat.retained = {}

\* In the tree a person's files are where they put them.
TheirsOK == \A p \in Theirs : InClaude(p) => p \in Own

SeatInv == SeatTypeOK /\ Remembered /\ ListedOK /\ WrittenOK /\ RetainedOK /\ TheirsOK /\ SeatIsExact
-----------------------------------------------------------------------------
(* What is asked for, and what happens to files *)

\* A seat of one step asks for files of the tree, some of those of the full one.
LEMMA FilesOfStep ==
    ASSUME NEW r \in DOMAIN Releases, NEW what \in Whats
    PROVE  /\ Files(r, what) \subseteq Files(r, Everything)
           /\ Files(r, what) \subseteq Shipped
           /\ \A p \in Files(r, what) : InClaude(p)
<1>1. Files(r, Everything) = ClaudeFiles(Releases[r])
  BY DEF Files, FilesOf, Whats
<1>2. Files(r, what) \subseteq ClaudeFiles(Releases[r])
  BY DEF Files, FilesOf, Whats, ClaudeFilesFor
<1>3. \A p \in ClaudeFiles(Releases[r]) : InClaude(p)
  BY DEF ClaudeFiles, InClaude
<1> QED BY <1>1, <1>2, <1>3 DEF Shipped

\* What is being written is of the release that is installed.
LEMMA AskedIsShipped ==
    ASSUME SeatTypeOK
    PROVE  /\ Asked \subseteq Files(release, Everything)
           /\ Asked \subseteq Shipped
           /\ \A p \in Asked : InClaude(p)
           /\ release \in Nat \ {0} /\ Whats # {}
<1>1. release \in DOMAIN Releases /\ seat.what \in Whats
  BY DEF SeatTypeOK
<1>2. release \in Nat \ {0}
  BY <1>1, SeatingAssumption
<1> QED BY <1>1, <1>2, FilesOfStep DEF Asked, Whats

\* Written files are the release's, and no longer a person's.
LEMMA WrittenFiles ==
    ASSUME NEW ps, release # 0, disk' = Put(disk, ps, release)
    PROVE  /\ Left' \subseteq Left \union ps
           /\ Theirs' = Theirs \ ps
           /\ \A p \in ps : p \in DOMAIN disk' /\ disk'[p] = release
  BY DEF Put, Left, TreeFiles, Theirs

\* Removed files are gone, and the others as they were.
LEMMA RemovedFiles ==
    ASSUME NEW ps, disk' = Without(disk, ps)
    PROVE  /\ Left' = Left \ ps
           /\ Theirs' = Theirs \ ps
           /\ \A p \in DOMAIN disk \ ps : p \in DOMAIN disk' /\ disk'[p] = disk[p]
  BY DEF Without, Left, TreeFiles, Theirs

\* A file put by hand is at its place, and the others as they were.
LEMMA OwnFile ==
    ASSUME NEW p, p \notin DOMAIN disk, disk' = Put(disk, {p}, 0)
    PROVE  /\ Left' = Left
           /\ Theirs' = Theirs \union {p}
           /\ \A q \in DOMAIN disk : q \in DOMAIN disk' /\ disk'[q] = disk[q]
  BY DEF Put, Left, TreeFiles, Theirs

\* What is in the manifest and not asked for is removed, unless it will not go
\* or is outside the tree.
SafeOrphans == {p \in Orphans : isSafeManifestPath(p)}

LEMMA LeftIsInClaude == \A p \in Left : InClaude(p)
  BY DEF Left, TreeFiles
-----------------------------------------------------------------------------
(* The seat *)

\* A seat begins: it reads the manifest.
LEMMA BeginKeeps ==
    ASSUME SeatInv, NEW what \in Whats, BeginSeat(what)
    PROVE  SeatInv'
<1>1. disk' = disk /\ release' = release /\ manifest' = manifest /\ loose' = loose
  BY DEF BeginSeat
<1>2. Left' = Left /\ Theirs' = Theirs
  BY <1>1 DEF Left, TreeFiles, Theirs
<1>3. seat.at = "idle" /\ seat \in [at : {"idle", "write", "prune", "list"}, what : Whats, prev : SUBSET Listable,
                 retained : SUBSET Listable, errs : BOOLEAN]
  BY DEF BeginSeat, SeatInv, SeatTypeOK
<1>4. CASE UNCHANGED seat /\ last' = [what |-> what, of |-> release, ok |-> FALSE]
  <2>1. SeatTypeOK'
    BY <1>1, <1>4 DEF SeatInv, SeatTypeOK
  <2>2. Remembered' /\ WrittenOK' /\ RetainedOK'
    BY <1>1, <1>2, <1>3, <1>4 DEF SeatInv, Remembered, WrittenOK, RetainedOK
  <2>3. ListedOK' /\ TheirsOK'
    BY <1>1, <1>2, <1>3, <1>4 DEF SeatInv, ListedOK, TheirsOK
  <2>4. SeatIsExact'
    BY <1>4 DEF SeatIsExact, Seated
  <2> QED BY <2>1, <2>2, <2>3, <2>4 DEF SeatInv
<1>5. CASE /\ UNCHANGED last
           /\ seat' = [at |-> "write", what |-> what, prev |-> manifest.files, retained |-> {}, errs |-> FALSE]
  <2>1. SeatTypeOK'
    BY <1>1, <1>5 DEF SeatInv, SeatTypeOK
  <2>2. Remembered'
    BY <1>1, <1>2, <1>3, <1>5 DEF SeatInv, Remembered
  <2>3. WrittenOK' /\ RetainedOK' /\ SeatIsExact'
    BY <1>5 DEF WrittenOK, RetainedOK, SeatIsExact, Seated
  <2>4. ListedOK' /\ TheirsOK'
    BY <1>1, <1>2, <1>5 DEF SeatInv, ListedOK, TheirsOK
  <2> QED BY <2>1, <2>2, <2>3, <2>4 DEF SeatInv
<1>6. seat' = [Idle EXCEPT !.at = "write", !.what = what, !.prev = manifest.files] =>
        seat' = [at |-> "write", what |-> what, prev |-> manifest.files, retained |-> {}, errs |-> FALSE]
  BY DEF Idle
<1> QED BY <1>4, <1>5, <1>6 DEF BeginSeat

\* A seat that ends with an error leaves the question of exactness open.
LEMMA ErrorEnds ==
    ASSUME SeatInv, SeatEnds(FALSE), release' = release,
           manifest' \in [is : {"missing", "listed", "corrupt"}, files : SUBSET Listable],
           manifest'.is # "listed" => manifest'.files = {},
           Left' \subseteq loose' \union manifest'.files,
           Theirs' \subseteq Theirs
    PROVE  SeatInv'
<1>1. seat' = [at |-> "idle", what |-> Everything, prev |-> {}, retained |-> {}, errs |-> FALSE]
  BY DEF SeatEnds, Idle
<1>2. last' = [what |-> seat.what, of |-> release, ok |-> FALSE]
  BY DEF SeatEnds
<1>3. SeatTypeOK'
  BY <1>1, <1>2 DEF SeatInv, SeatTypeOK, Whats
<1>4. Remembered' /\ ListedOK' /\ WrittenOK' /\ RetainedOK'
  BY <1>1 DEF Remembered, ListedOK, WrittenOK, RetainedOK
<1>5. TheirsOK'
  BY DEF SeatInv, TheirsOK
<1>6. SeatIsExact'
  BY <1>2 DEF SeatIsExact, Seated
<1> QED BY <1>3, <1>4, <1>5, <1>6 DEF SeatInv

\* It writes the files asked for.
LEMMA WriteKeeps ==
    ASSUME SeatInv, writeAssets
    PROVE  SeatInv'
<1>1. PICK ps \in Parts(Asked) :
         /\ disk' = Put(disk, ps, release)
         /\ IF ps = Asked THEN seat' = [seat EXCEPT !.at = "prune"] /\ UNCHANGED <<last, loose>>
                          ELSE SeatEnds(FALSE) /\ loose' = loose \union (ps \ manifest.files)
  BY DEF writeAssets, Asked
<1>2. ps \subseteq Asked
  BY DEF Parts
<1>3. seat.at = "write" /\ release' = release /\ manifest' = manifest
  BY DEF writeAssets
<1>4. /\ Left' \subseteq Left \union ps /\ Theirs' = Theirs \ ps
      /\ \A p \in ps : p \in DOMAIN disk' /\ disk'[p] = release
  BY <1>1, WrittenFiles, AskedIsShipped DEF SeatInv
<1>5. Left \subseteq loose \union seat.prev /\ seat.prev \subseteq manifest.files
  BY <1>3 DEF SeatInv, Remembered, ListedOK
<1>6. CASE ps = Asked
  <2>1. /\ seat' \in [at : {"idle", "write", "prune", "list"}, what : Whats, prev : SUBSET Listable,
                       retained : SUBSET Listable, errs : BOOLEAN]
        /\ seat'.at = "prune" /\ seat'.prev = seat.prev /\ seat'.what = seat.what
    BY <1>1, <1>6 DEF SeatInv, SeatTypeOK
  <2>2. last' = last /\ loose' = loose
    BY <1>1, <1>6
  <2>3. Asked' = Asked
    BY <1>3, <2>1 DEF Asked
  <2>4. SeatTypeOK'
    BY <1>3, <2>1, <2>2 DEF SeatInv, SeatTypeOK
  <2>5. Remembered'
    BY <1>2, <1>4, <1>5, <2>1, <2>2, <2>3 DEF Remembered
  <2>6. ListedOK'
    BY <1>3, <1>5, <2>1 DEF SeatInv, ListedOK
  <2>7. WrittenOK'
    BY <1>3, <1>4, <1>6, <2>3 DEF WrittenOK
  <2>8. RetainedOK' /\ SeatIsExact'
    BY <2>1 DEF RetainedOK, SeatIsExact, Seated
  <2>9. TheirsOK'
    BY <1>4 DEF SeatInv, TheirsOK
  <2> QED BY <2>4, <2>5, <2>6, <2>7, <2>8, <2>9 DEF SeatInv
<1>7. CASE ps # Asked
  <2>1. SeatEnds(FALSE) /\ loose' = loose \union (ps \ manifest.files)
    BY <1>1, <1>7
  <2>2. Left' \subseteq loose' \union manifest'.files
    BY <1>3, <1>4, <1>5, <2>1
  <2> QED BY <1>3, <1>4, <2>1, <2>2, ErrorEnds DEF SeatInv, SeatTypeOK, ListedOK
<1> QED BY <1>6, <1>7

\* An entry of the manifest that is in the tree and not asked for is removed.
LEMMA LeftAfterPrune ==
    ASSUME SeatInv, seat.at = "prune", NEW ps \in SUBSET SafeOrphans, disk' = Without(disk, ps)
    PROVE  /\ Left' \subseteq loose \union Asked \union (SafeOrphans \ ps)
           /\ Theirs' \subseteq Theirs
           /\ \A p \in Asked : p \in DOMAIN disk' /\ disk'[p] = release
<1>1. /\ Left' = Left \ ps /\ Theirs' = Theirs \ ps
      /\ \A p \in DOMAIN disk \ ps : p \in DOMAIN disk' /\ disk'[p] = disk[p]
  BY RemovedFiles
<1>2. Left \subseteq loose \union seat.prev \union Asked
  BY DEF SeatInv, Remembered
<1>3. Left \subseteq loose \union Asked \union SafeOrphans
  BY <1>2, LeftIsInClaude DEF SafeOrphans, Orphans, Asked, isSafeManifestPath
<1>4. ps \intersect Asked = {}
  BY DEF SafeOrphans, Orphans, Asked
<1>5. \A p \in Asked : p \in DOMAIN disk /\ disk[p] = release
  BY DEF SeatInv, WrittenOK
<1> QED BY <1>1, <1>3, <1>4, <1>5

\* It removes what the manifest lists and nobody asks for.
LEMMA PruneKeeps ==
    ASSUME SeatInv, pruneOrphans
    PROVE  SeatInv'
<1>1. PICK stuck \in SUBSET (Stubborn \intersect Orphans \intersect DOMAIN disk) :
         /\ disk' = Without(disk, SafeOrphans \ stuck)
         /\ seat' = [seat EXCEPT !.at = "list", !.retained = Retained(stuck \intersect SafeOrphans),
                                 !.errs = SafeOrphans # Orphans \/ stuck # {}]
  BY DEF pruneOrphans, SafeOrphans
<1>2. /\ seat.at = "prune" /\ release' = release /\ manifest' = manifest
      /\ last' = last /\ loose' = loose
  BY DEF pruneOrphans
<1>3. /\ Left' \subseteq loose \union Asked \union (SafeOrphans \intersect stuck)
      /\ Theirs' \subseteq Theirs
      /\ \A p \in Asked : p \in DOMAIN disk' /\ disk'[p] = release
  <2> DEFINE ps == SafeOrphans \ stuck
  <2>1. ps \in SUBSET SafeOrphans /\ disk' = Without(disk, ps) /\ SafeOrphans \ ps = SafeOrphans \intersect stuck
    BY <1>1
  <2> HIDE DEF ps
  <2> QED BY <1>2, <2>1, LeftAfterPrune
<1>4. stuck \intersect SafeOrphans \in SUBSET Listable
  BY DEF SafeOrphans, Orphans, SeatInv, SeatTypeOK
<1>5. /\ seat' \in [at : {"idle", "write", "prune", "list"}, what : Whats, prev : SUBSET Listable,
                     retained : SUBSET Listable, errs : BOOLEAN]
      /\ seat'.at = "list" /\ seat'.what = seat.what /\ seat'.retained = stuck \intersect SafeOrphans
      /\ ~seat'.errs => stuck = {}
  BY <1>1, <1>4 DEF SeatInv, SeatTypeOK, Retained
<1>6. Asked' = Asked /\ Claimed' = Asked \union (stuck \intersect SafeOrphans)
  BY <1>2, <1>5 DEF Asked, Claimed
<1>7. SeatTypeOK'
  BY <1>2, <1>5 DEF SeatInv, SeatTypeOK
<1>8. Remembered'
  BY <1>2, <1>3, <1>5, <1>6 DEF Remembered
<1>9. ListedOK'
  BY <1>2, <1>5 DEF SeatInv, ListedOK
<1>10. WrittenOK'
  BY <1>2, <1>3, <1>6 DEF WrittenOK
<1>11. RetainedOK'
  BY <1>5 DEF RetainedOK
<1>12. TheirsOK'
  BY <1>3 DEF SeatInv, TheirsOK
<1>13. SeatIsExact'
  BY <1>5 DEF SeatIsExact, Seated
<1> QED BY <1>7, <1>8, <1>9, <1>10, <1>11, <1>12, <1>13 DEF SeatInv

\* It is cut short while it does: what is left of that is loose.
LEMMA PruneCutKeeps ==
    ASSUME SeatInv, PruneCutShort
    PROVE  SeatInv'
<1>1. PICK ps \in Parts(SafeOrphans) : disk' = Without(disk, ps)
  BY DEF PruneCutShort, SafeOrphans
<1>2. ps \in SUBSET SafeOrphans
  BY DEF Parts
<1>3. /\ seat.at = "prune" /\ release' = release /\ manifest' = manifest
      /\ SeatEnds(FALSE) /\ loose' = loose \union (Asked \ manifest.files)
  BY DEF PruneCutShort, Asked
<1>4. Left' \subseteq loose \union Asked \union (SafeOrphans \ ps) /\ Theirs' \subseteq Theirs
  BY <1>1, <1>2, <1>3, LeftAfterPrune
<1>5. SafeOrphans \subseteq manifest.files
  BY <1>3 DEF SafeOrphans, Orphans, SeatInv, ListedOK
<1>6. Left' \subseteq loose' \union manifest'.files
  BY <1>3, <1>4, <1>5
<1> QED BY <1>3, <1>4, <1>6, ErrorEnds DEF SeatInv, SeatTypeOK, ListedOK

\* It lists what is there, and ends.
LEMMA ListKeeps ==
    ASSUME SeatInv, WriteManifest
    PROVE  SeatInv'
<1>1. /\ seat.at = "list" /\ release' = release /\ disk' = disk
      /\ manifest' = [is |-> "listed", files |-> Claimed] /\ loose' = loose \ Claimed
      /\ seat' = [at |-> "idle", what |-> Everything, prev |-> {}, retained |-> {}, errs |-> FALSE]
      /\ last' = [what |-> seat.what, of |-> release, ok |-> ~seat.errs]
  BY DEF WriteManifest, SeatEnds, Idle
<1>2. Left' = Left /\ Theirs' = Theirs /\ TreeFiles' = TreeFiles
  BY <1>1 DEF Left, TreeFiles, Theirs
<1>3. Left \subseteq loose \union Claimed
  BY <1>1 DEF SeatInv, Remembered
<1>4. Claimed = Asked \union seat.retained
  BY DEF Claimed, Asked
<1>5. SeatTypeOK'
  BY <1>1, <1>4, AskedIsShipped DEF SeatInv, SeatTypeOK, Listable, Whats
<1>6. Remembered' /\ ListedOK' /\ WrittenOK' /\ RetainedOK'
  BY <1>1, <1>2, <1>3 DEF Remembered, ListedOK, WrittenOK, RetainedOK
<1>7. TheirsOK'
  BY <1>2 DEF SeatInv, TheirsOK
<1>8. SeatIsExact'
  <2> SUFFICES ASSUME ~seat.errs
               PROVE  Left \ loose' = Asked /\ \A p \in Asked : disk[p] = release
    BY <1>1, <1>2 DEF SeatIsExact, Seated, Asked, Left
  <2>1. Claimed = Asked
    BY <1>1, <1>4 DEF SeatInv, RetainedOK
  <2>2. \A p \in Asked : p \in DOMAIN disk /\ disk[p] = release
    BY <1>1 DEF SeatInv, WrittenOK
  <2>3. Asked \subseteq Left
    BY <2>2, AskedIsShipped DEF SeatInv, Left, TreeFiles, Theirs
  <2> QED BY <1>1, <1>3, <2>1, <2>2, <2>3
<1> QED BY <1>5, <1>6, <1>7, <1>8 DEF SeatInv

\* It is cut short before it does.
LEMMA ListCutKeeps ==
    ASSUME SeatInv, ManifestCutShort
    PROVE  SeatInv'
<1>1. /\ seat.at = "list" /\ release' = release /\ disk' = disk
      /\ manifest' = [is |-> "corrupt", files |-> {}] /\ SeatEnds(FALSE)
      /\ loose' = loose \union (Claimed \intersect DOMAIN disk)
  BY DEF ManifestCutShort
<1>2. Left' = Left /\ Theirs' = Theirs /\ Left \subseteq DOMAIN disk
  BY <1>1 DEF Left, TreeFiles, Theirs
<1>3. Left \subseteq loose \union Claimed
  BY <1>1 DEF SeatInv, Remembered
<1>4. Left' \subseteq loose' \union manifest'.files
  BY <1>1, <1>2, <1>3
<1> QED BY <1>1, <1>2, <1>4, ErrorEnds
-----------------------------------------------------------------------------
(* What people do meanwhile *)

\* A later release is installed between seats.
LEMMA UpgradeKeeps ==
    ASSUME SeatInv, Upgrade
    PROVE  SeatInv'
<1>1. /\ seat.at = "idle" /\ release' \in DOMAIN Releases
      /\ UNCHANGED <<disk, manifest, seat, last, loose>>
  BY SeatingAssumption DEF Upgrade, SeatInv, SeatTypeOK
<1>2. Left' = Left /\ Theirs' = Theirs /\ TreeFiles' = TreeFiles
  BY <1>1 DEF Left, TreeFiles, Theirs
<1>3. SeatTypeOK' /\ TheirsOK' /\ ListedOK'
  BY <1>1, <1>2 DEF SeatInv, SeatTypeOK, TheirsOK, ListedOK
<1>4. Remembered' /\ WrittenOK' /\ RetainedOK'
  BY <1>1, <1>2 DEF SeatInv, Remembered, WrittenOK, RetainedOK
<1>5. SeatIsExact'
  BY <1>1, <1>2 DEF SeatInv, SeatIsExact, Seated
<1> QED BY <1>3, <1>4, <1>5 DEF SeatInv

\* People work beside the seats: they put a file, or edit or delete the manifest.
LEMMA PutOwnKeeps ==
    ASSUME SeatInv, NEW p \in Own, PutOwn(p)
    PROVE  SeatInv'
<1>1. /\ p \notin DOMAIN disk /\ disk' = Put(disk, {p}, 0)
      /\ UNCHANGED <<release, manifest, seat, last, loose>>
  BY DEF PutOwn
<1>2. /\ Left' = Left /\ Theirs' = Theirs \union {p}
      /\ \A q \in DOMAIN disk : q \in DOMAIN disk' /\ disk'[q] = disk[q]
  BY <1>1, OwnFile
<1>3. Asked' = Asked /\ Claimed' = Claimed
  BY <1>1 DEF Asked, Claimed
<1>4. SeatTypeOK' /\ TheirsOK' /\ ListedOK'
  BY <1>1, <1>2 DEF SeatInv, SeatTypeOK, TheirsOK, ListedOK
<1>5. Remembered' /\ RetainedOK'
  BY <1>1, <1>2, <1>3 DEF SeatInv, Remembered, RetainedOK
<1>6. WrittenOK'
  BY <1>1, <1>2, <1>3 DEF SeatInv, WrittenOK
<1>7. SeatIsExact'
  <2> SUFFICES ASSUME Seated
               PROVE  /\ Left' \ loose = Files(last.of, last.what)
                      /\ \A q \in Files(last.of, last.what) : disk'[q] = last.of
    BY <1>1 DEF SeatIsExact, Seated, Left
  <2>1. /\ Left \ loose = Files(last.of, last.what)
        /\ \A q \in Files(last.of, last.what) : disk[q] = last.of
    BY DEF SeatInv, SeatIsExact, Left
  <2>2. Left \subseteq DOMAIN disk
    BY DEF Left, TreeFiles
  <2> QED BY <1>2, <2>1, <2>2
<1> QED BY <1>4, <1>5, <1>6, <1>7 DEF SeatInv

LEMMA EditKeeps ==
    ASSUME SeatInv, NEW p \in Entries, EditManifest(p)
    PROVE  SeatInv'
<1>1. /\ manifest.is = "listed" /\ manifest' = [manifest EXCEPT !.files = @ \union {p}]
      /\ UNCHANGED <<release, disk, seat, last, loose>>
  BY DEF EditManifest
<1>2. /\ manifest' \in [is : {"missing", "listed", "corrupt"}, files : SUBSET Listable]
      /\ manifest'.is = "listed" /\ manifest.files \subseteq manifest'.files
  BY <1>1 DEF SeatInv, SeatTypeOK, Listable
<1>3. Left' = Left /\ Theirs' = Theirs /\ TreeFiles' = TreeFiles
  BY <1>1 DEF Left, TreeFiles, Theirs
<1>4. Asked' = Asked /\ Claimed' = Claimed
  BY <1>1 DEF Asked, Claimed
<1>5. SeatTypeOK' /\ TheirsOK' /\ ListedOK'
  BY <1>1, <1>2, <1>3 DEF SeatInv, SeatTypeOK, TheirsOK, ListedOK
<1>6. Remembered'
  BY <1>1, <1>2, <1>3, <1>4 DEF SeatInv, SeatTypeOK, Remembered
<1>7. WrittenOK' /\ RetainedOK'
  BY <1>1, <1>4 DEF SeatInv, WrittenOK, RetainedOK
<1>8. SeatIsExact'
  BY <1>1, <1>3 DEF SeatInv, SeatIsExact, Seated
<1> QED BY <1>5, <1>6, <1>7, <1>8 DEF SeatInv

LEMMA DeleteKeeps ==
    ASSUME SeatInv, DeleteManifest
    PROVE  SeatInv'
<1>1. /\ seat.at = "idle" /\ manifest.files = {} /\ manifest' = [is |-> "missing", files |-> {}]
      /\ UNCHANGED <<release, disk, seat, last, loose>>
  BY DEF DeleteManifest, SeatInv, ListedOK
<1>2. Left' = Left /\ Theirs' = Theirs /\ TreeFiles' = TreeFiles
  BY <1>1 DEF Left, TreeFiles, Theirs
<1>3. SeatTypeOK' /\ TheirsOK' /\ ListedOK'
  BY <1>1, <1>2 DEF SeatInv, SeatTypeOK, TheirsOK, ListedOK
<1>4. Remembered' /\ WrittenOK' /\ RetainedOK'
  BY <1>1, <1>2 DEF SeatInv, Remembered, WrittenOK, RetainedOK
<1>5. SeatIsExact'
  BY <1>1, <1>2 DEF SeatInv, SeatIsExact, Seated
<1> QED BY <1>3, <1>4, <1>5 DEF SeatInv
-----------------------------------------------------------------------------
(* The theorems *)

LEMMA InitialInvariant == InitSeating => SeatInv
<1> SUFFICES ASSUME InitSeating PROVE SeatInv
  OBVIOUS
<1>1. /\ release = 1 /\ disk = [p \in {e \in Entries : ~InClaude(e)} |-> 0]
      /\ manifest = [is |-> "missing", files |-> {}]
      /\ seat = [at |-> "idle", what |-> Everything, prev |-> {}, retained |-> {}, errs |-> FALSE]
      /\ last = [what |-> Everything, of |-> 1, ok |-> FALSE]
  BY DEF InitSeating, Idle
<1>2. SeatTypeOK
  BY <1>1, SeatingAssumption DEF SeatTypeOK, Whats
<1>3. Left = {} /\ TheirsOK
  BY <1>1 DEF Left, TreeFiles, Theirs, TheirsOK
<1>4. Remembered /\ ListedOK /\ WrittenOK /\ RetainedOK /\ SeatIsExact
  BY <1>1, <1>3 DEF Remembered, ListedOK, WrittenOK, RetainedOK, SeatIsExact, Seated
<1> QED BY <1>2, <1>3, <1>4 DEF SeatInv

LEMMA StepKeeps == SeatInv /\ [NextSeating]_seatVars => SeatInv'
<1> SUFFICES ASSUME SeatInv, [NextSeating]_seatVars PROVE SeatInv'
  OBVIOUS
<1>1. CASE Materialize
  BY <1>1, BeginKeeps DEF Materialize, Whats
<1>2. ASSUME NEW id \in DOMAIN Tasks, MaterializeStep(id) PROVE SeatInv'
  <2>1. MethodSpecFor(id).command \in Whats
    BY DEF MethodSpecFor, Whats
  <2> QED BY <1>2, <2>1, BeginKeeps DEF MaterializeStep
<1>3. CASE writeAssets
  BY <1>3, WriteKeeps
<1>4. CASE pruneOrphans
  BY <1>4, PruneKeeps
<1>5. CASE PruneCutShort
  BY <1>5, PruneCutKeeps
<1>6. CASE WriteManifest
  BY <1>6, ListKeeps
<1>7. CASE ManifestCutShort
  BY <1>7, ListCutKeeps
<1>8. CASE Upgrade
  BY <1>8, UpgradeKeeps
<1>9. CASE DeleteManifest
  BY <1>9, DeleteKeeps
<1>10. ASSUME NEW p \in Own, PutOwn(p) PROVE SeatInv'
  BY <1>10, PutOwnKeeps
<1>11. ASSUME NEW p \in Entries, EditManifest(p) PROVE SeatInv'
  BY <1>11, EditKeeps
<1>12. CASE UNCHANGED seatVars
  <2>1. UNCHANGED <<release, disk, manifest, seat, last, loose>>
    BY <1>12 DEF seatVars
  <2>2. Left' = Left /\ Theirs' = Theirs /\ TreeFiles' = TreeFiles /\ Asked' = Asked /\ Claimed' = Claimed
    BY <2>1 DEF Left, TreeFiles, Theirs, Asked, Claimed
  <2>3. SeatTypeOK' /\ Remembered' /\ ListedOK' /\ TheirsOK'
    BY <2>1, <2>2 DEF SeatInv, SeatTypeOK, Remembered, ListedOK, TheirsOK
  <2>4. WrittenOK' /\ RetainedOK' /\ SeatIsExact'
    BY <2>1, <2>2 DEF SeatInv, WrittenOK, RetainedOK, SeatIsExact, Seated
  <2> QED BY <2>3, <2>4 DEF SeatInv
<1> QED BY <1>1, <1>2, <1>3, <1>4, <1>5, <1>6, <1>7, <1>8, <1>9, <1>10, <1>11, <1>12 DEF NextSeating

\* materialize.go, between any two of its writes: what seats left in the tree is
\* in the manifest, in what the seat under way read of it, or of a seat that was
\* cut short; and what is being seated stands until it is listed.
THEOREM SeatInvariant == SeatingSpec => []SeatInv
  BY InitialInvariant, StepKeeps, PTL DEF SeatingSpec

\* materialize.go: when a seat has returned no error, the tree holds what that
\* seat asked for, in the content of its release, a person's own files and what
\* seats that were cut short left; for any releases and any order of seats,
\* upgrades, interruptions and removals that fail.
THEOREM SeatsAreExact == SeatingSpec => []SeatIsExact
<1>1. SeatInv => SeatIsExact
  BY DEF SeatInv
<1> QED BY <1>1, SeatInvariant, PTL

\* What may be removed is what a release claims, or an entry someone added.
LEMMA OrphansAreClaimed ==
    ASSUME SeatInv, NEW p \in SafeOrphans, p \in Theirs
    PROVE  p \in Shipped
<1>1. p \in Shipped \union Entries
  BY DEF SafeOrphans, Orphans, SeatInv, SeatTypeOK, Listable
<1>2. InClaude(p) /\ p \in Own
  BY DEF SafeOrphans, isSafeManifestPath, SeatInv, TheirsOK
<1> QED BY <1>1, <1>2, SeatingAssumption DEF InClaude

\* materialize.go: a person's file at a path no release claims stays as it is,
\* and so does one outside .claude though the manifest was made to name it.
THEOREM ForeignIsKept == SeatingSpec => ForeignKept
<1>1. ASSUME SeatInv, [NextSeating]_seatVars
      PROVE  [\A p \in Theirs :
                (\A r \in DOMAIN Releases : p \notin Files(r, Everything))
                   => p \in DOMAIN disk' /\ disk'[p] = 0]_seatVars
  <2> SUFFICES ASSUME NEW p \in Theirs, p \notin Shipped
               PROVE  p \in DOMAIN disk' /\ disk'[p] = 0
    BY DEF Shipped
  <2>1. p \in DOMAIN disk /\ disk[p] = 0
    BY DEF Theirs
  <2>2. CASE UNCHANGED disk
    BY <2>1, <2>2
  <2>3. CASE writeAssets
    <3>1. PICK ps \in Parts(Asked) : disk' = Put(disk, ps, release)
      BY <2>3 DEF writeAssets, Asked
    <3>2. p \notin ps
      BY <1>1, AskedIsShipped DEF Parts, SeatInv
    <3> QED BY <2>1, <3>1, <3>2 DEF Put
  <2>4. ASSUME NEW ps \in SUBSET SafeOrphans, disk' = Without(disk, ps)
        PROVE  p \in DOMAIN disk' /\ disk'[p] = 0
    BY <1>1, <2>1, <2>4, OrphansAreClaimed DEF Without
  <2>5. CASE pruneOrphans
    BY <2>4, <2>5 DEF pruneOrphans, SafeOrphans
  <2>6. CASE PruneCutShort
    BY <2>4, <2>6 DEF PruneCutShort, SafeOrphans, Parts
  <2>7. ASSUME NEW q \in Own, PutOwn(q) PROVE p \in DOMAIN disk' /\ disk'[p] = 0
    BY <2>1, <2>7, OwnFile DEF PutOwn
  <2> QED
    BY <1>1, <2>2, <2>3, <2>5, <2>6, <2>7
       DEF NextSeating, Materialize, MaterializeStep, BeginSeat, WriteManifest, ManifestCutShort, Upgrade,
           DeleteManifest, EditManifest, seatVars
<1> QED BY <1>1, SeatInvariant, PTL DEF SeatingSpec, ForeignKept
-----------------------------------------------------------------------------
(* Task graphs *)

\* What the checks of the validator come to, and a task list that is one.
Valid(x) == ValidateLifecycle(x) /\ Len(x.tasks) \in Nat /\ DOMAIN x.tasks = 1 .. Len(x.tasks)

\* Where a task is listed.
Place(x, id) == CHOOSE i \in Taken(x) : x.tasks[i].id = id

\* The finite sets of numbers have a least one, by the library's order of sets:
\* what stands in for induction along a task list.
LEMMA Least ==
    ASSUME NEW n \in Nat, NEW T \in SUBSET (1 .. n), T # {}
    PROVE  \E i \in T : \A j \in T : i <= j
<1> DEFINE S == 1 .. n
           Segments == {1 .. i : i \in T}
<1>1. IsFiniteSet(S)
  BY FS_Interval
<1>2. IsWellFoundedOn(StrictSubsetOrdering(S), SUBSET S)
  <2>1. FiniteSubsetsOf(S) = SUBSET S
    BY <1>1, FS_FiniteSubsetsOfFinite, Zenon
  <2> QED BY <2>1, FS_StrictSubsetOrderingWellFounded, Zenon
<1>3. Segments \subseteq SUBSET S /\ Segments # {}
  <2>1. \A i \in T : 1 .. i \subseteq S
    OBVIOUS
  <2> HIDE DEF S
  <2> QED BY <2>1
<1>4. PICK s \in Segments : \A r \in Segments : ~(<<r, s>> \in StrictSubsetOrdering(S))
  <2> HIDE DEF S, Segments
  <2> QED BY <1>2, <1>3, WFMin, Zenon
<1>5. PICK i \in T : s = 1 .. i
  OBVIOUS
<1>6. ASSUME NEW j \in T, j < i PROVE FALSE
  <2>1. 1 .. j \in Segments /\ 1 .. j \subseteq S /\ s \subseteq S
    BY <1>5
  <2>2. 1 .. j \subseteq s /\ i \in s /\ i \notin 1 .. j
    BY <1>5, <1>6
  <2>3. <<1 .. j, s>> \in StrictSubsetOrdering(S)
    BY <2>1, <2>2 DEF StrictSubsetOrdering
  <2> QED BY <1>4, <2>1, <2>3
<1> QED BY <1>6

\* No two tasks of an accepted list share an id, and what a task waits for is earlier.
LEMMA TakenIsAll ==
    ASSUME NEW x, Valid(x)
    PROVE  /\ Taken(x) = DOMAIN x.tasks
           /\ \A i, j \in DOMAIN x.tasks : x.tasks[i].id = x.tasks[j].id => i = j
           /\ Ids(x) = {x.tasks[i].id : i \in DOMAIN x.tasks}
<1>1. DOMAIN x.tasks \ Taken(x) = {}
  <2>1. {x.tasks[i] : i \in DOMAIN x.tasks \ Taken(x)} = {}
    BY DEF Valid, ValidateLifecycle, BadTasks
  <2> QED BY <2>1
<1>2. Taken(x) = DOMAIN x.tasks
  BY <1>1 DEF Taken
<1>3. ASSUME NEW i \in DOMAIN x.tasks, NEW j \in DOMAIN x.tasks, x.tasks[i].id = x.tasks[j].id, j < i
      PROVE  FALSE
  <2>1. i \in Taken(x) /\ j \in 1 .. (i - 1)
    BY <1>2, <1>3 DEF Valid
  <2> QED BY <1>3, <2>1 DEF Taken
<1>4. \A i, j \in DOMAIN x.tasks : i < j \/ j < i \/ i = j
  BY DEF Valid
<1> QED BY <1>2, <1>3, <1>4 DEF Ids

\* A task of an accepted list is found by its id.
LEMMA Places ==
    ASSUME NEW x, Valid(x)
    PROVE  /\ \A id \in Ids(x) : /\ Place(x, id) \in DOMAIN x.tasks
                                 /\ Task(x, id) = x.tasks[Place(x, id)] /\ Task(x, id).id = id
                                 /\ Task(x, id) \in TasksOf(x)
           /\ \A i \in DOMAIN x.tasks : /\ x.tasks[i].id \in Ids(x) /\ Place(x, x.tasks[i].id) = i
                                        /\ Task(x, x.tasks[i].id) = x.tasks[i]
           /\ \A t \in TasksOf(x) : t.id \in Ids(x) /\ Task(x, t.id) = t
<1>1. /\ Taken(x) = DOMAIN x.tasks
      /\ \A i, j \in DOMAIN x.tasks : x.tasks[i].id = x.tasks[j].id => i = j
      /\ Ids(x) = {x.tasks[i].id : i \in DOMAIN x.tasks}
  BY TakenIsAll
<1>2. ASSUME NEW id \in Ids(x)
      PROVE  /\ Place(x, id) \in DOMAIN x.tasks /\ x.tasks[Place(x, id)].id = id
             /\ Task(x, id) = x.tasks[Place(x, id)]
  BY <1>1 DEF Place, Task
<1>3. ASSUME NEW i \in DOMAIN x.tasks
      PROVE  x.tasks[i].id \in Ids(x) /\ Place(x, x.tasks[i].id) = i
  <2>1. x.tasks[i].id \in Ids(x)
    BY <1>1
  <2> QED BY <1>1, <1>2, <2>1
<1> QED BY <1>2, <1>3 DEF TasksOf

\* What a task waits for is listed before it.
LEMMA DepsAreEarlier ==
    ASSUME NEW x, Valid(x), NEW t \in Ids(x), NEW d \in Task(x, t).deps
    PROVE  d \in Ids(x) /\ Place(x, d) < Place(x, t)
<1>1. Taken(x) = DOMAIN x.tasks
  BY TakenIsAll
<1>2. Place(x, t) \in DOMAIN x.tasks /\ Task(x, t) = x.tasks[Place(x, t)]
  BY Places
<1>3. Place(x, t) \notin ForwardDeps(x)
  BY DEF Valid, ValidateLifecycle
<1>4. PICK j \in Taken(x) : x.tasks[j].id = d /\ ~(j >= Place(x, t))
  BY <1>1, <1>2, <1>3 DEF ForwardDeps
<1>5. d \in Ids(x) /\ Place(x, d) = j
  BY <1>1, <1>4, Places
<1> QED BY <1>1, <1>2, <1>4, <1>5 DEF Valid
-----------------------------------------------------------------------------
(* What a task transitively depends on *)

\* The listed tasks that one depends on, and one step of the recursion.
Earlier(x, i) == {k \in Taken(x) : k < i /\ x.tasks[k].id \in x.tasks[i].deps}
Behind(x, f, i) == UNION {{x.tasks[j].id} \union f[j] : j \in Earlier(x, i)}

\* The recursion along the list has a solution.
LEMMA UpstreamExists ==
    ASSUME NEW x, Valid(x)
    PROVE  \E f : f = [i \in DOMAIN x.tasks |-> Behind(x, f, i)]
<1> DEFINE n == Len(x.tasks)
           Solved(k) == \E f : f = [i \in 1 .. k |-> Behind(x, f, i)]
           T == {k \in 1 .. n : ~Solved(k)}
<1>1. n \in Nat /\ DOMAIN x.tasks = 1 .. n /\ Taken(x) \subseteq 1 .. n
  BY DEF Valid, Taken
<1>2. Solved(0)
  <2>1. [i \in 1 .. 0 |-> {}] = [i \in 1 .. 0 |-> Behind(x, [j \in 1 .. 0 |-> {}], i)]
    OBVIOUS
  <2> QED BY <2>1
<1>3. ASSUME NEW k \in 1 .. n, Solved(k - 1) PROVE Solved(k)
  <2>1. PICK f : f = [i \in 1 .. k - 1 |-> Behind(x, f, i)]
    BY <1>3
  <2> DEFINE g == [i \in 1 .. k |-> IF i < k THEN f[i] ELSE Behind(x, f, k)]
  <2>2. ASSUME NEW i \in 1 .. k PROVE Behind(x, g, i) = Behind(x, f, i)
    <3>1. \A j \in Earlier(x, i) : g[j] = f[j]
      BY <1>1 DEF Earlier
    <3> HIDE DEF g
    <3> QED BY <3>1 DEF Behind
  <2>3. ASSUME NEW i \in 1 .. k PROVE g[i] = Behind(x, f, i)
    <3>1. CASE i < k
      <4>1. i \in 1 .. k - 1 /\ g[i] = f[i]
        BY <1>1, <3>1
      <4> HIDE DEF g
      <4> QED BY <2>1, <4>1
    <3>2. CASE i = k
      BY <3>2
    <3> QED BY <3>1, <3>2, <1>1
  <2>4. g = [i \in 1 .. k |-> g[i]]
    OBVIOUS
  <2> HIDE DEF g
  <2>5. g = [i \in 1 .. k |-> Behind(x, g, i)]
    BY <2>2, <2>3, <2>4
  <2> QED BY <2>5
<1>4. T = {}
  <2> SUFFICES ASSUME T # {} PROVE FALSE
    OBVIOUS
  <2>1. PICK k \in T : \A j \in T : k <= j
    <3>1. T \in SUBSET (1 .. n)
      OBVIOUS
    <3> HIDE DEF T, n
    <3> QED BY <1>1, <3>1, Least
  <2>2. k \in 1 .. n /\ ~Solved(k)
    OBVIOUS
  <2>3. k - 1 = 0 \/ (k - 1 \in 1 .. n /\ k - 1 \notin T)
    <3> HIDE DEF T, Solved, n
    <3> QED BY <1>1, <2>1, <2>2
  <2>4. Solved(k - 1)
    <3>1. k - 1 \in 1 .. n /\ k - 1 \notin T => Solved(k - 1)
      OBVIOUS
    <3> HIDE DEF Solved, T
    <3> QED BY <1>2, <2>3, <3>1
  <2> HIDE DEF Solved
  <2> QED BY <1>3, <2>2, <2>4
<1>5. Solved(n)
  <2>1. n = 0 \/ n \in 1 .. n
    BY <1>1
  <2>2. n \in 1 .. n => Solved(n)
    BY <1>4
  <2> HIDE DEF Solved, n
  <2> QED BY <1>2, <2>1, <2>2
<1> QED BY <1>1, <1>5

\* A task stands behind what it waits for, and behind all that stands behind that.
LEMMA UpstreamStep ==
    ASSUME NEW x, Valid(x)
    PROVE  /\ DOMAIN Upstream(x) = Ids(x)
           /\ \A t \in Ids(x) : \A u :
                u \in Upstream(x)[t] <=> \E d \in Task(x, t).deps : u = d \/ u \in Upstream(x)[d]
<1> DEFINE up == CHOOSE f : f = [i \in DOMAIN x.tasks |->
                UNION {{x.tasks[j].id} \union f[j] : j \in {k \in Taken(x) : k < i /\ x.tasks[k].id \in x.tasks[i].deps}}]
<1>1. up = [i \in DOMAIN x.tasks |-> Behind(x, up, i)]
  BY UpstreamExists DEF Behind, Earlier
<1>2. Upstream(x) = [id \in Ids(x) |-> up[Place(x, id)]]
  BY DEF Upstream, Place
<1> HIDE DEF up
<1>3. ASSUME NEW t \in Ids(x), NEW u
      PROVE  u \in Upstream(x)[t] <=> \E d \in Task(x, t).deps : u = d \/ u \in Upstream(x)[d]
  <2> DEFINE i == Place(x, t)
  <2>1. i \in DOMAIN x.tasks /\ Task(x, t) = x.tasks[i] /\ Taken(x) = DOMAIN x.tasks
    BY Places, TakenIsAll
  <2>2. Upstream(x)[t] = Behind(x, up, i)
    BY <1>1, <1>2, <2>1
  <2>3. ASSUME NEW j \in Earlier(x, i)
        PROVE  /\ x.tasks[j].id \in Task(x, t).deps
               /\ Upstream(x)[x.tasks[j].id] = up[j]
    BY <1>2, <2>1, Places DEF Earlier
  <2>4. ASSUME NEW d \in Task(x, t).deps
        PROVE  Place(x, d) \in Earlier(x, i) /\ x.tasks[Place(x, d)].id = d /\ Upstream(x)[d] = up[Place(x, d)]
    <3>1. d \in Ids(x) /\ Place(x, d) < i
      BY DepsAreEarlier
    <3>2. Place(x, d) \in DOMAIN x.tasks /\ x.tasks[Place(x, d)].id = d
      BY <3>1, Places
    <3> QED BY <1>2, <2>1, <3>1, <3>2 DEF Earlier
  <2>5. u \in Behind(x, up, i) <=> \E j \in Earlier(x, i) : u = x.tasks[j].id \/ u \in up[j]
    BY DEF Behind
  <2> HIDE DEF i
  <2> QED BY <2>2, <2>3, <2>4, <2>5
<1>4. DOMAIN Upstream(x) = Ids(x)
  BY <1>2
<1> QED BY <1>3, <1>4

\* The upstream of a task lies before it in the list and has its own within it.
LEMMA UpstreamTransitive ==
    ASSUME NEW x, Valid(x), NEW t \in Ids(x), NEW u \in Upstream(x)[t]
    PROVE  u \in Ids(x) /\ Place(x, u) < Place(x, t) /\ Upstream(x)[u] \subseteq Upstream(x)[t]
<1> DEFINE Within(v, s) == v \in Ids(x) /\ Place(x, v) < Place(x, s) /\ Upstream(x)[v] \subseteq Upstream(x)[s]
           Good(s) == \A v \in Upstream(x)[s] : Within(v, s)
           n == Len(x.tasks)
           T == {i \in 1 .. n : ~Good(x.tasks[i].id)}
<1>1. n \in Nat /\ DOMAIN x.tasks = 1 .. n
  BY DEF Valid
<1>2. ASSUME NEW s \in Ids(x), \A r \in Ids(x) : Place(x, r) < Place(x, s) => Good(r)
      PROVE  Good(s)
  <2> SUFFICES ASSUME NEW v \in Upstream(x)[s] PROVE Within(v, s)
    OBVIOUS
  <2>1. PICK d \in Task(x, s).deps : v = d \/ v \in Upstream(x)[d]
    BY UpstreamStep
  <2>2. d \in Ids(x) /\ Place(x, d) < Place(x, s)
    BY DepsAreEarlier
  <2>3. Upstream(x)[d] \subseteq Upstream(x)[s]
    BY UpstreamStep
  <2>4. CASE v = d
    BY <2>2, <2>3, <2>4
  <2>5. CASE v \in Upstream(x)[d]
    <3>1. Within(v, d)
      BY <1>2, <2>2, <2>5
    <3>2. Place(x, v) \in Int /\ Place(x, d) \in Int /\ Place(x, s) \in Int
      BY <1>1, <2>2, <3>1, Places
    <3> QED BY <2>2, <2>3, <3>1, <3>2
  <2> QED BY <2>1, <2>4, <2>5
<1>3. T = {}
  <2> SUFFICES ASSUME T # {} PROVE FALSE
    OBVIOUS
  <2>1. PICK i \in T : \A j \in T : i <= j
    <3>1. T \in SUBSET (1 .. n)
      OBVIOUS
    <3> HIDE DEF T, n
    <3> QED BY <1>1, <3>1, Least
  <2>2. i \in 1 .. n /\ ~Good(x.tasks[i].id)
    OBVIOUS
  <2>3. x.tasks[i].id \in Ids(x) /\ Place(x, x.tasks[i].id) = i
    BY <1>1, <2>2, Places
  <2>4. ASSUME NEW r \in Ids(x), Place(x, r) < i PROVE Good(r)
    <3>1. Place(x, r) \in 1 .. n /\ x.tasks[Place(x, r)].id = r
      BY <1>1, Places
    <3>2. Place(x, r) \notin T
      BY <1>1, <2>1, <2>4, <3>1
    <3> QED BY <3>1, <3>2
  <2> HIDE DEF Good
  <2> QED BY <1>2, <2>2, <2>3, <2>4
<1>4. Place(x, t) \in 1 .. n /\ x.tasks[Place(x, t)].id = t
  BY <1>1, Places
<1> QED BY <1>3, <1>4
-----------------------------------------------------------------------------
(* What the validator promises of an accepted list *)

\* A review judges a dispatch it depends on.
LEMMA ReviewsJudge ==
    ASSUME NEW x, Valid(x), NEW g \in Ids(x), Task(x, g).reviews # ""
    PROVE  /\ Task(x, g).reviews \in Ids(x) /\ Task(x, Task(x, g).reviews).kind = "dispatch"
           /\ Task(x, g).reviews \in Upstream(x)[g] /\ Task(x, g).kind = "review"
<1>1. Task(x, g) \in TasksOf(x) /\ Task(x, g).id = g
  BY Places
<1>2. Task(x, g) \notin BadReviews(x)
  BY DEF Valid, ValidateLifecycle
<1>3. Task(x, g).kind = "review"
  BY <1>1, <1>2 DEF BadReviews
<1> QED BY <1>1, <1>2, <1>3 DEF BadReviews

\* A dispatch re-opens a review that does not wait for it, and all that waits for
\* that review waits for the dispatch.
BackIsSafe(x, t, g) ==
    /\ Task(x, t).kind = "dispatch"
    /\ g \in Ids(x) /\ Task(x, g).kind = "review" /\ Task(x, g).reviews # ""
    /\ t \notin Upstream(x)[g]
    /\ \A o \in Ids(x) : o # t /\ g \in Upstream(x)[o] => t \in Upstream(x)[o]

LEMMA SendBackIsSafe ==
    ASSUME NEW x, Valid(x), NEW t \in Ids(x), Task(x, t).back # ""
    PROVE  BackIsSafe(x, t, Task(x, t).back)
<1>1. PICK g : g = Task(x, t).back
  OBVIOUS
<1>2. Task(x, t) \in TasksOf(x) /\ Task(x, t).id = t
  BY Places
<1>3. ~BadSendBack(x, Task(x, t))
  BY <1>2 DEF Valid, ValidateLifecycle
<1>4. \A o \in Ids(x) : Task(x, o) \in TasksOf(x) /\ Task(x, o).id = o
  BY Places
<1>5. Reviewed(x, g) /\ Task(x, t).kind = "dispatch" /\ t \notin Upstream(x)[g]
  BY <1>1, <1>2, <1>3 DEF BadSendBack
<1>6. \A o \in TasksOf(x) : ~(o.id # t /\ g \in Upstream(x)[o.id] /\ t \notin Upstream(x)[o.id])
  BY <1>1, <1>2, <1>3 DEF BadSendBack
<1>7. BackIsSafe(x, t, g)
  BY <1>4, <1>5, <1>6 DEF Reviewed, BackIsSafe
<1> QED BY <1>1, <1>7

\* A phase's gate is one of its tasks, behind all others.
LEMMA GateIsLast ==
    ASSUME NEW x, Valid(x), NEW i \in DOMAIN x.phases
    PROVE  /\ x.phases[i].gate \in Ids(x)
           /\ \A t \in TasksOf(x) : t.phase = x.phases[i].id /\ t.id # x.phases[i].gate =>
                  t.id \in Upstream(x)[x.phases[i].gate]
<1>1. x.phases[i] \notin BadGates(x)
  BY DEF Valid, ValidateLifecycle
<1> QED BY <1>1 DEF BadGates
-----------------------------------------------------------------------------
(* The walk *)

\* A count of each gate upstream, or none yet.
Bases == {<<>>} \union UNION {[G -> Nat] : G \in SUBSET (Ids(l) \union {"started"})}
Attempt == [outcome : {"", "passed", "failed", "rejected"}, basis : Bases]

\* The walk is of an accepted lifecycle; its ledger is of well formed attempts.
WalkTypeOK ==
    /\ l \in Candidates /\ ValidateLifecycle(l)
    /\ before = Upstream(l)
    /\ ledger \in [Ids(l) -> Seq(Attempt)]

\* Being done, or done.
Active(t) == Begun(t) \/ Standing(t)

\* What was once tried had all before it tried.
Reached == \A t \in Ids(l) : Attempted(t) => \A u \in before[t] : Attempted(u)

\* What is being done, or done, stands on what is done, and on the last of it.
Grounded == \A t \in Ids(l) : Active(t) => \A u \in before[t] : Standing(u)
Recent == \A t \in Ids(l) : Active(t) => \A g \in GatesBefore(t) : Last(ledger[t]).basis[g] = Len(ledger[g])

WalkInv == WalkTypeOK /\ Reached /\ (JudgedFirst => Grounded /\ Recent)

\* The lifecycle that is walked is an accepted one.
LEMMA WalkValid ==
    ASSUME WalkTypeOK
    PROVE  /\ Valid(l) /\ before = Upstream(l) /\ DOMAIN ledger = Ids(l)
           /\ \A t \in Ids(l) : ledger[t] \in Seq(Attempt)
  BY CandidatesAssumption DEF WalkTypeOK, Valid

\* What is upstream of a task: earlier tasks, and all upstream of those.
LEMMA TheirUpstream ==
    ASSUME WalkTypeOK, NEW t \in Ids(l)
    PROVE  /\ t \notin before[t]
           /\ before[t] \subseteq Ids(l)
           /\ \A u \in before[t] : before[u] \subseteq before[t]
           /\ \A u \in before[t] : \E d \in Task(l, t).deps : d \in before[t] /\ (u = d \/ u \in before[d])
           /\ GatesBefore(t) \subseteq before[t]
<1>1. Valid(l) /\ before = Upstream(l)
  BY WalkValid
<1>2. \A u \in before[t] : u \in Ids(l) /\ Place(l, u) < Place(l, t) /\ before[u] \subseteq before[t]
  BY <1>1, UpstreamTransitive
<1>3. Place(l, t) \in Nat
  BY <1>1, Places DEF Valid
<1>4. t \notin before[t]
  BY <1>2, <1>3
<1>5. \A u \in before[t] : \E d \in Task(l, t).deps : d \in before[t] /\ (u = d \/ u \in before[d])
  BY <1>1, UpstreamStep
<1> QED BY <1>2, <1>4, <1>5 DEF GatesBefore

\* A list of attempts gets longer, or its last one is replaced.
EndsWith(s, S, a) == s \in Seq(S) /\ s # <<>> /\ Last(s) = a

LEMMA Appended ==
    ASSUME NEW S, NEW s \in Seq(S), NEW a \in S
    PROVE  EndsWith(Append(s, a), S, a)
  BY DEF Last, EndsWith

LEMMA LastOfList ==
    ASSUME NEW S, NEW s \in Seq(S), s # <<>>
    PROVE  Len(s) \in 1 .. Len(s) /\ s[Len(s)] \in S /\ Last(s) = s[Len(s)]
  BY DEF Last

LEMMA LastReplaced ==
    ASSUME NEW S, NEW s \in Seq(S), s # <<>>, NEW b \in S
    PROVE  EndsWith([s EXCEPT ![Len(s)] = b], S, b)
<1>1. PICK r : r = [s EXCEPT ![Len(s)] = b]
  OBVIOUS
<1>2. Len(s) \in 1 .. Len(s) /\ Len(s) \in Nat
  BY LastOfList
<1>3. r \in Seq(S) /\ Len(r) = Len(s) /\ r[Len(s)] = b
  BY <1>1, <1>2
<1>4. EndsWith(r, S, b)
  BY <1>2, <1>3 DEF Last, EndsWith
<1> QED BY <1>1, <1>4

\* One list of a ledger has changed, and ends with a.
Changed(led, was, t, a) ==
    /\ led \in [Ids(l) -> Seq(Attempt)]
    /\ led[t] # <<>> /\ Last(led[t]) = a
    /\ \A u \in Ids(l) \ {t} : led[u] = was[u]

\* An attempt is added, or the last one of a task ends.
LEMMA Adding ==
    ASSUME NEW led \in [Ids(l) -> Seq(Attempt)], NEW t \in Ids(l), NEW a \in Attempt
    PROVE  Changed(Add(led, t, a), led, t, a)
<1>1. led[t] \in Seq(Attempt)
  OBVIOUS
<1>2. PICK s : s = Append(led[t], a) /\ EndsWith(s, Attempt, a)
  BY <1>1, Appended
<1> QED BY <1>2 DEF Add, Changed, EndsWith

LEMMA Ending ==
    ASSUME NEW led \in [Ids(l) -> Seq(Attempt)], NEW t \in Ids(l), led[t] # <<>>,
           NEW o \in {"", "passed", "failed", "rejected"}
    PROVE  \E b : b.outcome = o /\ b.basis = Last(led[t]).basis /\ Changed(Ends(led, t, o), led, t, b)
<1> DEFINE b == [led[t][Len(led[t])] EXCEPT !.outcome = o]
<1>1. led[t] \in Seq(Attempt)
  OBVIOUS
<1>2. led[t][Len(led[t])] \in Attempt /\ Last(led[t]) = led[t][Len(led[t])]
  BY <1>1, LastOfList
<1>3. b \in Attempt /\ b.outcome = o /\ b.basis = Last(led[t]).basis
  BY <1>2 DEF Attempt
<1>4. PICK s : s = [led[t] EXCEPT ![Len(led[t])] = b]
  OBVIOUS
<1>5. Ends(led, t, o) = [led EXCEPT ![t] = s]
  BY <1>4 DEF Ends
<1> HIDE DEF b
<1>6. EndsWith(s, Attempt, b)
  BY <1>1, <1>3, <1>4, LastReplaced
<1>7. Changed(Ends(led, t, o), led, t, b)
  BY <1>5, <1>6 DEF Changed, EndsWith
<1> QED BY <1>3, <1>7

\* What a step has to show: nothing that is active and undisturbed stands on
\* what changes, and what becomes active stands on what does not.
LEMMA Undisturbed ==
    ASSUME WalkInv, UNCHANGED <<l, before>>, ledger' \in [Ids(l) -> Seq(Attempt)],
           NEW C \in SUBSET Ids(l),
           \A u \in Ids(l) \ C : ledger'[u] = ledger[u],
           \A c \in C : ledger'[c] # <<>> /\ \A u \in before[c] : Attempted(u),
           JudgedFirst => \A c \in C : \A t \in Ids(l) \ C : Active(t) => c \notin before[t],
           JudgedFirst => \A c \in C : Active(c)' => \A u \in before[c] : u \notin C /\ Standing(u),
           JudgedFirst => \A c \in C : Active(c)' => \A g \in GatesBefore(c) : Last(ledger'[c]).basis[g] = Len(ledger[g])
    PROVE  WalkInv'
<1>1. Ids(l)' = Ids(l) /\ Attempt' = Attempt /\ DOMAIN ledger' = Ids(l) /\ DOMAIN ledger = Ids(l)
  BY DEF Attempt, Bases, WalkInv, WalkTypeOK
<1>2. WalkTypeOK'
  BY <1>1 DEF WalkInv, WalkTypeOK
<1>3. JudgedFirst' = JudgedFirst /\ \A t \in Ids(l) : GatesBefore(t)' = GatesBefore(t)
  BY <1>1 DEF JudgedFirst, GatesBefore
<1>4. \A t \in Ids(l) \ C : /\ Attempted(t)' = Attempted(t) /\ Active(t)' = Active(t)
                            /\ Standing(t)' = Standing(t)
  BY DEF Attempted, Active, Standing, Begun, Reopened
<1>5. \A t \in C : Attempted(t)'
  BY DEF Attempted
<1>6. \A t \in Ids(l) : before[t] \subseteq Ids(l) /\ GatesBefore(t) \subseteq before[t]
  BY TheirUpstream DEF WalkInv
<1>7. Reached'
  <2> SUFFICES ASSUME NEW t \in Ids(l), Attempted(t)', NEW u \in before[t] PROVE Attempted(u)'
    BY <1>1 DEF Reached
  <2>1. Attempted(u)
    BY <1>4 DEF WalkInv, Reached
  <2> QED BY <1>4, <1>5, <1>6, <2>1
<1>8. ASSUME JudgedFirst PROVE Grounded'
  <2> SUFFICES ASSUME NEW t \in Ids(l), Active(t)', NEW u \in before[t] PROVE Standing(u)'
    BY <1>1 DEF Grounded
  <2>1. u \notin C /\ Standing(u)
    BY <1>4, <1>8 DEF WalkInv, Grounded
  <2> QED BY <1>4, <1>6, <2>1
<1>9. ASSUME JudgedFirst PROVE Recent'
  <2> SUFFICES ASSUME NEW t \in Ids(l), Active(t)', NEW g \in GatesBefore(t)
               PROVE  Last(ledger'[t]).basis[g] = Len(ledger'[g])
    BY <1>1, <1>3 DEF Recent
  <2>1. g \in Ids(l) \ C
    BY <1>4, <1>6, <1>9
  <2>2. Last(ledger'[t]).basis[g] = Len(ledger[g])
    BY <1>4, <1>9 DEF WalkInv, Recent
  <2> QED BY <2>1, <2>2
<1> QED BY <1>2, <1>3, <1>7, <1>8, <1>9 DEF WalkInv

\* One list changes whose last attempt had not passed.
LEMMA OneChanges ==
    ASSUME WalkInv, UNCHANGED <<l, before>>, ledger' \in [Ids(l) -> Seq(Attempt)],
           NEW t \in Ids(l), ~Standing(t), ledger'[t] # <<>>,
           \A u \in Ids(l) \ {t} : ledger'[u] = ledger[u],
           \A u \in before[t] : Attempted(u),
           JudgedFirst /\ Active(t)' =>
               /\ \A u \in before[t] : Standing(u)
               /\ \A g \in GatesBefore(t) : Last(ledger'[t]).basis[g] = Len(ledger[g])
    PROVE  WalkInv'
<1>1. t \notin before[t]
  BY TheirUpstream DEF WalkInv
<1>2. JudgedFirst => \A o \in Ids(l) \ {t} : Active(o) => t \notin before[o]
  BY DEF WalkInv, Grounded
<1> DEFINE C == {t}
<1>3. /\ C \in SUBSET Ids(l) /\ \A u \in Ids(l) \ C : ledger'[u] = ledger[u]
      /\ \A c \in C : ledger'[c] # <<>> /\ \A u \in before[c] : Attempted(u)
      /\ JudgedFirst => \A c \in C : \A o \in Ids(l) \ C : Active(o) => c \notin before[o]
  BY <1>2
<1>4. JudgedFirst => \A c \in C : Active(c)' => \A u \in before[c] : u \notin C /\ Standing(u)
  BY <1>1
<1>5. JudgedFirst => \A c \in C : Active(c)' => \A g \in GatesBefore(c) : Last(ledger'[c]).basis[g] = Len(ledger[g])
  OBVIOUS
<1> HIDE DEF C
<1> QED BY <1>3, <1>4, <1>5, Undisturbed

\* What a re-opened pair's last attempts are.
Again == [outcome |-> "", basis |-> <<>>]

LEMMA ReopenedIsAgain ==
    ASSUME NEW t \in Ids(l)
    PROVE  /\ Again \in Attempt /\ Again.outcome = ""
           /\ Reopened(t) <=> Attempted(t) /\ Last(ledger[t]) = Again
  BY DEF Reopened, Again, Attempt, Bases

\* A task that begins is under way, from what its gates have.
LEMMA Beginning ==
    ASSUME WalkInv, NEW t \in Ids(l), Begin(t)
    PROVE  \E a : /\ Changed(ledger', ledger, t, a) /\ a.outcome = ""
                  /\ \A g \in GatesBefore(t) : a.basis[g] = Len(ledger[g])
<1>1. ledger \in [Ids(l) -> Seq(Attempt)]
  BY DEF WalkInv, WalkTypeOK
<1>2. BasisOf(t) \in Bases /\ \A g \in GatesBefore(t) : BasisOf(t)[g] = Len(ledger[g])
  <2>1. GatesBefore(t) \subseteq Ids(l)
    BY TheirUpstream DEF WalkInv
  <2>2. \A g \in GatesBefore(t) : Len(ledger[g]) \in Nat
    BY <1>1, <2>1
  <2>3. BasisOf(t) \in [GatesBefore(t) \union {"started"} -> Nat]
    BY <2>2 DEF BasisOf
  <2>4. GatesBefore(t) \union {"started"} \in SUBSET (Ids(l) \union {"started"})
    BY <2>1
  <2>5. BasisOf(t) \in Bases
    BY <2>3, <2>4 DEF Bases
  <2> QED BY <2>5 DEF BasisOf
<1>3. CASE Reopened(t)
  <2> DEFINE n == Len(ledger[t])
             b == [ledger[t][n] EXCEPT !.basis = BasisOf(t)]
  <2>0. PICK s : s = [ledger[t] EXCEPT ![n] = b]
    OBVIOUS
  <2>1. ledger' = [ledger EXCEPT ![t] = s]
    BY <1>3, <2>0 DEF Begin
  <2>2. ledger[t] # <<>> /\ ledger[t] \in Seq(Attempt)
    BY <1>1, <1>3 DEF Reopened, Attempted
  <2>3. ledger[t][n] \in Attempt /\ ledger[t][n] = Last(ledger[t])
    BY <2>2, LastOfList
  <2>4. b \in Attempt /\ b.basis = BasisOf(t) /\ b.outcome = ledger[t][n].outcome
    BY <1>2, <2>3 DEF Attempt
  <2>5. b.outcome = ""
    BY <1>3, <2>3, <2>4, ReopenedIsAgain
  <2> HIDE DEF b
  <2>6. EndsWith(s, Attempt, b)
    BY <2>0, <2>2, <2>4, LastReplaced
  <2>7. Changed(ledger', ledger, t, b)
    BY <1>1, <2>1, <2>6 DEF EndsWith, Changed
  <2> QED BY <1>2, <2>4, <2>5, <2>7
<1>4. CASE ~Reopened(t)
  <2>1. ledger' = Add(ledger, t, [outcome |-> "", basis |-> BasisOf(t)])
    BY <1>4 DEF Begin
  <2> DEFINE a == [outcome |-> "", basis |-> BasisOf(t)]
  <2>2. a \in Attempt /\ a.outcome = "" /\ a.basis = BasisOf(t) /\ ledger' = Add(ledger, t, a)
    BY <1>2, <2>1 DEF Attempt
  <2> HIDE DEF a
  <2>3. Changed(ledger', ledger, t, a)
    BY <1>1, <2>2, Adding
  <2> QED BY <1>2, <2>2, <2>3
<1> QED BY <1>3, <1>4

\* A task is begun, anew or as it was re-opened.
LEMMA BeginKept ==
    ASSUME WalkInv, NEW t \in Ids(l), Begin(t)
    PROVE  WalkInv'
<1>1. ledger \in [Ids(l) -> Seq(Attempt)] /\ UNCHANGED <<l, before>> /\ Workable(t)
  BY DEF WalkInv, WalkTypeOK, Begin
<1>2. PICK a : /\ Changed(ledger', ledger, t, a)
               /\ \A g \in GatesBefore(t) : a.basis[g] = Len(ledger[g])
  BY Beginning
<1>3. /\ ledger' \in [Ids(l) -> Seq(Attempt)] /\ ledger'[t] # <<>>
      /\ \A g \in GatesBefore(t) : Last(ledger'[t]).basis[g] = Len(ledger[g])
      /\ \A u \in Ids(l) \ {t} : ledger'[u] = ledger[u]
  BY <1>2 DEF Changed
<1>4. ~Standing(t)
  <2>1. Attempted(t) /\ ~Reopened(t) => Last(ledger[t]).outcome \in {"rejected", "failed"}
    BY <1>1 DEF Workable
  <2>2. Reopened(t) => Last(ledger[t]).outcome = ""
    BY ReopenedIsAgain
  <2> QED BY <2>1, <2>2 DEF Standing
<1>5. \A d \in Task(l, t).deps : Standing(d) /\ Attempted(d)
  BY <1>1 DEF Workable, Standing
<1>6. \A u \in before[t] : \E d \in Task(l, t).deps : d \in Ids(l) /\ (u = d \/ u \in before[d])
  BY TheirUpstream DEF WalkInv
<1>7. \A u \in before[t] : Attempted(u)
  BY <1>5, <1>6 DEF WalkInv, Reached
<1>8. JudgedFirst => \A u \in before[t] : Standing(u)
  BY <1>5, <1>6 DEF WalkInv, Grounded, Active
<1> QED BY <1>1, <1>3, <1>4, <1>7, <1>8, OneChanges

\* An attempt that is under way ends.
LEMMA EndKept ==
    ASSUME WalkInv, NEW t \in Ids(l), Begun(t), NEW o \in {"passed", "failed"},
           ledger' = Ends(ledger, t, o), UNCHANGED <<l, before>>
    PROVE  WalkInv'
<1>1. ledger \in [Ids(l) -> Seq(Attempt)] /\ ledger[t] # <<>>
  BY DEF WalkInv, WalkTypeOK, Begun, Attempted
<1>2. PICK b : b.basis = Last(ledger[t]).basis /\ Changed(ledger', ledger, t, b)
  BY <1>1, Ending
<1>3. ~Standing(t) /\ Active(t) /\ Attempted(t)
  BY DEF Begun, Standing, Active
<1>4. \A u \in before[t] : Attempted(u)
  BY <1>3 DEF WalkInv, Reached
<1>5. JudgedFirst => /\ \A u \in before[t] : Standing(u)
                    /\ \A g \in GatesBefore(t) : Last(ledger'[t]).basis[g] = Len(ledger[g])
  BY <1>2, <1>3 DEF WalkInv, Grounded, Recent, Changed
<1> QED BY <1>2, <1>3, <1>4, <1>5, OneChanges DEF Changed

\* Both of a pair are opened again, and nothing else.
PairAgain(led, was, g, w) ==
    /\ led \in [Ids(l) -> Seq(Attempt)]
    /\ \A c \in {g, w} : led[c] # <<>> /\ Last(led[c]) = Again
    /\ \A u \in Ids(l) \ {g, w} : led[u] = was[u]

LEMMA Reopening ==
    ASSUME NEW led \in [Ids(l) -> Seq(Attempt)], NEW g \in Ids(l), NEW w \in Ids(l),
           w = Task(l, g).reviews, w # g
    PROVE  PairAgain(Reopen(led, g), led, g, w)
<1>1. PICK mid, new : mid = Add(led, w, Again) /\ new = Add(mid, g, Again)
  OBVIOUS
<1>2. Reopen(led, g) = new
  BY <1>1 DEF Reopen, Again
<1>3. Changed(mid, led, w, Again)
  BY <1>1, ReopenedIsAgain, Adding
<1>4. Changed(new, mid, g, Again)
  <2>1. mid \in [Ids(l) -> Seq(Attempt)]
    BY <1>3 DEF Changed
  <2> QED BY <1>1, <2>1, ReopenedIsAgain, Adding
<1>5. PairAgain(new, led, g, w)
  BY <1>3, <1>4 DEF Changed, PairAgain
<1> QED BY <1>2, <1>5

\* A task that is re-opened is neither being done nor done.
LEMMA AgainIsIdle ==
    ASSUME NEW c \in Ids(l), ledger'[c] # <<>>, Last(ledger'[c]) = Again
    PROVE  ~Active(c)'
<1>1. Reopened(c)'
  BY DEF Reopened, Attempted, Again
<1>2. ~Standing(c)'
  BY ReopenedIsAgain DEF Standing
<1> QED BY <1>1, <1>2 DEF Active, Begun

\* A review rejects the work: both of the pair are to be done again.
LEMMA Rejecting ==
    ASSUME WalkInv, NEW t \in Ids(l), Reject(t)
    PROVE  LET w == Task(l, t).reviews
           IN  /\ WalkTypeOK /\ Begun(t) /\ UNCHANGED <<l, before>>
               /\ w \in Ids(l) /\ w \in before[t] /\ w # t /\ w # ""
               /\ ledger' \in [Ids(l) -> Seq(Attempt)]
               /\ \A c \in {t, w} : ledger'[c] # <<>> /\ ~Active(c)'
               /\ \A u \in Ids(l) \ {t, w} : ledger'[u] = ledger[u]
<1> DEFINE led == Ends(ledger, t, "rejected")
<1>1. PICK w : w = Task(l, t).reviews
  OBVIOUS
<1>2. /\ WalkTypeOK /\ ledger \in [Ids(l) -> Seq(Attempt)] /\ ledger[t] # <<>> /\ Begun(t)
      /\ UNCHANGED <<l, before>> /\ w # "" /\ ledger' = Reopen(led, t)
  BY <1>1 DEF WalkInv, WalkTypeOK, Reject, Begun, Attempted
<1>3. w \in Ids(l) /\ w \in before[t] /\ w # t
  <2>1. Valid(l) /\ before = Upstream(l)
    BY <1>2, WalkValid
  <2>2. w \in Ids(l) /\ w \in before[t]
    BY <1>1, <1>2, <2>1, ReviewsJudge
  <2>3. t \notin before[t]
    BY <1>2, TheirUpstream
  <2> QED BY <2>2, <2>3
<1>4. PICK b : Changed(led, ledger, t, b)
  BY <1>2, Ending
<1> HIDE DEF led
<1>5. /\ ledger' \in [Ids(l) -> Seq(Attempt)]
      /\ \A c \in {t, w} : ledger'[c] # <<>> /\ ~Active(c)'
      /\ \A u \in Ids(l) \ {t, w} : ledger'[u] = ledger[u]
  <2>1. led \in [Ids(l) -> Seq(Attempt)] /\ \A u \in Ids(l) \ {t} : led[u] = ledger[u]
    BY <1>4 DEF Changed
  <2>2. PairAgain(ledger', led, t, w)
    BY <1>1, <1>2, <1>3, <2>1, Reopening
  <2>3. \A c \in {t, w} : ledger'[c] # <<>> /\ ~Active(c)'
    BY <1>3, <2>2, AgainIsIdle DEF PairAgain
  <2> QED BY <2>1, <2>2, <2>3 DEF PairAgain
<1> QED BY <1>1, <1>2, <1>3, <1>5

LEMMA RejectKept ==
    ASSUME WalkInv, NEW t \in Ids(l), Reject(t)
    PROVE  WalkInv'
<1>1. PICK w : w = Task(l, t).reviews
  OBVIOUS
<1>2. WalkTypeOK /\ Begun(t) /\ Attempted(t) /\ UNCHANGED <<l, before>> /\ w # ""
  BY <1>1, Rejecting DEF Begun
<1>3. w \in Ids(l) /\ w \in before[t] /\ w # t
  BY <1>1, Rejecting
<1>5. /\ ledger' \in [Ids(l) -> Seq(Attempt)]
      /\ \A c \in {t, w} : ledger'[c] # <<>> /\ ~Active(c)'
      /\ \A u \in Ids(l) \ {t, w} : ledger'[u] = ledger[u]
  BY <1>1, Rejecting
<1>6. \A u \in before[t] \union before[w] : Attempted(u)
  BY <1>2, <1>3, TheirUpstream DEF WalkInv, Reached, Attempted
<1>7. ASSUME JudgedFirst, NEW o \in Ids(l) \ {t, w}, Active(o) PROVE t \notin before[o] /\ w \notin before[o]
  <2>1. t \notin before[o]
    BY <1>2, <1>7 DEF WalkInv, Grounded, Begun, Standing
  <2>2. w \in before[o] => t \in before[o]
    <3>1. Task(l, t) \in TasksOf(l) /\ Task(l, t).id = t /\ DOMAIN ledger = Ids(l)
      BY <1>2, WalkValid, Places
    <3> QED BY <1>1, <1>2, <1>7, <3>1 DEF JudgedFirst
  <2> QED BY <2>1, <2>2
<1> DEFINE C == {t, w}
<1>8. /\ C \in SUBSET Ids(l) /\ \A u \in Ids(l) \ C : ledger'[u] = ledger[u]
      /\ \A c \in C : ledger'[c] # <<>> /\ \A u \in before[c] : Attempted(u)
      /\ \A c \in C : ~Active(c)'
      /\ JudgedFirst => \A c \in C : \A o \in Ids(l) \ C : Active(o) => c \notin before[o]
  BY <1>3, <1>5, <1>6, <1>7
<1> HIDE DEF C
<1> QED BY <1>2, <1>5, <1>8, Undisturbed

\* A dispatch sends back to a gate: the pair of the gate, and it, are.
LEMMA SendingBack ==
    ASSUME WalkInv, NEW t \in Ids(l), SendBack(t)
    PROVE  LET g == Task(l, t).back
               w == Task(l, g).reviews
           IN  /\ WalkTypeOK /\ Begun(t) /\ UNCHANGED <<l, before>> /\ g # "" /\ Standing(g)
               /\ g \in Ids(l) /\ Task(l, g).kind = "review" /\ t \notin before[g]
               /\ \A o \in Ids(l) : o # t /\ g \in before[o] => t \in before[o]
               /\ w \in Ids(l) /\ w \in before[g] /\ w # g /\ w # t /\ g # t /\ w # ""
               /\ ledger' \in [Ids(l) -> Seq(Attempt)]
               /\ \A c \in {t, g, w} : ledger'[c] # <<>> /\ ~Active(c)'
               /\ \A u \in Ids(l) \ {t, g, w} : ledger'[u] = ledger[u]
<1> DEFINE led == Ends(ledger, t, "rejected")
<1>1. PICK g, w : g = Task(l, t).back /\ w = Task(l, g).reviews
  OBVIOUS
<1>2. /\ WalkTypeOK /\ ledger \in [Ids(l) -> Seq(Attempt)] /\ ledger[t] # <<>> /\ Begun(t)
      /\ UNCHANGED <<l, before>> /\ g # "" /\ Standing(g) /\ ledger' = Reopen(led, g)
  BY <1>1 DEF WalkInv, WalkTypeOK, SendBack, Begun, Attempted
<1>3. /\ Valid(l) /\ before = Upstream(l) /\ DOMAIN ledger = Ids(l)
  BY <1>2, WalkValid
<1>4. /\ Task(l, t).kind = "dispatch"
      /\ g \in Ids(l) /\ Task(l, g).kind = "review" /\ w # "" /\ t \notin before[g]
      /\ \A o \in Ids(l) : o # t /\ g \in before[o] => t \in before[o]
  <2>1. BackIsSafe(l, t, g)
    BY <1>1, <1>2, <1>3, SendBackIsSafe
  <2> QED BY <1>1, <1>3, <2>1 DEF BackIsSafe
<1>5. w \in Ids(l) /\ w \in before[g] /\ w # g /\ w # t /\ g # t
  <2>1. w \in Ids(l) /\ w \in before[g]
    BY <1>1, <1>3, <1>4, ReviewsJudge
  <2>2. g \notin before[g]
    BY <1>2, <1>4, TheirUpstream
  <2> QED BY <1>4, <2>1, <2>2
<1>6. /\ led \in [Ids(l) -> Seq(Attempt)] /\ led[t] # <<>> /\ Last(led[t]).outcome = "rejected"
      /\ \A u \in Ids(l) \ {t} : led[u] = ledger[u]
  <2>1. PICK b : b.outcome = "rejected" /\ Changed(led, ledger, t, b)
    BY <1>2, Ending
  <2> QED BY <2>1 DEF Changed
<1> HIDE DEF led
<1>7. /\ ledger' \in [Ids(l) -> Seq(Attempt)]
      /\ \A c \in {g, w} : ledger'[c] # <<>> /\ ~Active(c)'
      /\ \A u \in Ids(l) \ {g, w} : ledger'[u] = led[u]
  <2>1. PairAgain(ledger', led, g, w)
    BY <1>1, <1>2, <1>4, <1>5, <1>6, Reopening
  <2>2. \A c \in {g, w} : ledger'[c] # <<>> /\ ~Active(c)'
    BY <1>4, <1>5, <2>1, AgainIsIdle DEF PairAgain
  <2> QED BY <2>1, <2>2 DEF PairAgain
<1>8. ledger'[t] # <<>> /\ ~Active(t)'
  BY <1>4, <1>5, <1>6, <1>7 DEF Active, Begun, Standing
<1>9. /\ \A c \in {t, g, w} : ledger'[c] # <<>> /\ ~Active(c)'
      /\ \A u \in Ids(l) \ {t, g, w} : ledger'[u] = ledger[u]
  BY <1>6, <1>7, <1>8
<1> QED BY <1>1, <1>2, <1>4, <1>5, <1>7, <1>9

LEMMA SendBackKept ==
    ASSUME WalkInv, NEW t \in Ids(l), SendBack(t)
    PROVE  WalkInv'
<1>1. PICK g, w : g = Task(l, t).back /\ w = Task(l, g).reviews
  OBVIOUS
<1>2. WalkTypeOK /\ Begun(t) /\ Attempted(t) /\ UNCHANGED <<l, before>> /\ g # "" /\ Standing(g)
  BY <1>1, SendingBack DEF Begun
<1>3. /\ Valid(l) /\ before = Upstream(l) /\ DOMAIN ledger = Ids(l)
  BY <1>2, WalkValid
<1>4. /\ g \in Ids(l) /\ t \notin before[g] /\ w # ""
      /\ \A o \in Ids(l) : o # t /\ g \in before[o] => t \in before[o]
  BY <1>1, SendingBack
<1>5. w \in Ids(l) /\ w \in before[g] /\ w # g /\ w # t /\ g # t
  BY <1>1, SendingBack
<1>7. /\ ledger' \in [Ids(l) -> Seq(Attempt)]
      /\ \A c \in {t, g, w} : ledger'[c] # <<>> /\ ~Active(c)'
      /\ \A u \in Ids(l) \ {t, g, w} : ledger'[u] = ledger[u]
  BY <1>1, SendingBack
<1>9. \A u \in before[t] \union before[g] \union before[w] : Attempted(u)
  <2>1. Attempted(t) /\ Attempted(g)
    BY <1>2 DEF Attempted, Standing
  <2>2. before[w] \subseteq before[g]
    BY <1>2, <1>4, <1>5, TheirUpstream
  <2> QED BY <1>4, <2>1, <2>2 DEF WalkInv, Reached
<1>10. ASSUME JudgedFirst, NEW o \in Ids(l) \ {t, g, w}, Active(o)
       PROVE  t \notin before[o] /\ g \notin before[o] /\ w \notin before[o]
  <2>1. t \notin before[o]
    BY <1>2, <1>10 DEF WalkInv, Grounded, Begun, Standing
  <2>2. g \notin before[o]
    BY <1>4, <2>1
  <2>3. w \in before[o] => g \in before[o]
    <3>1. Task(l, g) \in TasksOf(l) /\ Task(l, g).id = g
      BY <1>3, <1>4, Places
    <3> QED BY <1>1, <1>3, <1>4, <1>10, <3>1 DEF JudgedFirst
  <2> QED BY <2>1, <2>2, <2>3
<1> DEFINE C == {t, g, w}
<1>11. /\ C \in SUBSET Ids(l) /\ \A u \in Ids(l) \ C : ledger'[u] = ledger[u]
       /\ \A c \in C : ledger'[c] # <<>> /\ \A u \in before[c] : Attempted(u)
       /\ \A c \in C : ~Active(c)'
       /\ JudgedFirst => \A c \in C : \A o \in Ids(l) \ C : Active(o) => c \notin before[o]
  BY <1>4, <1>5, <1>7, <1>9, <1>10
<1> HIDE DEF C
<1> QED BY <1>2, <1>7, <1>11, Undisturbed

LEMMA WalkBegins == InitWalk => WalkInv
<1> SUFFICES ASSUME InitWalk PROVE WalkInv
  OBVIOUS
<1>1. WalkTypeOK
  BY DEF InitWalk, WalkTypeOK
<1>2. \A t \in Ids(l) : ledger[t] = <<>>
  BY DEF InitWalk
<1>3. \A t \in Ids(l) : ~Attempted(t) /\ ~Active(t)
  BY <1>2 DEF Attempted, Active, Begun, Standing
<1> QED BY <1>1, <1>3 DEF WalkInv, Reached, Grounded, Recent

LEMMA WalkStepKeeps == WalkInv /\ [NextWalk]_walkVars => WalkInv'
<1> SUFFICES ASSUME WalkInv, [NextWalk]_walkVars PROVE WalkInv'
  OBVIOUS
<1>1. DOMAIN ledger = Ids(l)
  BY DEF WalkInv, WalkTypeOK
<1>2. ASSUME NEW t \in Ids(l), Begin(t) PROVE WalkInv'
  BY <1>2, BeginKept
<1>3. ASSUME NEW t \in Ids(l), Pass(t) \/ Fail(t) PROVE WalkInv'
  BY <1>3, EndKept DEF Pass, Fail
<1>4. ASSUME NEW t \in Ids(l), Reject(t) PROVE WalkInv'
  BY <1>4, RejectKept
<1>5. ASSUME NEW t \in Ids(l), SendBack(t) PROVE WalkInv'
  BY <1>5, SendBackKept
<1>6. CASE UNCHANGED walkVars
  <2>1. UNCHANGED <<l, before>> /\ ledger' = ledger /\ ledger' \in [Ids(l) -> Seq(Attempt)]
    BY <1>6 DEF walkVars, WalkInv, WalkTypeOK
  <2> DEFINE C == {}
  <2>2. C \in SUBSET Ids(l) /\ \A c \in C : FALSE
    OBVIOUS
  <2> HIDE DEF C
  <2> QED BY <2>1, <2>2, Undisturbed
<1> QED BY <1>1, <1>2, <1>3, <1>4, <1>5, <1>6 DEF NextWalk

\* Who is held sent back to a gate that has not passed since, and does nothing.
HeldIdle ==
    /\ held \in SUBSET Ids(l)
    /\ \A t \in held : Task(l, t).back # "" /\ ~Active(t) /\ ~Standing(Task(l, t).back)

\* Of the held there is always one whose gate waits for none of them.
NoRing ==
    \A S \in SUBSET held : S # {} => \E s \in S : \A x \in S : x \notin before[Task(l, s).back]

HeldInv == HeldIdle /\ (JudgedFirst => NoRing)

\* The gate of whoever may send back is a task, that does not wait for it.
LEMMA GateOf ==
    ASSUME WalkTypeOK, NEW t \in Ids(l), Task(l, t).back # ""
    PROVE  /\ Task(l, t).back \in Ids(l) /\ Task(l, Task(l, t).back).kind = "review"
           /\ Task(l, t).kind = "dispatch" /\ t \notin before[Task(l, t).back]
<1>1. Valid(l) /\ before = Upstream(l)
  BY WalkValid
<1> QED BY <1>1, SendBackIsSafe DEF BackIsSafe

\* A step that holds nobody: what it changes in C is not held, or stays idle, and
\* is no gate that somebody still waits for, or has not passed.
LEMMA HeldAside ==
    ASSUME WalkInv, WalkTypeOK', HeldInv, UNCHANGED <<l, before>>, held' \in SUBSET held,
           NEW C \in SUBSET Ids(l), \A u \in Ids(l) \ C : ledger'[u] = ledger[u],
           \A c \in C : c \notin held' \/ ~Active(c)',
           \A u \in held' : Task(l, u).back \in C => ~Standing(Task(l, u).back)'
    PROVE  HeldInv'
<1>1. Ids(l)' = Ids(l) /\ DOMAIN ledger = Ids(l) /\ DOMAIN ledger' = Ids(l)
  BY DEF WalkInv, WalkTypeOK
<1>2. JudgedFirst' = JudgedFirst /\ (NoRing => NoRing')
  BY <1>1 DEF JudgedFirst, NoRing
<1>3. \A u \in Ids(l) \ C : Active(u)' = Active(u) /\ Standing(u)' = Standing(u)
  BY DEF Active, Standing, Begun, Reopened, Attempted
<1>4. \A u \in held : u \in Ids(l) /\ Task(l, u).back # "" /\ Task(l, u).back \in Ids(l)
  BY GateOf DEF HeldInv, HeldIdle, WalkInv
<1>5. \A u \in held' : ~Active(u)' /\ ~Standing(Task(l, u).back)'
  BY <1>3, <1>4 DEF HeldInv, HeldIdle
<1>6. HeldIdle'
  BY <1>1, <1>4, <1>5 DEF HeldIdle
<1> QED BY <1>2, <1>6 DEF HeldInv

\* Whoever sends back holds; nobody whom its gate waits for is held.
LEMMA SenderHolds ==
    ASSUME WalkInv, WalkTypeOK', HeldInv, NEW t \in Ids(l), SendBack(t)
    PROVE  HeldInv'
<1>1. PICK g, w : g = Task(l, t).back /\ w = Task(l, g).reviews
  OBVIOUS
<1>2. /\ Begun(t) /\ UNCHANGED <<l, before>> /\ g # "" /\ Standing(g) /\ g \in Ids(l) /\ w \in Ids(l)
      /\ t \notin before[g]
      /\ \A c \in {t, g, w} : ~Active(c)'
      /\ \A u \in Ids(l) \ {t, g, w} : ledger'[u] = ledger[u]
  BY <1>1, SendingBack
<1>3. Ids(l)' = Ids(l) /\ DOMAIN ledger = Ids(l) /\ DOMAIN ledger' = Ids(l)
  BY <1>2 DEF WalkInv, WalkTypeOK
<1>4. JudgedFirst' = JudgedFirst
  BY <1>2, <1>3 DEF JudgedFirst
<1>5. held' = held \union {t}
  BY DEF SendBack
<1>6. \A u \in Ids(l) \ {t, g, w} : Active(u)' = Active(u) /\ Standing(u)' = Standing(u)
  BY <1>2 DEF Active, Standing, Begun, Reopened, Attempted
<1>7. \A u \in Ids(l) : ~Active(u) => ~Active(u)'
  BY <1>2, <1>6
<1>8. \A u \in Ids(l) : ~Standing(u) => ~Standing(u)'
  BY <1>2, <1>6 DEF Active
<1>9. \A u \in held : u \in Ids(l) /\ Task(l, u).back # "" /\ Task(l, u).back \in Ids(l)
  BY GateOf DEF HeldInv, HeldIdle, WalkInv
<1>10. ~Active(t)' /\ ~Standing(g)'
  BY <1>2 DEF Active
<1>11. \A u \in held' : u \in Ids(l) /\ Task(l, u).back # "" /\ ~Active(u)' /\ ~Standing(Task(l, u).back)'
  BY <1>1, <1>2, <1>5, <1>7, <1>8, <1>9, <1>10 DEF HeldInv, HeldIdle
<1>12. HeldIdle'
  BY <1>2, <1>3, <1>11 DEF HeldIdle
<1>13. ASSUME JudgedFirst PROVE NoRing'
  <2> SUFFICES ASSUME NEW S \in SUBSET held', S # {}
               PROVE  \E s \in S : \A x \in S : x \notin before[Task(l, s).back]
    BY <1>2 DEF NoRing
  <2>1. CASE t \in S
    <3>1. \A x \in before[g] : Standing(x)
      BY <1>2, <1>13 DEF WalkInv, Grounded, Active
    <3>2. \A x \in held : ~Standing(x)
      BY DEF HeldInv, HeldIdle, Active
    <3>3. \A x \in S : x \notin before[g]
      BY <1>2, <1>5, <3>1, <3>2
    <3> QED BY <1>1, <2>1, <3>3
  <2>2. CASE t \notin S
    BY <1>5, <1>13, <2>2 DEF HeldInv, NoRing
  <2> QED BY <2>1, <2>2
<1> QED BY <1>4, <1>12, <1>13 DEF HeldInv

LEMMA HoldBegins == InitWalk => HeldInv
  BY DEF InitWalk, HeldInv, HeldIdle, NoRing

LEMMA HoldStepKeeps ==
    ASSUME WalkInv, WalkInv', HeldInv, [NextWalk]_walkVars
    PROVE  HeldInv'
<1>1. DOMAIN ledger = Ids(l) /\ WalkTypeOK' /\ ledger \in [Ids(l) -> Seq(Attempt)]
  BY DEF WalkInv, WalkTypeOK
<1>2. ASSUME NEW t \in Ids(l), Begin(t) PROVE HeldInv'
  <2>1. PICK a : Changed(ledger', ledger, t, a) /\ a.outcome = ""
    BY <1>2, Beginning
  <2>2. /\ ~Standing(t)' /\ \A u \in Ids(l) \ {t} : ledger'[u] = ledger[u]
        /\ UNCHANGED <<l, before, held>> /\ t \notin held
    BY <1>2, <2>1 DEF Changed, Standing, Begin, Workable
  <2> DEFINE C == {t}
  <2>3. /\ C \in SUBSET Ids(l) /\ \A u \in Ids(l) \ C : ledger'[u] = ledger[u]
        /\ \A c \in C : c \notin held'
        /\ \A c \in C : ~Standing(c)'
    BY <2>2
  <2> HIDE DEF C
  <2> QED BY <1>1, <2>2, <2>3, HeldAside
<1>3. ASSUME NEW t \in Ids(l), Pass(t) \/ Fail(t) PROVE HeldInv'
  <2>1. PICK o \in {"passed", "failed"} :
            /\ Begun(t) /\ ledger' = Ends(ledger, t, o) /\ UNCHANGED <<l, before>> /\ held' \in SUBSET held
            /\ o = "passed" => \A u \in held' : Task(l, u).back # t
    BY <1>3 DEF Pass, Fail
  <2>2. ledger[t] # <<>> /\ t \notin held
    BY <2>1 DEF Begun, Attempted, HeldInv, HeldIdle, Active
  <2>3. PICK b : b.outcome = o /\ Changed(ledger', ledger, t, b)
    <3>1. o \in {"", "passed", "failed", "rejected"}
      OBVIOUS
    <3>2. \E b : b.outcome = o /\ b.basis = Last(ledger[t]).basis /\ Changed(Ends(ledger, t, o), ledger, t, b)
      BY <1>1, <2>2, <3>1, Ending
    <3> QED BY <2>1, <3>2
  <2>4. o = "failed" => ~Standing(t)'
    BY <2>3 DEF Changed, Standing
  <2>5. \A u \in Ids(l) \ {t} : ledger'[u] = ledger[u]
    BY <2>3 DEF Changed
  <2> DEFINE C == {t}
  <2>6. /\ C \in SUBSET Ids(l) /\ \A u \in Ids(l) \ C : ledger'[u] = ledger[u]
        /\ \A c \in C : c \notin held'
        /\ \A u \in held' : Task(l, u).back \in C => ~Standing(Task(l, u).back)'
    BY <2>1, <2>2, <2>4, <2>5
  <2> HIDE DEF C
  <2> QED BY <1>1, <2>1, <2>6, HeldAside
<1>4. ASSUME NEW t \in Ids(l), Reject(t) PROVE HeldInv'
  <2>1. PICK w : w = Task(l, t).reviews
    OBVIOUS
  <2>2. /\ UNCHANGED <<l, before>> /\ w \in Ids(l)
        /\ \A c \in {t, w} : ~Active(c)'
        /\ \A u \in Ids(l) \ {t, w} : ledger'[u] = ledger[u]
    BY <1>4, <2>1, Rejecting
  <2>3. UNCHANGED held
    BY <1>4 DEF Reject
  <2> DEFINE C == {t, w}
  <2>4. /\ C \in SUBSET Ids(l) /\ \A u \in Ids(l) \ C : ledger'[u] = ledger[u]
        /\ \A c \in C : ~Active(c)' /\ ~Standing(c)'
    BY <2>2 DEF Active
  <2> HIDE DEF C
  <2> QED BY <1>1, <2>2, <2>3, <2>4, HeldAside
<1>5. ASSUME NEW t \in Ids(l), SendBack(t) PROVE HeldInv'
  BY <1>1, <1>5, SenderHolds
<1>6. CASE UNCHANGED walkVars
  <2> DEFINE C == {}
  <2>1. C \in SUBSET Ids(l) /\ \A c \in C : FALSE
    OBVIOUS
  <2> HIDE DEF C
  <2> QED BY <1>1, <1>6, <2>1, HeldAside DEF walkVars
<1> QED BY <1>1, <1>2, <1>3, <1>4, <1>5, <1>6 DEF NextWalk

\* lifecycles.go: every step of a walk keeps what was tried behind what it was
\* tried on, and where no work is used before its review, what is under way or
\* done on the last passes of all gates upstream.
THEOREM WalkInvariant == WalkSpec => [](WalkInv /\ HeldInv)
<1>1. WalkInv /\ HeldInv /\ [NextWalk]_walkVars => WalkInv' /\ HeldInv'
  BY WalkStepKeeps, HoldStepKeeps
<1> QED BY WalkBegins, HoldBegins, <1>1, PTL DEF WalkSpec
-----------------------------------------------------------------------------
(* What it means *)

\* Its parts say what the property does.
LEMMA PassesAreFresh == ASSUME WalkInv, JudgedFirst PROVE NoPassLeftBehind
<1> SUFFICES ASSUME NEW t \in Ids(l), Standing(t), NEW g \in GatesBefore(t)
             PROVE  Standing(g) /\ Last(ledger[t]).basis[g] = Len(ledger[g])
  BY DEF NoPassLeftBehind, Fresh, WalkInv, WalkTypeOK
<1> QED BY TheirUpstream DEF WalkInv, Grounded, Recent, Active

LEMMA GatesClosePhases == ASSUME WalkInv, JudgedFirst PROVE PhasesComplete
<1> SUFFICES ASSUME NEW i \in DOMAIN l.phases, Standing(l.phases[i].gate),
                    NEW t \in TasksOf(l), t.phase = l.phases[i].id
             PROVE  Standing(t.id)
  BY DEF PhasesComplete
<1>1. Valid(l) /\ before = Upstream(l)
  BY WalkValid DEF WalkInv
<1>2. l.phases[i].gate \in Ids(l) /\ (t.id = l.phases[i].gate \/ t.id \in before[l.phases[i].gate])
  BY <1>1, GateIsLast
<1> QED BY <1>2 DEF WalkInv, Grounded, Active

\* Of tasks that have not passed, the first one of the list can be worked on, when
\* none is held and what they depend on is one of them or has passed.
LEMMA FirstIsWorkable ==
    ASSUME WalkInv, NEW U \in SUBSET Ids(l), U # {}, \A u \in U : ~Standing(u) /\ u \notin held,
           \A u \in U : \A d \in Task(l, u).deps : d \in U \/ Standing(d)
    PROVE  \E t \in Ids(l) : Begun(t) \/ Workable(t)
<1> DEFINE n == Len(l.tasks)
           T == {i \in 1 .. n : \E u \in U : i = Place(l, u)}
<1>1. Valid(l) /\ n \in Nat
  BY WalkValid DEF WalkInv, Valid
<1>2. \A u \in U : Place(l, u) \in T
  BY <1>1, Places
<1>3. PICK i \in T : \A j \in T : i <= j
  <2>1. T \in SUBSET (1 .. n) /\ T # {}
    BY <1>2
  <2> HIDE DEF T, n
  <2> QED BY <1>1, <2>1, Least
<1>4. PICK t \in U : i = Place(l, t)
  OBVIOUS
<1>5. t \in Ids(l) /\ ~Standing(t) /\ t \notin held
  BY <1>4
<1>6. \A d \in Task(l, t).deps : Standing(d)
  <2> SUFFICES ASSUME NEW d \in Task(l, t).deps, ~Standing(d) PROVE FALSE
    OBVIOUS
  <2>1. d \in U /\ Place(l, d) < i
    BY <1>1, <1>4, <1>5, DepsAreEarlier
  <2>2. Place(l, d) \in T
    BY <1>2, <2>1
  <2>3. i \in 1 .. n /\ Place(l, d) \in 1 .. n
    BY <2>2
  <2> HIDE DEF T
  <2> QED BY <1>1, <1>3, <2>1, <2>2, <2>3
<1>7. Attempted(t) => Last(ledger[t]) \in Attempt
  <2>1. ledger[t] \in Seq(Attempt)
    BY <1>5, WalkValid DEF WalkInv
  <2> QED BY <2>1 DEF Attempted, Last
<1>8. CASE Attempted(t) /\ ~Reopened(t)
  <2>1. Last(ledger[t]).outcome \in {"", "passed", "failed", "rejected"}
    BY <1>7, <1>8 DEF Attempt
  <2>2. Begun(t) \/ Last(ledger[t]).outcome \in {"rejected", "failed"}
    BY <1>5, <1>8, <2>1 DEF Begun, Standing
  <2> QED BY <1>5, <1>6, <2>2 DEF Workable
<1>9. CASE ~(Attempted(t) /\ ~Reopened(t))
  BY <1>5, <1>6, <1>9 DEF Workable
<1> QED BY <1>8, <1>9

\* Where no routes cross, no held dispatches wait in a ring.
LEMMA UncrossedIsNoRing == ASSUME WalkInv, HeldInv, Uncrossed PROVE NoRing
<1> SUFFICES ASSUME NEW S \in SUBSET held, S # {}
             PROVE  \E s \in S : \A x \in S : x \notin before[Task(l, s).back]
  BY DEF NoRing
<1>1. WalkTypeOK /\ DOMAIN ledger = Ids(l)
  BY DEF WalkInv, WalkTypeOK
<1>2. \A s \in S : s \in Ids(l) /\ Task(l, s).back # ""
  BY DEF HeldInv, HeldIdle
<1>3. S \in SUBSET {t \in DOMAIN ledger : Task(l, t).back # ""}
  BY <1>1, <1>2
<1>4. PICK s \in S : \A x \in S \ {s} : x \notin before[Task(l, s).back]
  BY <1>3 DEF Uncrossed
<1>5. s \notin before[Task(l, s).back]
  BY <1>1, <1>2, GateOf
<1> QED BY <1>4, <1>5

\* What has not passed among all tasks, where none is held, or among the gate of
\* the last of the held and what that waits for, holds one to work on.
LEMMA SomeIsWorkable ==
    ASSUME WalkInv, HeldInv, JudgedFirst \/ Uncrossed
    PROVE  NeverStuck
<1>1. WalkTypeOK /\ Valid(l) /\ DOMAIN ledger = Ids(l)
  BY WalkValid DEF WalkInv
<1>2. NoRing
  BY UncrossedIsNoRing DEF HeldInv
<1>3. \A t \in Ids(l) : \A d \in Task(l, t).deps : d \in Ids(l) /\ d \in before[t]
  <2>1. before = Upstream(l)
    BY <1>1 DEF WalkTypeOK
  <2> QED BY <1>1, <2>1, DepsAreEarlier, UpstreamStep
<1> SUFFICES ASSUME NEW s \in Ids(l), ~Standing(s)
             PROVE  \E t \in Ids(l) : Begun(t) \/ Workable(t)
  BY <1>1 DEF NeverStuck
<1>4. CASE held = {}
  <2> DEFINE U == {u \in Ids(l) : ~Standing(u)}
  <2>1. /\ U \in SUBSET Ids(l) /\ U # {} /\ \A u \in U : ~Standing(u) /\ u \notin held
        /\ \A u \in U : \A d \in Task(l, u).deps : d \in U \/ Standing(d)
    BY <1>3, <1>4
  <2> HIDE DEF U
  <2> QED BY <2>1, FirstIsWorkable
<1>5. CASE held # {}
  <2>1. PICK h \in held : \A x \in held : x \notin before[Task(l, h).back]
    BY <1>2, <1>5 DEF NoRing
  <2>2. PICK g : g = Task(l, h).back
    OBVIOUS
  <2>3. h \in Ids(l) /\ g # "" /\ ~Standing(g)
    BY <2>2 DEF HeldInv, HeldIdle
  <2>4. g \in Ids(l) /\ Task(l, g).kind = "review"
    BY <1>1, <2>2, <2>3, GateOf
  <2>5. g \notin held
    <3>1. \A x \in held : x \in Ids(l) /\ Task(l, x).kind = "dispatch"
      BY <1>1, GateOf DEF HeldInv, HeldIdle
    <3> QED BY <2>4, <3>1
  <2> DEFINE U == {u \in before[g] \union {g} : ~Standing(u)}
  <2>6. \A u \in before[g] : u \in Ids(l) /\ before[u] \subseteq before[g]
    BY <1>1, <2>4, TheirUpstream
  <2>7. /\ U \in SUBSET Ids(l) /\ U # {} /\ \A u \in U : ~Standing(u) /\ u \notin held
    BY <2>1, <2>2, <2>3, <2>4, <2>5, <2>6
  <2>8. \A u \in U : \A d \in Task(l, u).deps : d \in U \/ Standing(d)
    BY <1>3, <2>4, <2>6
  <2> HIDE DEF U
  <2> QED BY <2>7, <2>8, FirstIsWorkable
<1> QED BY <1>4, <1>5

\* The latest attempts of the ledger are the last ones of the tasks that were tried.
LEMMA LatestIsLast ==
    ASSUME WalkInv
    PROVE  /\ \A a \in Latest(Attempts) : /\ a.task \in Ids(l) /\ Attempted(a.task)
                                          /\ a.outcome = Last(ledger[a.task]).outcome
           /\ \A t \in Ids(l) : Attempted(t) =>
                  \E a \in Latest(Attempts) : a.task = t /\ a.outcome = Last(ledger[t]).outcome
<1>1. /\ DOMAIN ledger = Ids(l)
      /\ \A t \in Ids(l) : ledger[t] \in Seq(Attempt)
  BY WalkValid DEF WalkInv
<1>2. \A t \in Ids(l) : Len(ledger[t]) \in Nat /\ DOMAIN ledger[t] = 1 .. Len(ledger[t])
  BY <1>1
<1>3. \A a \in Attempts : /\ a.task \in Ids(l) /\ a.attempt \in 1 .. Len(ledger[a.task])
                          /\ a.outcome = ledger[a.task][a.attempt].outcome
  BY <1>1, <1>2 DEF Attempts
<1>4. \A t \in Ids(l) : \A i \in 1 .. Len(ledger[t]) :
         [task |-> t, attempt |-> i, outcome |-> ledger[t][i].outcome] \in Attempts
  BY <1>1, <1>2 DEF Attempts
<1>5. \A t \in Ids(l) : Attempted(t) => Len(ledger[t]) \in 1 .. Len(ledger[t])
  BY <1>1 DEF Attempted
<1>6. ASSUME NEW a \in Latest(Attempts)
      PROVE  a.task \in Ids(l) /\ Attempted(a.task) /\ a.outcome = Last(ledger[a.task]).outcome
  <2>1. a \in Attempts /\ \A b \in Attempts : b.task = a.task => b.attempt <= a.attempt
    BY DEF Latest
  <2>2. PICK t : t = a.task
    OBVIOUS
  <2>3. t \in Ids(l) /\ a.attempt \in 1 .. Len(ledger[t]) /\ Len(ledger[t]) \in Nat
    BY <1>2, <1>3, <2>1, <2>2
  <2>4. Len(ledger[t]) \in 1 .. Len(ledger[t])
    BY <2>3
  <2>5. Len(ledger[t]) <= a.attempt
    BY <1>4, <2>1, <2>2, <2>3, <2>4
  <2>6. a.attempt = Len(ledger[t])
    BY <2>3, <2>5
  <2>7. ledger[t] # <<>>
    BY <1>1, <2>3
  <2> QED BY <1>3, <2>1, <2>2, <2>3, <2>6, <2>7 DEF Attempted, Last
<1>7. ASSUME NEW t \in Ids(l), Attempted(t)
      PROVE  \E a \in Latest(Attempts) : a.task = t /\ a.outcome = Last(ledger[t]).outcome
  <2> DEFINE a == [task |-> t, attempt |-> Len(ledger[t]), outcome |-> ledger[t][Len(ledger[t])].outcome]
  <2>1. a \in Attempts
    BY <1>4, <1>5, <1>7
  <2>2. \A b \in Attempts : b.task = t => b.attempt <= Len(ledger[t])
    BY <1>2, <1>3
  <2>3. a \in Latest(Attempts)
    BY <2>1, <2>2 DEF Latest
  <2> QED BY <2>3 DEF Last
<1> QED BY <1>6, <1>7

\* Where testing comes last, all was tried once it was.
LEMMA IntegratedIsComplete == ASSUME WalkInv PROVE ReadsIntegrated
<1>1. DOMAIN ledger = Ids(l)
  BY WalkValid DEF WalkInv
<1> SUFFICES ASSUME "testing" \in Ids(l), \A t \in Ids(l) \ {"testing"} : t \in before["testing"]
             PROVE  LedgerIntegrated(Attempts) <=> \A t \in Ids(l) : Standing(t)
  BY <1>1 DEF ReadsIntegrated
<1>2. ASSUME LedgerIntegrated(Attempts), NEW t \in Ids(l) PROVE Standing(t)
  <2>1. Attempted("testing")
    BY <1>2, LatestIsLast DEF LedgerIntegrated
  <2>2. Attempted(t)
    BY <2>1 DEF WalkInv, Reached
  <2> QED BY <1>2, <2>2, LatestIsLast DEF LedgerIntegrated, Standing
<1>3. ASSUME \A t \in Ids(l) : Standing(t) PROVE LedgerIntegrated(Attempts)
  BY <1>3, LatestIsLast DEF LedgerIntegrated, Standing
<1> QED BY <1>2, <1>3

\* lifecycles.go: in a lifecycle the validator accepts, where no work is used before
\* its review, no pass rests on a gate's earlier one and a phase whose gate has passed
\* is complete; there, and where no routes back cross, the dispatches that hold until
\* their gates pass again never stop the walk; and none reads as integrated while a
\* task is not done.  Of any length, with any routes back, for any number of attempts.
THEOREM NoPassIsStale == WalkSpec => []NoStalePass
<1>1. WalkInv /\ HeldInv => NoStalePass
  BY PassesAreFresh, GatesClosePhases, SomeIsWorkable, IntegratedIsComplete DEF NoStalePass
<1> QED BY <1>1, WalkInvariant, PTL

-----------------------------------------------------------------------------
(* Sites.  Where packages are, and what a path says of a layer.            *)

PackageShape(p) == DOMAIN p = {"path", "imports", "files", "tests"} /\ IsPath(p.path)
PackagesOK == \A p \in pkgs : PackageShape(p)

LEMMA LayersAre ==
    /\ DOMAIN Layers = 1 .. 5
    /\ \A i, j \in 1 .. 5 : /\ Layers[i].dir = Layers[j].dir => i = j
                            /\ Layers[i].name = Layers[j].name => i = j
<1>1. DOMAIN Layers = 1 .. 5
  BY DEF Layers
<1>2. Layers[1].dir = "client" /\ Layers[1].name = "client"
  BY DEF Layers
<1>3. Layers[2].dir = "manager" /\ Layers[2].name = "manager"
  BY DEF Layers
<1>4. Layers[3].dir = "engine" /\ Layers[3].name = "engine"
  BY DEF Layers
<1>5. Layers[4].dir = "resourceaccess" /\ Layers[4].name = "resourceAccess"
  BY DEF Layers
<1>6. Layers[5].dir = "utility" /\ Layers[5].name = "utility"
  BY DEF Layers
<1>8. \A i, j \in 1 .. 5 : Layers[i].dir = Layers[j].dir => i = j
  BY <1>2, <1>3, <1>4, <1>5, <1>6
<1>9. \A i, j \in 1 .. 5 : Layers[i].name = Layers[j].name => i = j
  BY <1>2, <1>3, <1>4, <1>5, <1>6
<1> QED BY <1>1, <1>8, <1>9

\* Paths and what is made of them.
LEMMA SomePath == ASSUME NEW X, NEW s \in Seq(X), s # <<>> PROVE IsPath(s)
<1>1. \A i \in DOMAIN s : s[i] \in Range(s)
  BY DEF Range
<1>2. s \in Seq(Range(s))
  BY <1>1
<1> QED BY <1>2 DEF IsPath

LEMMA OneChanged ==
    ASSUME NEW X, NEW s \in Seq(X), s # <<>>, NEW n, NEW x \in X, NEW new, new = [s EXCEPT ![n] = x]
    PROVE  IsPath(new)
<1>1. Len(s) \in Nat /\ Len(s) > 0 /\ DOMAIN s = 1 .. Len(s)
  OBVIOUS
<1>2. DOMAIN new = 1 .. Len(s) /\ new = [i \in 1 .. Len(s) |-> new[i]]
  BY <1>1
<1>3. \A i \in 1 .. Len(s) : new[i] \in X
  BY <1>1
<1>4. new \in [1 .. Len(s) -> X]
  BY <1>2, <1>3, Zenon
<1>5. new \in Seq(X)
  <2>1. PICK k \in Nat : k = Len(s)
    BY <1>1
  <2>2. \E m \in Nat : new \in [1 .. m -> X]
    BY <1>4, <2>1
  <2> QED BY <2>2
<1>6. new # <<>>
  BY <1>1, <1>2
<1> QED BY <1>5, <1>6, SomePath

LEMMA Longer ==
    ASSUME NEW s, IsPath(s), NEW x
    PROVE  /\ IsPath(s \o <<x>>) /\ Len(s \o <<x>>) = Len(s) + 1 /\ (s \o <<x>>)[Len(s) + 1] = x
           /\ \A i \in 1 .. Len(s) : (s \o <<x>>)[i] = s[i]
<1> DEFINE X == Range(s) \union {x}
<1>1. s \in Seq(X) /\ x \in X /\ <<x>> \in Seq(X) /\ s # <<>>
  BY DEF IsPath
<1> HIDE DEF X
<1>2. s \o <<x>> \in Seq(X) /\ s \o <<x>> # <<>>
  BY <1>1
<1>3. Len(s \o <<x>>) = Len(s) + 1 /\ (s \o <<x>>)[Len(s) + 1] = x
  BY <1>1
<1>4. \A i \in 1 .. Len(s) : (s \o <<x>>)[i] = s[i]
  BY <1>1
<1> QED BY <1>2, <1>3, <1>4, SomePath

LEMMA PrefixIs ==
    ASSUME IsPath(Module)
    PROVE  /\ IsPath(Prefix) /\ Len(Prefix) = Len(Module) + 1
           /\ \A i \in 1 .. Len(Module) : Prefix[i] = Module[i]
  BY Longer DEF Prefix

LEMMA LayerOfPath ==
    ASSUME IsPath(Module), NEW path, IsPath(path)
    PROVE  /\ LayerIndex(path) \in 0 .. 5
           /\ LayerIndex(path) # 0 =>
                /\ Len(path) > Len(Prefix) /\ LayerIndex(path) \in 1 .. 5
                /\ Layers[LayerIndex(path)].dir = path[Len(Prefix) + 1]
                /\ \A i \in 1 .. Len(Prefix) : path[i] = Prefix[i]
<1>1. Prefix \in Seq(Range(Prefix)) /\ path \in Seq(Range(path))
  BY PrefixIs DEF IsPath
<1>2. \A dir \in DOMAIN LayerNumber : LayerNumber[dir] \in 1 .. 5 /\ Layers[LayerNumber[dir]].dir = dir
  <2>1. ASSUME NEW dir \in {Layers[i].dir : i \in DOMAIN Layers}
        PROVE  LayerNumber[dir] \in DOMAIN Layers /\ Layers[LayerNumber[dir]].dir = dir
    <3>1. \E i \in DOMAIN Layers : Layers[i].dir = dir
      BY <2>1
    <3>2. LayerNumber[dir] = CHOOSE i \in DOMAIN Layers : Layers[i].dir = dir
      BY <2>1, Zenon DEF LayerNumber
    <3> QED BY <3>1, <3>2
  <2>2. DOMAIN LayerNumber = {Layers[i].dir : i \in DOMAIN Layers}
    BY Zenon DEF LayerNumber
  <2> QED BY <2>1, <2>2, LayersAre
<1>3. CASE LayerIndex(path) # 0
  <2>1. /\ Len(path) > Len(Prefix) /\ SubSeq(path, 1, Len(Prefix)) = Prefix
        /\ path[Len(Prefix) + 1] \in DOMAIN LayerNumber
        /\ LayerIndex(path) = LayerNumber[path[Len(Prefix) + 1]]
    BY <1>3, Zenon DEF LayerIndex
  <2>2. LayerIndex(path) \in 1 .. 5 /\ Layers[LayerIndex(path)].dir = path[Len(Prefix) + 1]
    BY <1>2, <2>1
  <2>3. ASSUME NEW i \in 1 .. Len(Prefix) PROVE path[i] = Prefix[i]
    <3>1. SubSeq(path, 1, Len(Prefix))[i] = path[i]
      BY <1>1, <2>1
    <3> QED BY <2>1, <3>1
  <2> QED BY <2>1, <2>2, <2>3
<1> QED BY <1>3

LEMMA Greatest ==
    ASSUME NEW n \in Nat, NEW T \in SUBSET (1 .. n), T # {}
    PROVE  Max(T) \in T /\ \A j \in T : Max(T) >= j
<1> DEFINE U == {n + 1 - i : i \in T}
<1>1. U \in SUBSET (1 .. n) /\ U # {}
  <2>1. \A i \in T : n + 1 - i \in 1 .. n
    OBVIOUS
  <2>2. PICK i \in T : TRUE
    OBVIOUS
  <2>3. n + 1 - i \in U
    OBVIOUS
  <2> QED BY <2>1, <2>3
<1>2. PICK u \in U : \A v \in U : u <= v
  BY <1>1, Least
<1>3. PICK i \in T : u = n + 1 - i
  BY <1>2
<1>4. \A j \in T : i >= j
  <2>1. \A j \in T : n + 1 - j \in U
    OBVIOUS
  <2>2. \A j \in T : n + 1 - i <= n + 1 - j
    BY <1>2, <1>3, <2>1
  <2>3. i \in 1 .. n /\ \A j \in T : j \in 1 .. n
    BY <1>3
  <2> QED BY <2>2, <2>3
<1> QED BY <1>4 DEF Max

\* A package that a component owns is called like it, below its layer.
LEMMA OwnedIsMine ==
    ASSUME SiteLegal, NEW id \in ToMatch(Design), NEW p, IsPath(p.path), LayerIndex(p.path) # 0,
           LayerOf(p.path).name = Design.comps[id].layer,
           Owner(Design, p) = Key(Design.comps[id].name)
    PROVE  Mine(id, p)
<1> DEFINE c == Design.comps[id]
           keys == {Key(Design.comps[x].name) : x \in {y \in ToMatch(Design) : Design.comps[y].layer = LayerOf(p.path).name}}
           is == {i \in DOMAIN p.path : Key(p.path[i]) \in keys}
           top == Max(is)
<1>1. Key(c.name) # ""
  BY DEF ToMatch
<1>2. IsPath(Module) /\ p.path \in Seq(Range(p.path))
  BY Zenon DEF SiteLegal, IsPath
<1>3. is # {} /\ Key(p.path[top]) = Key(c.name)
  <2>1. Owner(Design, p) = IF is = {} THEN "" ELSE Key(p.path[top])
    BY Zenon DEF Owner
  <2> HIDE DEF is, top
  <2> QED BY <1>1, <2>1
<1>4. top \in is
  <2>1. is \in SUBSET (1 .. Len(p.path)) /\ Len(p.path) \in Nat
    BY <1>2
  <2> HIDE DEF is
  <2> QED BY <1>3, <2>1, Greatest
<1>5. top \in 1 .. Len(p.path)
  BY <1>2, <1>4
<1> HIDE DEF is, top
<1>6. /\ Len(p.path) > Len(Prefix) /\ LayerIndex(p.path) \in 1 .. 5
      /\ Layers[LayerIndex(p.path)].dir = p.path[Len(Prefix) + 1]
      /\ \A i \in 1 .. Len(Prefix) : p.path[i] = Prefix[i]
  BY <1>2, LayerOfPath
<1>7. Prefix \in Seq(Range(Prefix)) /\ Len(Prefix) \in Nat /\ DOMAIN Prefix = 1 .. Len(Prefix)
  <2>1. Prefix \in Seq(Range(Prefix))
    BY <1>2, PrefixIs DEF IsPath
  <2> QED BY <2>1
<1>8. top \notin 1 .. Len(Prefix)
  <2>1. \A i \in DOMAIN Prefix : Key(Prefix[i]) # Key(c.name)
    BY Zenon DEF SiteLegal
  <2> QED BY <1>3, <1>6, <1>7, <2>1
<1>9. top # Len(Prefix) + 1
  <2>1. PICK i \in DOMAIN Layers : Layers[i].name = c.layer /\ Key(Layers[i].dir) # Key(c.name)
    BY Zenon DEF SiteLegal
  <2>2. i = LayerIndex(p.path)
    BY <1>6, <2>1, LayersAre DEF LayerOf
  <2> QED BY <1>3, <1>6, <2>1, <2>2
<1> DEFINE j == top - Len(Prefix)
<1>10. j \in DOMAIN Below(p.path) /\ j > 1 /\ Below(p.path)[j] = p.path[top]
  BY <1>2, <1>5, <1>6, <1>7, <1>8, <1>9 DEF Below
<1> HIDE DEF j
<1> QED BY <1>3, <1>10 DEF Mine

-----------------------------------------------------------------------------
(* What an accepted tree is *)

PlaceOf(p) ==
    [path |-> p.path, imports |-> p.imports, at |-> <<Key(Leaf(p.path)), LayerOf(p.path).name>>, owner |-> Owner(Design, p),
     transport |-> GeneratedTransport(p),
     comp |-> {id \in DOMAIN Design.comps : Key(Leaf(p.path)) # ""
                 /\ <<Key(Design.comps[id].name), Design.comps[id].layer>> = <<Key(Leaf(p.path)), LayerOf(p.path).name>>}]
Placing == Placed(Design, Classified(pkgs))
Code == {p \in pkgs : ~GeneratedDouble(p)}

LEMMA PlacesAre == Placing = {PlaceOf(p) : p \in Classified(pkgs)}
  BY DEF Placing, Placed, PlaceOf

LEMMA JudgedIs ==
    ASSUME Judged
    PROVE  /\ Placing = {} => pkgs = {}
           /\ Placing # {} =>
                /\ Misbuilt(pkgs) = {}
                /\ Misaligned(Design, Placing, GoPackages, Pending, LeftOut) = {}
                /\ Orphaned(Design, Placing, GoPackages) = {}
                /\ Undeclared(Design, Placing) = {}
  BY Zenon DEF Judged, CodeAccepted, Placing, ArchAccepted

LEMMA CodeIsPlaced ==
    ASSUME Judged
    PROVE  /\ \A p \in Code : p \in Classified(pkgs) /\ LayerIndex(p.path) # 0
           /\ \A p \in Code : \A ip \in p.imports : ~BadImport(p, ip)
           /\ Classified(pkgs) \subseteq Code
           /\ pkgs # {} => Placing # {}
<1>1. CASE pkgs = {}
  BY <1>1 DEF Code, Classified
<1>2. CASE pkgs # {}
  <2>1. Placing # {}
    BY <1>2, JudgedIs
  <2>2. \A p \in pkgs : p \notin Misbuilt(pkgs)
    BY <2>1, JudgedIs, Zenon
  <2>3. \A p \in Code : LayerIndex(p.path) # 0 /\ \A ip \in p.imports : ~BadImport(p, ip)
    BY <2>2 DEF Misbuilt, Code
  <2> QED BY <2>1, <2>3 DEF Code, Classified
<1> QED BY <1>1, <1>2

\* Imports only lead down the layers.
LEMMA DownOnly ==
    ASSUME SiteLegal, PackagesOK, Judged, NEW p \in Code, NEW q \in Code, q.path \in p.imports
    PROVE  LayerIndex(p.path) < LayerIndex(q.path)
<1>1. IsPath(Module) /\ ~Temporal(Module) /\ IsPath(p.path) /\ IsPath(q.path)
  <2>1. p \in pkgs /\ q \in pkgs
    BY DEF Code
  <2> QED BY <2>1 DEF SiteLegal, PackagesOK, PackageShape
<1>2. LayerIndex(p.path) \in 1 .. 5 /\ LayerIndex(q.path) \in 1 .. 5
  BY <1>1, CodeIsPlaced, LayerOfPath
<1>3. ~BadImport(p, q.path)
  BY CodeIsPlaced
<1>4. ~Temporal(q.path)
  <2>1. \A i \in 1 .. Len(Prefix) : q.path[i] = Prefix[i]
    BY <1>1, <1>2, LayerOfPath
  <2>2. Len(Prefix) = Len(Module) + 1 /\ \A i \in 1 .. Len(Module) : Prefix[i] = Module[i]
    BY <1>1, PrefixIs
  <2>3. Len(Module) \in Nat /\ Len(Module) > 0
    BY <1>1 DEF IsPath
  <2>4. 1 \in 1 .. Len(Prefix) /\ 1 \in 1 .. Len(Module)
    BY <2>2, <2>3
  <2>5. q.path[1] = Module[1]
    BY <2>1, <2>2, <2>4
  <2> QED BY <1>1, <2>5 DEF Temporal
<1> QED BY <1>2, <1>3, <1>4 DEF BadImport

\* The code of two components: the design has the call.
LEMMA CallsDeclared ==
    ASSUME SiteLegal, PackagesOK, Judged, NEW p \in Code, NEW q \in Code, q.path \in p.imports,
           {p.path, q.path} \subseteq Range(Paths)
    PROVE  \E r \in Design.rels : /\ {r.from, r.to} \subseteq ToMatch(Design)
                                  /\ Paths[r.from] = p.path /\ Paths[r.to] = q.path
<1> DEFINE Carries(i, x) == /\ i \in ToMatch(Design) /\ Paths[i] = x.path
                            /\ LayerOf(x.path).name = Design.comps[i].layer
                            /\ Key(Leaf(x.path)) = Key(Design.comps[i].name)
<1>1. ASSUME NEW x, x.path \in Range(Paths) PROVE \E i : Carries(i, x)
  <2>1. PICK id \in DOMAIN Paths : Paths[id] = x.path
    BY <1>1 DEF Range
  <2>2. id \in ToMatch(Design)
    BY <2>1 DEF Paths
  <2>3. PICK own \in Owners(id) : TRUE
    BY <2>2, Zenon DEF SiteLegal
  <2> QED BY <2>1, <2>3 DEF Owners
<1>2. PICK i : Carries(i, p)
  BY <1>1
<1>3. PICK j : Carries(j, q)
  BY <1>1
<1>4. ASSUME NEW k, NEW x \in Code, Carries(k, x)
      PROVE  k \in PlaceOf(x).comp /\ PlaceOf(x) \in Placing
  <2>1. k \in DOMAIN Design.comps /\ Key(Design.comps[k].name) # ""
    BY <1>4 DEF ToMatch
  <2>2. PlaceOf(x).comp = {id \in DOMAIN Design.comps : Key(Leaf(x.path)) # ""
                 /\ <<Key(Design.comps[id].name), Design.comps[id].layer>> = <<Key(Leaf(x.path)), LayerOf(x.path).name>>}
    BY DEF PlaceOf
  <2>3. k \in PlaceOf(x).comp
    BY <1>4, <2>1, <2>2
  <2>4. x \in Classified(pkgs)
    BY <1>4, CodeIsPlaced
  <2> QED BY <2>3, <2>4, PlacesAre
<1>5. i \in PlaceOf(p).comp /\ PlaceOf(p) \in Placing /\ j \in PlaceOf(q).comp /\ PlaceOf(q) \in Placing
  BY <1>2, <1>3, <1>4
<1>6. PlaceOf(q).path \in PlaceOf(p).imports
  BY DEF PlaceOf
<1>7. <<i, j>> \in CodeEdges(Placing)
  <2>1. <<i, j>> \in PlaceOf(p).comp \X PlaceOf(q).comp
    BY <1>5
  <2>2. PlaceOf(p).comp \X PlaceOf(q).comp \in
          {PlaceOf(p).comp \X y.comp : y \in {z \in Placing : z.path \in PlaceOf(p).imports}}
    BY <1>5, <1>6
  <2>3. <<i, j>> \in UNION {PlaceOf(p).comp \X y.comp : y \in {z \in Placing : z.path \in PlaceOf(p).imports}}
    BY <2>1, <2>2, Zenon
  <2>4. UNION {PlaceOf(p).comp \X y.comp : y \in {z \in Placing : z.path \in PlaceOf(p).imports}} \in
          {UNION {x.comp \X y.comp : y \in {z \in Placing : z.path \in x.imports}} : x \in Placing}
    BY <1>5, Zenon
  <2> QED BY <2>3, <2>4, Zenon DEF CodeEdges
<1>8. i # j
  <2>1. LayerIndex(p.path) < LayerIndex(q.path)
    BY DownOnly
  <2>2. LayerIndex(p.path) \in 0 .. 5 /\ LayerIndex(q.path) \in 0 .. 5
    <3>1. IsPath(Module) /\ IsPath(p.path) /\ IsPath(q.path)
      BY DEF Code, SiteLegal, PackagesOK, PackageShape
    <3> QED BY <3>1, LayerOfPath
  <2>3. p.path # q.path
    BY <2>1, <2>2
  <2> QED BY <1>2, <1>3, <2>3
<1>9. \E r \in Design.rels : r.from = i /\ r.to = j
  <2>1. Placing # {}
    BY <1>5
  <2>2. <<i, j>> \notin Undeclared(Design, Placing)
    BY <2>1, JudgedIs
  <2> DEFINE e == <<i, j>>
  <2>3. e[1] = i /\ e[2] = j
    OBVIOUS
  <2> HIDE DEF e
  <2>4. \E r \in Design.rels : r.from = e[1] /\ r.to = e[2]
    BY <1>7, <1>8, <2>2, <2>3 DEF Undeclared, e
  <2> QED BY <2>3, <2>4
<1> QED BY <1>2, <1>3, <1>9

LEMMA FoundIs ==
    ASSUME NEW what, NEW rule \in {"", "mismatch"}
    PROVE  /\ Found(what, rule).pkgs = what
           /\ Found(what, rule).rule = "" => what # {} /\ rule = ""
           /\ what # {} => Found(what, rule).rule # "missing"
<1>1. Found(what, rule).pkgs = what /\ Found(what, rule).rule = IF what = {} THEN "missing" ELSE rule
  BY DEF Found
<1> QED BY <1>1

LEMMA BuiltIs ==
    ASSUME NEW id
    PROVE  LET match == BuiltMatch(Design, Placing, GoPackages, id)
           IN  /\ match.rule = "" => match.pkgs # {}
               /\ match.pkgs # {} => match.rule # "missing"
               /\ match.rule = "" => \/ match.pkgs = Owned(Design, Placing, id)
                                     \/ match.pkgs = Joined(Design, Placing, GoPackages, id)
<1> DEFINE match == BuiltMatch(Design, Placing, GoPackages, id)
           own == Owned(Design, Placing, id)
           joined == Joined(Design, Placing, GoPackages, id)
           other == Elsewhere(Design, Placing, id)
<1>1. match = Found(own, "") \/ match = Found(joined, "") \/ match = Found(other, "mismatch")
  BY DEF BuiltMatch
<1> HIDE DEF match, own, joined, other
<1> DEFINE Right == /\ match.rule = "" => match.pkgs # {}
                    /\ match.pkgs # {} => match.rule # "missing"
                    /\ match.rule = "" => match.pkgs = own \/ match.pkgs = joined
<1>2. ASSUME match = Found(own, "") PROVE Right
  BY <1>2, FoundIs
<1>3. ASSUME match = Found(joined, "") PROVE Right
  BY <1>3, FoundIs
<1>4. ASSUME match = Found(other, "mismatch") PROVE Right
  BY <1>4, FoundIs
<1> QED BY <1>1, <1>2, <1>3, <1>4, Zenon DEF match, own, joined

\* What a component that owes a package finds is its own.
LEMMA FoundIsMine ==
    ASSUME SiteLegal, PackagesOK, Judged, NEW id \in ToMatch(Design), Built(Design.comps[id]),
           Match(Design, Placing, GoPackages, id).rule = "",
           NEW x \in Match(Design, Placing, GoPackages, id).pkgs
    PROVE  \E p \in Code : x = PlaceOf(p) /\ Mine(id, p)
<1> DEFINE own == Owned(Design, Placing, id)
           joined == Joined(Design, Placing, GoPackages, id)
<1>1. Match(Design, Placing, GoPackages, id) = BuiltMatch(Design, Placing, GoPackages, id)
  BY DEF Match, Built
<1>2. x \in own \/ x \in joined
  BY <1>1, BuiltIs
<1>3. PICK p \in Classified(pkgs) : x = PlaceOf(p)
  <2>1. x \in Placing
    BY <1>2 DEF Owned, Joined
  <2> QED BY <2>1, PlacesAre
<1>4. p \in Code /\ LayerIndex(p.path) # 0
  BY <1>3, CodeIsPlaced DEF Classified
<1>5. x.at[2] = LayerOf(p.path).name /\ x.owner = Owner(Design, p) /\ x.path = p.path
  BY <1>3 DEF PlaceOf
<1>6. IsPath(p.path)
  BY <1>4 DEF Code, PackagesOK, PackageShape
<1>7. CASE x \in own
  <2>1. x.at[2] = Design.comps[id].layer /\ x.owner = Key(Design.comps[id].name)
    BY <1>7 DEF Owned
  <2> QED BY <1>3, <1>4, <1>5, <1>6, <2>1, OwnedIsMine
<1>8. CASE x \in joined
  <2>1. Design.comps[id].contract \in DOMAIN GoPackages /\ x.at[2] = Design.comps[id].layer
        /\ Realizes(x.path, GoPackages[Design.comps[id].contract])
    BY <1>8 DEF Joined
  <2>2. Mine(id, p)
    BY <1>5, <2>1, Zenon DEF Mine
  <2> QED BY <1>3, <1>4, <2>2
<1> QED BY <1>2, <1>7, <1>8

LEMMA DoneIsThere ==
    ASSUME SiteLegal, PackagesOK, Judged, pkgs # {}, NEW id \in DoneOf(Activities, rows)
    PROVE  \E p \in Code : Mine(id, p)
<1>1. PICK a \in Activities : a.comp = id
  BY DEF DoneOf, Covered
<1>2. /\ id \in ToMatch(Design) /\ Built(Design.comps[id]) /\ ~BrowserSurface(Design.comps[id])
      /\ ~(Design.comps[id].kind = "client" /\ Design.comps[id].protocol = "rest")
      /\ id \notin GeneratedClients(Design.comps)
  BY <1>1, Zenon DEF SiteLegal
<1>3. id \notin Pending \union LeftOut
  BY <1>2 DEF Pending, WithGeneratedClients, PendingOf, LeftOut, SkippedOf
<1>4. ~OwesNone(Design, id, Pending, LeftOut)
  BY <1>2, <1>3 DEF OwesNone
<1> DEFINE match == Match(Design, Placing, GoPackages, id)
<1>5. match.rule = ""
  <2>1. id \notin Misaligned(Design, Placing, GoPackages, Pending, LeftOut)
    BY CodeIsPlaced, JudgedIs
  <2> HIDE DEF match
  <2> QED BY <1>2, <1>4, <2>1 DEF Misaligned, match
<1>6. match.pkgs # {}
  <2>1. match = BuiltMatch(Design, Placing, GoPackages, id)
    BY <1>2 DEF Match, Built
  <2> HIDE DEF match
  <2> QED BY <1>5, <2>1, BuiltIs
<1>7. PICK x \in match.pkgs : TRUE
  BY <1>6
<1> QED BY <1>2, <1>5, <1>7, FoundIsMine

\* Nothing else is there, but what has the name of something that is.
LEMMA NamesakesOnly ==
    ASSUME SiteLegal, PackagesOK, Judged, NEW p \in Code, Key(Leaf(p.path)) # ""
    PROVE  \E q \in Code : /\ LayerOf(q.path) = LayerOf(p.path) /\ Key(Leaf(q.path)) = Key(Leaf(p.path))
                           /\ (\E id \in ToMatch(Design) : Mine(id, q)) \/ GeneratedTransport(q)
<1> DEFINE x == PlaceOf(p)
<1>1. x \in Placing /\ x.at = <<Key(Leaf(p.path)), LayerOf(p.path).name>>
  BY CodeIsPlaced, PlacesAre DEF PlaceOf
<1>2. Placing # {}
  BY <1>1
<1> HIDE DEF x
<1>3. x.at \in Accounted(Design, Placing, GoPackages)
  <2>1. x \notin Orphaned(Design, Placing, GoPackages)
    BY <1>2, JudgedIs
  <2>2. x.at[1] # ""
    <3>1. <<Key(Leaf(p.path)), LayerOf(p.path).name>>[1] = Key(Leaf(p.path))
      OBVIOUS
    <3> QED BY <1>1, <3>1
  <2> QED BY <1>1, <2>1, <2>2 DEF Orphaned
<1>4. PICK y \in (UNION {Match(Design, Placing, GoPackages, id).pkgs : id \in ToMatch(Design)})
                  \union {z \in Placing : z.transport} : y.at = x.at
  BY <1>3 DEF Accounted
<1>5. ASSUME NEW q \in Code, y = PlaceOf(q)
      PROVE  LayerOf(q.path) = LayerOf(p.path) /\ Key(Leaf(q.path)) = Key(Leaf(p.path))
  <2>1. y.at = <<Key(Leaf(q.path)), LayerOf(q.path).name>>
    BY <1>5 DEF PlaceOf
  <2>2. Key(Leaf(q.path)) = Key(Leaf(p.path)) /\ LayerOf(q.path).name = LayerOf(p.path).name
    <3>1. <<Key(Leaf(q.path)), LayerOf(q.path).name>> = <<Key(Leaf(p.path)), LayerOf(p.path).name>>
      BY <1>1, <1>4, <2>1
    <3> QED BY <3>1
  <2>3. LayerIndex(p.path) \in 1 .. 5 /\ LayerIndex(q.path) \in 1 .. 5
    <3>1. IsPath(Module) /\ IsPath(p.path) /\ IsPath(q.path)
      BY DEF Code, SiteLegal, PackagesOK, PackageShape
    <3> QED BY <3>1, CodeIsPlaced, LayerOfPath
  <2> QED BY <2>2, <2>3, LayersAre DEF LayerOf
<1>6. CASE y \in Placing /\ y.transport
  <2>1. PICK q \in Classified(pkgs) : y = PlaceOf(q)
    BY <1>6, PlacesAre
  <2>2. q \in Code /\ GeneratedTransport(q)
    BY <1>6, <2>1, CodeIsPlaced DEF PlaceOf
  <2> QED BY <1>5, <2>1, <2>2
<1>7. CASE \E id \in ToMatch(Design) : y \in Match(Design, Placing, GoPackages, id).pkgs
  <2>1. PICK id \in ToMatch(Design) : y \in Match(Design, Placing, GoPackages, id).pkgs
    BY <1>7
  <2> DEFINE match == Match(Design, Placing, GoPackages, id)
             own == Owned(Design, Placing, id)
  <2>2. match.rule = "" \/ match.rule = "missing"
    <3>1. id \notin Misaligned(Design, Placing, GoPackages, Pending, LeftOut)
      BY <1>2, JudgedIs
    <3> HIDE DEF match
    <3> QED BY <3>1 DEF Misaligned, match
  <2>3. Design.comps[id].status # "planned"
    <3>1. SUFFICES ASSUME Design.comps[id].status = "planned" PROVE FALSE
      OBVIOUS
    <3>2. match = [rule |-> IF own = {} THEN "" ELSE "stale", pkgs |-> own]
      BY <3>1, Zenon DEF Match
    <3> HIDE DEF match, own
    <3>3. match.pkgs = own /\ (own # {} => match.rule = "stale")
      BY <3>2
    <3> QED BY <2>1, <2>2, <3>3 DEF match
  <2>4. Design.comps[id].status # "external"
    <3>1. SUFFICES ASSUME Design.comps[id].status = "external" PROVE FALSE
      OBVIOUS
    <3>2. match.pkgs = {}
      BY <3>1 DEF Match
    <3> QED BY <2>1, <3>2
  <2>5. Built(Design.comps[id])
    BY <2>3, <2>4 DEF Built
  <2>6. match.rule = ""
    <3>1. match = BuiltMatch(Design, Placing, GoPackages, id)
      BY <2>3, <2>4 DEF Match
    <3>2. match.pkgs # {}
      BY <2>1
    <3> HIDE DEF match
    <3> QED BY <2>2, <3>1, <3>2, BuiltIs
  <2>7. PICK q \in Code : y = PlaceOf(q) /\ Mine(id, q)
    BY <2>1, <2>5, <2>6, FoundIsMine
  <2> QED BY <1>5, <2>7
<1> QED BY <1>4, <1>6, <1>7

LEMMA AcceptedIsCaught == ASSUME SiteLegal, PackagesOK PROVE DriftCaught
<1> SUFFICES ASSUME Judged
             PROVE  /\ \A p \in Code : LayerIndex(p.path) # 0
                    /\ \A p, q \in Code : q.path \in p.imports =>
                          /\ LayerIndex(p.path) < LayerIndex(q.path)
                          /\ {p.path, q.path} \subseteq Range(Paths) =>
                                \E r \in Design.rels : /\ {r.from, r.to} \subseteq ToMatch(Design)
                                                       /\ Paths[r.from] = p.path /\ Paths[r.to] = q.path
                    /\ pkgs # {} => \A id \in DoneOf(Activities, rows) : \E p \in Code : Mine(id, p)
                    /\ \A p \in Code : Key(Leaf(p.path)) # "" => \E q \in Code :
                          /\ LayerOf(q.path) = LayerOf(p.path) /\ Key(Leaf(q.path)) = Key(Leaf(p.path))
                          /\ (\E id \in ToMatch(Design) : Mine(id, q)) \/ GeneratedTransport(q)
  BY Zenon DEF DriftCaught, Code
<1>1. \A p \in Code : LayerIndex(p.path) # 0
  BY CodeIsPlaced
<1>2. ASSUME NEW p \in Code, NEW q \in Code, q.path \in p.imports
      PROVE  /\ LayerIndex(p.path) < LayerIndex(q.path)
             /\ {p.path, q.path} \subseteq Range(Paths) =>
                   \E r \in Design.rels : /\ {r.from, r.to} \subseteq ToMatch(Design)
                                          /\ Paths[r.from] = p.path /\ Paths[r.to] = q.path
  BY <1>2, DownOnly, CallsDeclared
<1> QED BY <1>1, <1>2, DoneIsThere, NamesakesOnly

-----------------------------------------------------------------------------
(* Paths stay paths, whatever lands and whatever is edited.                *)
LEMMA PathsArePaths == ASSUME SiteLegal, NEW id \in ToMatch(Design) PROVE IsPath(Paths[id])
<1> DEFINE c == Design.comps[id]
           dir == Layers[CHOOSE i \in DOMAIN Layers : Layers[i].name = c.layer].dir
<1>1. IsPath(Module) /\ \A k \in DOMAIN GoPackages : IsPath(GoPackages[k])
  BY Zenon DEF SiteLegal
<1>2. Paths[id] = IF c.contract \in DOMAIN GoPackages THEN Module \o GoPackages[c.contract]
                  ELSE Prefix \o <<dir, c.name>>
  BY DEF Paths
<1>3. ASSUME NEW s, NEW u, IsPath(s), IsPath(u) PROVE IsPath(s \o u)
  <2> DEFINE X == Range(s) \union Range(u)
  <2>1. s \in Seq(X) /\ u \in Seq(X) /\ s # <<>>
    BY <1>3 DEF IsPath
  <2> HIDE DEF X
  <2>2. s \o u \in Seq(X) /\ s \o u # <<>>
    BY <2>1
  <2> QED BY <2>2, SomePath
<1>4. CASE c.contract \in DOMAIN GoPackages
  <2> HIDE DEF c, dir
  <2> QED BY <1>1, <1>2, <1>3, <1>4
<1>5. CASE c.contract \notin DOMAIN GoPackages
  <2> HIDE DEF dir
  <2>1. IsPath(<<dir, c.name>>)
    <3> DEFINE X == {dir, c.name}
    <3>1. <<dir, c.name>> \in Seq(X) /\ <<dir, c.name>> # <<>>
      OBVIOUS
    <3> HIDE DEF X
    <3> QED BY <3>1, SomePath
  <2>2. IsPath(Prefix)
    BY <1>1, PrefixIs
  <2> HIDE DEF c
  <2> QED BY <1>2, <1>3, <1>5, <2>1, <2>2
<1> QED BY <1>4, <1>5

LEMMA LandingShape == ASSUME SiteLegal, NEW id \in ToMatch(Design), NEW p \in Landing(id) PROVE PackageShape(p)
<1>1. IsPath(Paths[id]) /\ IsPath(Module)
  BY PathsArePaths, Zenon DEF SiteLegal
<1>2. CASE p = CodeOf(id)
  BY <1>1, <1>2 DEF CodeOf, PackageShape
<1>3. CASE p = FakeOf(id)
  <2>1. IsPath(Paths[id] \o <<"fake">>)
    BY <1>1, Longer
  <2> QED BY <1>3, <2>1 DEF FakeOf, PackageShape
<1>4. CASE p \in TransportOf(id)
  <2>1. PICK r \in TransportRoots :
          p = [path |-> Module \o r \o <<Design.comps[id].name>>, imports |-> {Paths[id]},
               files |-> {Generated(<<"routes">>, {})}, tests |-> {}]
    BY <1>4 DEF TransportOf
  <2>2. IsPath(Module \o r)
    <3> DEFINE X == Range(Module) \union {"internal", "client", "web", "mcp"}
    <3>1. Module \in Seq(X) /\ Module # <<>>
      BY <1>1 DEF IsPath
    <3>2. \A x \in X, y \in X, z \in X : <<x, y, z>> \in Seq(X)
      BY SMT
    <3>3. r = <<"internal", "client", "web">> \/ r = <<"internal", "client", "mcp">>
      BY <2>1 DEF TransportRoots
    <3>4. r \in Seq(X)
      BY <3>2, <3>3
    <3> HIDE DEF X
    <3>5. Module \o r \in Seq(X) /\ Module \o r # <<>>
      BY <3>1, <3>4
    <3> QED BY <3>5, SomePath
  <2>3. IsPath(Module \o r \o <<Design.comps[id].name>>)
    BY <2>2, Longer
  <2> QED BY <2>1, <2>3 DEF PackageShape
<1> QED BY <1>2, <1>3, <1>4 DEF Landing

LEMMA DriftShape == ASSUME SiteLegal, PackagesOK, Drift PROVE PackagesOK'
<1>1. CASE \E p \in Strays : pkgs' = pkgs \union {p}
  <2>1. PICK p \in Strays : pkgs' = pkgs \union {p}
    BY <1>1
  <2>2. PackageShape(p)
    BY <2>1, Zenon DEF SiteLegal, PackageShape
  <2> QED BY <2>1, <2>2 DEF PackagesOK
<1>2. CASE \E p, q \in pkgs : pkgs' = Import(p, q)
  <2>1. PICK p \in pkgs, q \in pkgs : pkgs' = Import(p, q)
    BY <1>2
  <2> DEFINE new == [p EXCEPT !.imports = @ \union {q.path}]
  <2>2. PackageShape(new)
    BY DEF PackagesOK, PackageShape
  <2>3. pkgs' = (pkgs \ {p}) \union {new}
    BY <2>1 DEF Import
  <2> HIDE DEF new
  <2> QED BY <2>2, <2>3 DEF PackagesOK
<1>3. CASE \E p \in pkgs : pkgs' = pkgs \ {p}
  BY <1>3 DEF PackagesOK
<1>4. CASE \E p \in pkgs, i \in DOMAIN Layers : pkgs' = Move(p, Layers[i].dir)
  <2>0. PICK p \in pkgs : \E dir : pkgs' = Move(p, dir)
    BY <1>4
  <2>1. PICK dir : pkgs' = Move(p, dir)
    BY <2>0
  <2> DEFINE new == [p EXCEPT !.path[Len(Prefix) + 1] = dir]
             n == Len(Prefix) + 1
             X == Range(p.path) \union {dir}
  <2>2. PackageShape(p)
    BY DEF PackagesOK
  <2>3. DOMAIN new = DOMAIN p /\ new.path = [p.path EXCEPT ![n] = dir]
    BY <2>2 DEF PackageShape
  <2>4. IsPath([p.path EXCEPT ![n] = dir])
    <3>1. p.path \in Seq(X) /\ p.path # <<>> /\ dir \in X
      BY <2>2 DEF PackageShape, IsPath
    <3>2. PICK s : s = p.path
      OBVIOUS
    <3> HIDE DEF X, n
    <3>3. IsPath([s EXCEPT ![n] = dir])
      BY <3>1, <3>2, OneChanged
    <3> QED BY <3>2, <3>3
  <2>5. pkgs' = (pkgs \ {p}) \union {new}
    BY <2>1 DEF Move
  <2> HIDE DEF new
  <2>6. PackageShape(new)
    BY <2>2, <2>3, <2>4 DEF PackageShape
  <2> QED BY <2>5, <2>6 DEF PackagesOK
<1>5. CASE \E p, q \in pkgs : \E d \in Contracts(q) : pkgs' = Copy(p, d)
  <2>0. PICK p \in pkgs : \E d : pkgs' = Copy(p, d)
    BY <1>5
  <2>1. PICK d : pkgs' = Copy(p, d)
    BY <2>0
  <2> DEFINE files == {IF f.gen THEN f ELSE [f EXCEPT !.decls = {[d EXCEPT !.name = "Mine"]}] : f \in p.files}
  <2>2. pkgs' = (pkgs \ {p}) \union {[p EXCEPT !.files = files]}
    BY <2>1 DEF Copy
  <2> HIDE DEF files
  <2> DEFINE new == [p EXCEPT !.files = files]
  <2>3. PackageShape(new)
    BY DEF PackagesOK, PackageShape
  <2> HIDE DEF new
  <2> QED BY <2>2, <2>3 DEF PackagesOK, new
<1> QED BY <1>1, <1>2, <1>3, <1>4, <1>5 DEF Drift

\* align.go, arch.go: whatever lands, fails or is skipped, and whatever someone
\* edits by hand, a tree that the check accepts is still the design's: imports lead
\* down the layers, between two components only where the design has a call; what is
\* finished is there, and nothing but the components' packages, generated transport
\* and namesakes of theirs.
THEOREM DriftIsCaught == SiteLegal /\ SiteSpec => []DriftCaught
<1> SUFFICES ASSUME SiteLegal PROVE SiteSpec => []DriftCaught
  OBVIOUS
<1>1. InitSite => PackagesOK
  BY DEF InitSite, PackagesOK
<1>2. PackagesOK /\ [NextSite]_siteVars => PackagesOK'
  <2> SUFFICES ASSUME PackagesOK, [NextSite]_siteVars PROVE PackagesOK'
    OBVIOUS
  <2>1. CASE UNCHANGED pkgs
    BY <2>1 DEF PackagesOK
  <2>2. ASSUME NEW a \in Activities, Land(a) PROVE PackagesOK'
    <3>1. a.comp \in ToMatch(Design)
      BY Zenon DEF SiteLegal
    <3>2. \A p \in pkgs' : p \in pkgs \/ p \in Landing(a.comp)
      BY <2>2 DEF Land
    <3> QED BY <3>1, <3>2, LandingShape DEF PackagesOK
  <2>3. CASE Drift
    BY <2>3, DriftShape
  <2> QED BY <2>1, <2>2, <2>3 DEF NextSite, siteVars, Start, Complete, Abort, Skip
<1>3. PackagesOK => DriftCaught
  BY AcceptedIsCaught
<1> QED BY <1>1, <1>2, <1>3, PTL DEF SiteSpec

-----------------------------------------------------------------------------
(* No false alarm.  Where the packages are that activities write.          *)

Orderly == SiteLegal /\ SiteOrderly
\* The components that activities build; the paths of a Manager's transport.
Tended == {a.comp : a \in Activities}
TransportPath(id, r) == Module \o r \o <<Design.comps[id].name>>
Toward == {id \in ToMatch(Design) : Built(Design.comps[id])}

\* What activities build is built.
LEMMA TendedIsBuilt == ASSUME Orderly PROVE Tended \subseteq Toward
  BY Zenon DEF Orderly, SiteLegal, Tended, Toward

\* No two components have one key, and none has a double's.
LEMMA NamesAreOwn ==
    ASSUME Orderly, NEW id \in DOMAIN Design.comps
    PROVE  /\ Key(Design.comps[id].name) # "" /\ Key(Design.comps[id].name) # Key("fake")
           /\ \A other \in DOMAIN Design.comps : Key(Design.comps[other].name) = Key(Design.comps[id].name) => other = id
           /\ Design.comps[id].kind = Design.comps[id].layer
  BY Zenon DEF Orderly, SiteOrderly, KindIsLayer

\* Where a built component's package is: in its layer, under the name of a component
\* that owns it.
LEMMA BuiltPath ==
    ASSUME Orderly, NEW id \in Toward
    PROVE  /\ IsPath(Paths[id]) /\ LayerIndex(Paths[id]) \in 1 .. 5
           /\ LayerOf(Paths[id]).name = Design.comps[id].layer
           /\ Owners(id) # {}
           /\ \A own \in Owners(id) :
                /\ own \in Toward /\ Paths[own] = Paths[id]
                /\ Key(Leaf(Paths[id])) = Key(Design.comps[own].name)
                /\ Design.comps[own].layer = Design.comps[id].layer
<1>1. IsPath(Module) /\ IsPath(Paths[id])
  BY PathsArePaths, Zenon DEF Orderly, SiteLegal, Toward
<1>2. LayerIndex(Paths[id]) # 0 /\ LayerOf(Paths[id]).name = Design.comps[id].layer
      /\ \A own \in Owners(id) : Built(Design.comps[own])
  BY Zenon DEF Orderly, SiteOrderly, Toward
<1>3. LayerIndex(Paths[id]) \in 1 .. 5
  BY <1>1, <1>2, LayerOfPath
<1>4. Owners(id) # {}
  BY Zenon DEF Orderly, SiteLegal, Toward
<1>5. ASSUME NEW own \in Owners(id)
      PROVE  /\ own \in Toward /\ Paths[own] = Paths[id]
             /\ Key(Leaf(Paths[id])) = Key(Design.comps[own].name)
             /\ Design.comps[own].layer = Design.comps[id].layer
  <2>1. own \in ToMatch(Design) /\ Paths[own] = Paths[id] /\ LayerOf(Paths[own]).name = Design.comps[own].layer
        /\ Key(Leaf(Paths[own])) = Key(Design.comps[own].name)
    BY Zenon DEF Owners
  <2> QED BY <1>2, <2>1, Zenon DEF Toward
<1> QED BY <1>1, <1>2, <1>3, <1>4, <1>5

\* A package in a layer is in the module, and not Temporal's.
LEMMA BelowModule ==
    ASSUME SiteLegal, NEW path, IsPath(path), LayerIndex(path) # 0
    PROVE  path[1] = Module[1] /\ IsPrefix(Module, path) /\ ~Temporal(path)
<1>1. IsPath(Module) /\ ~Temporal(Module)
  BY Zenon DEF SiteLegal
<1>2. Len(path) > Len(Prefix) /\ \A i \in 1 .. Len(Prefix) : path[i] = Prefix[i]
  BY <1>1, LayerOfPath
<1>3. Len(Prefix) = Len(Module) + 1 /\ \A i \in 1 .. Len(Module) : Prefix[i] = Module[i]
  BY <1>1, PrefixIs
<1>4. Module \in Seq(Range(Module)) /\ Len(Module) \in Nat /\ Len(Module) > 0 /\ path \in Seq(Range(path))
  BY <1>1 DEF IsPath
<1>5. \A i \in 1 .. Len(Module) : path[i] = Module[i]
  BY <1>2, <1>3, <1>4
<1>6. path[1] = Module[1]
  BY <1>4, <1>5
<1>7. Len(Module) <= Len(path) /\ SubSeq(path, 1, Len(Module)) = Module
  <2>1. Len(Module) <= Len(path)
    BY <1>2, <1>3, <1>4
  <2>2. SubSeq(path, 1, Len(Module)) \in Seq(Range(path)) /\ Len(SubSeq(path, 1, Len(Module))) = Len(Module)
        /\ \A i \in 1 .. Len(Module) : SubSeq(path, 1, Len(Module))[i] = path[i]
    BY <1>4, <2>1
  <2> QED BY <1>4, <1>5, <2>1, <2>2
<1>8. IsPrefix(Module, path)
  BY <1>4, <1>7 DEF IsPrefix
<1> QED BY <1>1, <1>6, <1>8 DEF Temporal

\* What a concatenation is at each index.
LEMMA Concatenated ==
    ASSUME NEW X, NEW s \in Seq(X), NEW u \in Seq(X)
    PROVE  /\ s \o u \in Seq(X) /\ Len(s \o u) = Len(s) + Len(u)
           /\ (\A i \in 1 .. Len(s) : (s \o u)[i] = s[i]) /\ (\A i \in 1 .. Len(u) : (s \o u)[Len(s) + i] = u[i])
<1>1. s \o u \in Seq(X) /\ Len(s \o u) = Len(s) + Len(u)
  OBVIOUS
<1>2. \A i \in 1 .. Len(s) : (s \o u)[i] = s[i]
  OBVIOUS
<1>3. \A i \in 1 .. Len(u) : (s \o u)[Len(s) + i] = u[i]
  OBVIOUS
<1> QED BY <1>1, <1>2, <1>3

\* The segments of the path of generated transport.
LEMMA TransportIs ==
    ASSUME Orderly, NEW id \in ToMatch(Design), NEW r \in TransportRoots
    PROVE  LET path == TransportPath(id, r)
               n == Len(Module)
           IN  /\ IsPath(path) /\ LayerIndex(path) = 1 /\ n \in Nat /\ n > 0
               /\ Len(path) = n + 4 /\ Leaf(path) = Design.comps[id].name
               /\ \A i \in 1 .. n + 1 : path[i] = Prefix[i]
               /\ path[n + 2] = "client" /\ path[n + 3] = r[3] /\ r[3] \in {"web", "mcp"}
               /\ SubSeq(path, n + 1, n + 3) = r
<1> DEFINE path == TransportPath(id, r)
           n == Len(Module)
           name == Design.comps[id].name
           X == Range(Module) \union {"internal", "client", "web", "mcp", name}
<1>1. IsPath(Module)
  BY Zenon DEF Orderly, SiteLegal
<1>2. Module \in Seq(X) /\ Module # <<>> /\ n \in Nat /\ n > 0
  BY <1>1 DEF IsPath
<1>3. r = <<"internal", "client", r[3]>> /\ r[3] \in {"web", "mcp"}
  BY DEF TransportRoots
<1>4. r \in Seq(X) /\ Len(r) = 3 /\ r[1] = "internal" /\ r[2] = "client" /\ <<name>> \in Seq(X)
  <2>1. PICK x \in {"web", "mcp"} : r = <<"internal", "client", x>>
    BY <1>3
  <2>2. {"internal", "client", x, name} \subseteq X
    BY <2>1
  <2> HIDE DEF X, name
  <2>3. <<"internal", "client", x>> \in Seq(X) /\ <<name>> \in Seq(X)
    BY <2>2
  <2> QED BY <2>1, <2>3
<1> HIDE DEF X
<1>5. path = (Module \o r) \o <<name>>
  BY DEF TransportPath
<1> HIDE DEF path, name
<1>6. Module \o r \in Seq(X) /\ Len(Module \o r) = n + 3
      /\ (\A i \in 1 .. n : (Module \o r)[i] = Module[i]) /\ (\A i \in 1 .. 3 : (Module \o r)[n + i] = r[i])
  <2>0. Module \in Seq(X) /\ r \in Seq(X)
    BY <1>2, <1>4
  <2>1. /\ Module \o r \in Seq(X) /\ Len(Module \o r) = Len(Module) + Len(r)
        /\ (\A i \in 1 .. Len(Module) : (Module \o r)[i] = Module[i])
        /\ (\A i \in 1 .. Len(r) : (Module \o r)[Len(Module) + i] = r[i])
    BY ONLY <2>0, Concatenated
  <2> QED BY <1>4, <2>1
<1>7. path \in Seq(X) /\ Len(path) = n + 4 /\ path[n + 4] = name /\ \A i \in 1 .. n + 3 : path[i] = (Module \o r)[i]
  <2>1. PICK u : u = Module \o r
    OBVIOUS
  <2>2. u \o <<name>> \in Seq(X) /\ Len(u \o <<name>>) = n + 4 /\ (u \o <<name>>)[n + 4] = name
        /\ \A i \in 1 .. n + 3 : (u \o <<name>>)[i] = u[i]
    BY <1>2, <1>4, <1>6, <2>1
  <2> QED BY <1>5, <2>1, <2>2
<1>8. (\A i \in 1 .. n : path[i] = Module[i]) /\ path[n + 1] = "internal" /\ path[n + 2] = "client" /\ path[n + 3] = r[3]
  <2>1. (Module \o r)[n + 1] = r[1] /\ (Module \o r)[n + 2] = r[2] /\ (Module \o r)[n + 3] = r[3]
    BY <1>6
  <2>2. n + 1 \in 1 .. n + 3 /\ n + 2 \in 1 .. n + 3 /\ n + 3 \in 1 .. n + 3 /\ \A i \in 1 .. n : i \in 1 .. n + 3
    BY <1>2
  <2> QED BY <1>4, <1>6, <1>7, <2>1, <2>2
<1>9. Prefix \in Seq(Range(Prefix)) /\ Len(Prefix) = n + 1 /\ \A i \in 1 .. n : Prefix[i] = Module[i]
  BY <1>1, PrefixIs DEF IsPath
<1>10. Prefix[n + 1] = "internal"
  BY <1>1, Longer DEF Prefix
<1>11. \A i \in 1 .. n + 1 : path[i] = Prefix[i]
  BY <1>2, <1>8, <1>9, <1>10
<1>12. SubSeq(path, 1, Len(Prefix)) = Prefix
  <2>1. SubSeq(path, 1, n + 1) \in Seq(X) /\ Len(SubSeq(path, 1, n + 1)) = n + 1
        /\ \A i \in 1 .. n + 1 : SubSeq(path, 1, n + 1)[i] = path[i]
    BY <1>2, <1>7
  <2> QED BY <1>2, <1>9, <1>11, <2>1
<1>13. LayerIndex(path) = 1
  <2>0. Layers[1].dir = "client"
    BY DEF Layers
  <2>1. 1 \in DOMAIN Layers /\ Layers[1].dir = "client"
    BY <2>0, LayersAre
  <2>2. "client" \in {Layers[i].dir : i \in DOMAIN Layers}
    BY <2>1
  <2>3. "client" \in DOMAIN LayerNumber /\ LayerNumber["client"] = CHOOSE i \in DOMAIN Layers : Layers[i].dir = "client"
    BY <2>2, Zenon DEF LayerNumber
  <2>4. LayerNumber["client"] = 1
    BY <2>1, <2>3, LayersAre
  <2>5. Len(path) > Len(Prefix)
    BY <1>2, <1>7, <1>9
  <2>6. path[Len(Prefix) + 1] = "client"
    BY <1>2, <1>8, <1>9
  <2> QED BY <1>12, <2>3, <2>4, <2>5, <2>6 DEF LayerIndex
<1>14. IsPath(path)
  <2>1. path # <<>>
    BY <1>2, <1>7
  <2> QED BY <1>7, <2>1, SomePath
<1>15. Leaf(path) = name
  BY <1>7 DEF Leaf
<1>16. SubSeq(path, n + 1, n + 3) = r
  <2>1. SubSeq(path, n + 1, n + 3) \in Seq(X) /\ Len(SubSeq(path, n + 1, n + 3)) = 3
        /\ \A i \in 1 .. 3 : SubSeq(path, n + 1, n + 3)[i] = path[n + i]
    BY <1>2, <1>7
  <2>2. \A i \in 1 .. 3 : path[n + i] = r[i]
    BY <1>2, <1>4, <1>8
  <2> QED BY <1>4, <2>1, <2>2
<1> QED BY <1>2, <1>3, <1>7, <1>8, <1>11, <1>13, <1>14, <1>15, <1>16 DEF path, name

\* Whose a package is: the component's it is called like, or the generated client's.
LEMMA OwnedByLeaf ==
    ASSUME NEW own \in ToMatch(Design), NEW p, IsPath(p.path),
           LayerOf(p.path).name = Design.comps[own].layer, Key(Leaf(p.path)) = Key(Design.comps[own].name)
    PROVE  Owner(Design, p) = Key(Design.comps[own].name)
<1> DEFINE keys == {Key(Design.comps[x].name) : x \in {y \in ToMatch(Design) : Design.comps[y].layer = LayerOf(p.path).name}}
           is == {i \in DOMAIN p.path : Key(p.path[i]) \in keys}
           last0 == Len(p.path)
<1>1. p.path \in Seq(Range(p.path)) /\ p.path # <<>>
  BY DEF IsPath
<1>2. DOMAIN p.path = 1 .. last0 /\ last0 \in Nat /\ last0 > 0
  BY <1>1
<1>3. Key(p.path[last0]) \in keys
  BY DEF Leaf
<1>4. last0 \in is
  <2> HIDE DEF keys, last0
  <2> QED BY <1>2, <1>3
<1>5. is \in SUBSET (1 .. last0)
  BY <1>2
<1>6. Owner(Design, p) = IF is = {} THEN "" ELSE Key(p.path[Max(is)])
  BY Zenon DEF Owner
<1> HIDE DEF is
<1>7. Max(is) = last0
  <2> HIDE DEF last0
  <2>1. Max(is) \in is /\ \A j \in is : Max(is) >= j
    BY <1>2, <1>4, <1>5, Greatest
  <2>2. Max(is) \in 1 .. last0
    BY <1>5, <2>1
  <2>3. Max(is) >= last0
    BY <1>4, <2>1
  <2> QED BY <1>2, <2>2, <2>3
<1> QED BY <1>4, <1>6, <1>7 DEF Leaf

\* A Manager's transport is of the client called web or mcp, if of anyone.
LEMMA OwnedByRoot ==
    ASSUME Orderly, NEW id \in ToMatch(Design), Design.comps[id].kind = "manager", NEW r \in TransportRoots,
           NEW p, p.path = TransportPath(id, r)
    PROVE  /\ Owner(Design, p) \in {"", Key(r[3])}
           /\ \A c \in ToMatch(Design) : Design.comps[c].layer = "client" /\ Key(Design.comps[c].name) = Key(r[3]) =>
                 Owner(Design, p) = Key(Design.comps[c].name)
<1> DEFINE keys == {Key(Design.comps[x].name) : x \in {y \in ToMatch(Design) : Design.comps[y].layer = LayerOf(p.path).name}}
           is == {i \in DOMAIN p.path : Key(p.path[i]) \in keys}
           n == Len(Module)
<1>1. /\ IsPath(p.path) /\ LayerIndex(p.path) = 1 /\ n \in Nat /\ n > 0
      /\ Len(p.path) = n + 4 /\ Leaf(p.path) = Design.comps[id].name
      /\ \A i \in 1 .. n + 1 : p.path[i] = Prefix[i]
      /\ p.path[n + 2] = "client" /\ p.path[n + 3] = r[3]
  BY TransportIs
<1>2. Layers[1].name = "client" /\ Layers[1].dir = "client" /\ LayerOf(p.path).name = "client"
  <2>1. Layers[1].name = "client" /\ Layers[1].dir = "client"
    BY DEF Layers
  <2> QED BY <1>1, <2>1 DEF LayerOf
<1>3. DOMAIN p.path = 1 .. n + 4 /\ p.path[n + 4] = Design.comps[id].name
  <2>1. p.path \in Seq(Range(p.path))
    BY <1>1 DEF IsPath
  <2> QED BY <1>1, <2>1 DEF Leaf
<1>4. DOMAIN Prefix = 1 .. n + 1
  <2>1. IsPath(Module)
    BY Zenon DEF Orderly, SiteLegal
  <2> QED BY <2>1, PrefixIs DEF IsPath
<1>5. ASSUME NEW c \in ToMatch(Design), Design.comps[c].layer = "client", NEW i \in 1 .. n + 4,
             Key(p.path[i]) = Key(Design.comps[c].name)
      PROVE  i = n + 3
  <2>1. i \notin 1 .. n + 1
    <3>1. \A k \in DOMAIN Prefix : Key(Prefix[k]) # Key(Design.comps[c].name)
      BY Zenon DEF Orderly, SiteLegal
    <3> QED BY <1>1, <1>4, <1>5, <3>1
  <2>2. i # n + 2
    <3>1. PICK k \in DOMAIN Layers : Layers[k].name = Design.comps[c].layer /\ Key(Layers[k].dir) # Key(Design.comps[c].name)
      BY Zenon DEF Orderly, SiteLegal
    <3>2. k = 1
      BY <1>2, <1>5, <3>1, LayersAre
    <3> QED BY <1>1, <1>2, <1>5, <3>1, <3>2
  <2>3. i # n + 4
    <3>1. id \in DOMAIN Design.comps /\ c \in DOMAIN Design.comps
      BY DEF ToMatch
    <3>2. Design.comps[id].layer = "manager"
      BY <3>1, NamesAreOwn
    <3> QED BY <1>3, <1>5, <3>1, <3>2, NamesAreOwn
  <2> QED BY <1>1, <2>1, <2>2, <2>3
<1>6. is \subseteq {n + 3}
  BY <1>2, <1>3, <1>5
<1>7. Owner(Design, p) = IF is = {} THEN "" ELSE Key(p.path[Max(is)])
  BY Zenon DEF Owner
<1>8. is # {} => Max(is) = n + 3
  <2> HIDE DEF is
  <2> SUFFICES ASSUME is # {} PROVE Max(is) = n + 3
    OBVIOUS
  <2>1. is \in SUBSET (1 .. n + 4) /\ n + 4 \in Nat
    BY <1>1, <1>6
  <2>2. Max(is) \in is
    BY <2>1, Greatest
  <2> QED BY <1>6, <2>2
<1>9. ASSUME NEW c \in ToMatch(Design), Design.comps[c].layer = "client", Key(Design.comps[c].name) = Key(r[3])
      PROVE  is # {}
  <2>1. n + 3 \in DOMAIN p.path
    BY <1>1, <1>3
  <2>2. Key(Design.comps[c].name) \in keys
    BY <1>2, <1>9
  <2> HIDE DEF keys
  <2>3. Key(p.path[n + 3]) \in keys
    BY <1>1, <1>9, <2>2
  <2> QED BY <2>1, <2>3
<1> HIDE DEF is
<1> QED BY <1>1, <1>7, <1>8, <1>9

\* What is written beside a component's package is no component's package.
LEMMA FakeIsElsewhere ==
    ASSUME Orderly, NEW id \in Toward, NEW j \in Toward
    PROVE  Paths[j] # Paths[id] \o <<"fake">> /\ Leaf(Paths[id] \o <<"fake">>) = "fake"
<1>1. IsPath(Paths[id])
  BY BuiltPath
<1>2. Leaf(Paths[id] \o <<"fake">>) = "fake"
  BY <1>1, Longer DEF Leaf
<1>3. Key(Leaf(Paths[j])) # Key("fake")
  <2>1. PICK own \in Owners(j) : own \in Toward /\ Key(Leaf(Paths[j])) = Key(Design.comps[own].name)
    BY BuiltPath
  <2> QED BY <2>1, NamesAreOwn DEF Toward, ToMatch
<1> QED BY <1>2, <1>3

\* No component's package is where transport is generated.
LEMMA TransportIsElsewhere ==
    ASSUME Orderly, NEW id \in ToMatch(Design), Design.comps[id].kind = "manager", NEW r \in TransportRoots, NEW j \in Toward
    PROVE  Paths[j] # TransportPath(id, r)
<1> SUFFICES ASSUME Paths[j] = TransportPath(id, r) PROVE FALSE
  OBVIOUS
<1>1. LayerIndex(Paths[j]) = 1 /\ Leaf(Paths[j]) = Design.comps[id].name
  BY TransportIs
<1>2. PICK own \in Owners(j) : /\ own \in Toward /\ Key(Leaf(Paths[j])) = Key(Design.comps[own].name)
                               /\ Design.comps[own].layer = Design.comps[j].layer
  BY BuiltPath
<1>3. own = id
  BY <1>1, <1>2, NamesAreOwn DEF Toward, ToMatch
<1>4. LayerOf(Paths[j]).name = "client"
  <2>1. Layers[1].name = "client"
    BY DEF Layers
  <2> QED BY <1>1, <2>1 DEF LayerOf
<1>5. Design.comps[id].layer = "client"
  BY <1>2, <1>3, <1>4, BuiltPath
<1> QED BY <1>5, NamesAreOwn DEF ToMatch

-----------------------------------------------------------------------------
(* What is on disk while nobody edits it                                   *)

\* A component's code: what it imports was there when it landed.
IsCode(id, p) ==
    /\ p.path = Paths[id]
    /\ p.imports \subseteq {Paths[n] : n \in Needs(id)} \union {Runtime(LayerOf(Paths[id]))}
    /\ p.files = SourceOf(id, LayerOf(Paths[id]))
    /\ p.tests = {[name |-> <<LayerOf(Paths[id]).stereotype, "hooks">>, external |-> TRUE, imports |-> {Paths[id]}]}
Beside(id) == {FakeOf(id)} \union (IF Design.comps[id].kind = "manager" THEN TransportOf(id) ELSE {})

\* A package is the code of what an activity builds, or was generated beside it.
Planted ==
    \A p \in pkgs : \E id \in Tended : IsCode(id, p) \/ (p \in Beside(id) /\ \E q \in pkgs : IsCode(id, q))

\* With the first of the Managers there is transport.
Served ==
    \A id \in Tended : Design.comps[id].kind = "manager" /\ OnDisk(Paths[id]) =>
        \E m \in Tended : Design.comps[m].kind = "manager" /\ \A r \in TransportRoots : OnDisk(TransportPath(m, r))

\* What is done has landed.
Landed == \A a \in Activities : Completed(Row(a)) => OnDisk(Paths[a.comp])

RowType ==
    [attempts : SUBSET [task : {"construction"}, attempt : 1 .. MaxBuilds, outcome : {"", "passed", "failed", "skipped"}],
     completed : BOOLEAN, failure : BOOLEAN, tail : BOOLEAN, legacy : {""}]
RowsOK == \A n \in DOMAIN rows : rows[n] \in RowType

SiteInv == drift \in Nat /\ RowsOK /\ (drift = 0 => Planted /\ Served /\ Landed)

-----------------------------------------------------------------------------
(* Rows *)

\* A row, begun or not, has the shape of one.
LEMMA RowTyped == ASSUME RowsOK, NEW a PROVE Row(a) \in RowType
<1>1. NoRow \in RowType
  BY DEF NoRow, RowType
<1> QED BY <1>1 DEF Row, RowOf, RowsOK

\* A row that is put is its activity's alone: names are distinct.
LEMMA PutIs ==
    ASSUME Orderly, NEW a \in Activities, NEW row, Puts(a, row)
    PROVE  /\ Row(a)' = row
           /\ \A b \in Activities : b # a => Row(b)' = Row(b)
           /\ \A n \in DOMAIN rows' : rows'[n] = row \/ (n \in DOMAIN rows /\ rows'[n] = rows[n])
<1>1. rows' = [n \in DOMAIN rows \union {a.name} |-> IF n = a.name THEN row ELSE rows[n]]
  BY DEF Puts
<1>2. \A b \in Activities : b.name = a.name => b = a
  BY Zenon DEF Orderly, SiteOrderly
<1>3. \A n \in DOMAIN rows' : rows'[n] = row \/ (n \in DOMAIN rows /\ rows'[n] = rows[n])
  BY <1>1
<1>4. Row(a)' = row
  BY <1>1 DEF Row, RowOf
<1>5. ASSUME NEW b \in Activities, b # a PROVE Row(b)' = Row(b)
  <2>1. b.name # a.name
    BY <1>2, <1>5
  <2> QED BY <1>1, <2>1 DEF Row, RowOf
<1> QED BY <1>3, <1>4, <1>5

\* Attempts are numbered within their bound.
LEMMA TriesAre == ASSUME RowsOK, NEW a PROVE Tries(a) \in SUBSET (1 .. MaxBuilds)
<1>1. \A x \in Row(a).attempts : x.attempt \in 1 .. MaxBuilds
  <2>1. Row(a) \in RowType
    BY RowTyped
  <2>2. Row(a).attempts \in SUBSET [task : {"construction"}, attempt : 1 .. MaxBuilds, outcome : {"", "passed", "failed", "skipped"}]
    BY <2>1 DEF RowType
  <2> QED BY <2>2
<1> QED BY <1>1 DEF Tries

\* The latest attempt is one.
LEMMA TryIs ==
    ASSUME Orderly, RowsOK, NEW a, InFlight(a)
    PROVE  Try(a) \in Row(a).attempts
<1>1. Row(a) \in RowType /\ MaxBuilds \in Nat
  BY RowTyped, Zenon DEF Orderly, SiteOrderly
<1>2. Tries(a) \in SUBSET (1 .. MaxBuilds) /\ Tries(a) # {}
  BY <1>1, TriesAre DEF InFlight
<1>3. Max(Tries(a)) \in Tries(a) /\ \A j \in Tries(a) : Max(Tries(a)) >= j
  BY <1>1, <1>2, Greatest
<1>4. PICK x \in Row(a).attempts : x.attempt = Max(Tries(a))
  BY <1>3 DEF Tries
<1>5. \A j \in Tries(a) : j <= x.attempt
  <2>1. \A j \in Tries(a) : j \in Nat /\ Max(Tries(a)) \in Nat
    BY <1>2, <1>3
  <2> QED BY <1>3, <1>4, <2>1
<1> QED BY <1>5, Zenon DEF Try

\* The outcome of the attempt at hand.
LEMMA OutcomeIs ==
    ASSUME Orderly, RowsOK, NEW a, InFlight(a), NEW o \in {"passed", "failed", "skipped"}
    PROVE  /\ Outcome(a, o) \in SUBSET [task : {"construction"}, attempt : 1 .. MaxBuilds, outcome : {"", "passed", "failed", "skipped"}]
           /\ \E x \in Outcome(a, o) : x.outcome = o
<1>1. Row(a) \in RowType /\ Try(a) \in Row(a).attempts
  BY RowTyped, TryIs
<1> DEFINE T == [task : {"construction"}, attempt : 1 .. MaxBuilds, outcome : {"", "passed", "failed", "skipped"}]
           new == [Try(a) EXCEPT !.outcome = o]
<1>2. Row(a).attempts \in SUBSET T /\ Try(a) \in T
  BY <1>1 DEF RowType
<1>3. new \in T /\ new.outcome = o
  BY <1>2
<1>4. Outcome(a, o) = (Row(a).attempts \ {Try(a)}) \union {new}
  BY DEF Outcome
<1> HIDE DEF new, T
<1>5. Outcome(a, o) \in SUBSET T /\ new \in Outcome(a, o)
  BY <1>2, <1>3, <1>4
<1> QED BY <1>3, <1>5 DEF T

\* An attempt that begins completes nothing.
LEMMA StartKeeps ==
    ASSUME Orderly, RowsOK, NEW a \in Activities, Start(a)
    PROVE  RowsOK' /\ (Landed => Landed')
<1> DEFINE first == [task |-> "construction", attempt |-> Cardinality(Tries(a)) + 1, outcome |-> ""]
           row == [NoRow EXCEPT !.attempts = Row(a).attempts \union {first}]
<1>1. Puts(a, row) /\ pkgs' = pkgs /\ Cardinality(Tries(a)) < MaxBuilds
  BY DEF Start
<1>2. Row(a) \in RowType /\ MaxBuilds \in Nat
  BY RowTyped, Zenon DEF Orderly, SiteOrderly
<1>3. Cardinality(Tries(a)) + 1 \in 1 .. MaxBuilds
  <2>1. Tries(a) \subseteq 1 .. MaxBuilds
    BY TriesAre
  <2>2. IsFiniteSet(1 .. MaxBuilds)
    BY <1>2, FS_Interval
  <2>3. IsFiniteSet(Tries(a))
    BY <2>1, <2>2, FS_Subset
  <2>4. Cardinality(Tries(a)) \in Nat
    BY <2>3, FS_CardinalityType
  <2>5. PICK k \in Nat : k = Cardinality(Tries(a)) /\ k < MaxBuilds
    BY <1>1, <2>4, Zenon
  <2>6. k + 1 \in 1 .. MaxBuilds
    BY <1>2, <2>5
  <2> QED BY <2>5, <2>6
<1>4. row \in RowType /\ ~row.completed
  <2>1. first \in [task : {"construction"}, attempt : 1 .. MaxBuilds, outcome : {"", "passed", "failed", "skipped"}]
    BY <1>3
  <2> HIDE DEF first
  <2>2. Row(a).attempts \union {first} \in SUBSET [task : {"construction"}, attempt : 1 .. MaxBuilds, outcome : {"", "passed", "failed", "skipped"}]
    BY <1>2, <2>1 DEF RowType
  <2> QED BY <2>2 DEF RowType, NoRow
<1> HIDE DEF row
<1>5. RowsOK'
  BY <1>1, <1>4, PutIs DEF RowsOK
<1>6. ~Completed(Row(a)')
  BY <1>1, <1>4, PutIs DEF Completed
<1>7. \A b \in Activities : b # a => Row(b)' = Row(b)
  BY <1>1, PutIs
<1>8. Landed => Landed'
  BY <1>1, <1>6, <1>7 DEF Landed, OnDisk
<1> QED BY <1>5, <1>8

\* A row ends once its code is on disk, or failed, or skipped.
LEMMA EndKeeps ==
    ASSUME Orderly, RowsOK, NEW a \in Activities, Complete(a) \/ Abort(a) \/ Skip(a)
    PROVE  RowsOK' /\ (Landed => Landed')
<1>1. Row(a) \in RowType /\ InFlight(a) /\ pkgs' = pkgs
  BY RowTyped DEF Complete, Abort, Skip
<1>2. \E row : /\ Puts(a, row) /\ row \in RowType
               /\ Completed(row) => OnDisk(Paths[a.comp])
  <2>1. CASE Complete(a)
    <3> DEFINE row == [Row(a) EXCEPT !.attempts = Outcome(a, "passed"), !.completed = TRUE]
    <3>1. Puts(a, row) /\ OnDisk(Paths[a.comp])
      BY <2>1 DEF Complete
    <3>2. row \in RowType
      BY <1>1, OutcomeIs DEF RowType
    <3> QED BY <3>1, <3>2
  <2>2. CASE Abort(a)
    <3> DEFINE row == [Row(a) EXCEPT !.attempts = Outcome(a, "failed"), !.completed = TRUE, !.failure = TRUE]
    <3>1. Puts(a, row)
      BY <2>2 DEF Abort
    <3>2. row \in RowType /\ row.failure
      BY <1>1, OutcomeIs DEF RowType
    <3>3. ~Completed(row)
      BY <3>2 DEF Completed
    <3> QED BY <3>1, <3>2, <3>3
  <2>3. CASE Skip(a)
    <3> DEFINE row == [Row(a) EXCEPT !.attempts = Outcome(a, "skipped"), !.completed = TRUE]
    <3>1. Puts(a, row)
      BY <2>3 DEF Skip
    <3>2. row \in RowType /\ row.attempts = Outcome(a, "skipped")
      BY <1>1, OutcomeIs DEF RowType
    <3>3. ~Completed(row)
      <4>1. \E x \in Outcome(a, "skipped") : x.outcome = "skipped"
        BY <1>1, OutcomeIs
      <4> HIDE DEF row
      <4> QED BY <3>2, <4>1 DEF Completed, Skipped
    <3> QED BY <3>1, <3>2, <3>3
  <2> QED BY <2>1, <2>2, <2>3
<1>3. PICK row : Puts(a, row) /\ row \in RowType /\ (Completed(row) => OnDisk(Paths[a.comp]))
  BY <1>2
<1>4. RowsOK'
  BY <1>3, PutIs DEF RowsOK
<1>5. Row(a)' = row /\ \A b \in Activities : b # a => Row(b)' = Row(b)
  BY <1>3, PutIs
<1>6. Landed => Landed'
  BY <1>1, <1>3, <1>5 DEF Landed, OnDisk
<1> QED BY <1>4, <1>6

-----------------------------------------------------------------------------
(* What lands *)

\* What is generated for a Manager that is integrated.
LEMMA TransportsAre ==
    ASSUME NEW id, NEW p \in TransportOf(id)
    PROVE  \E r \in TransportRoots : /\ p.path = TransportPath(id, r) /\ p.imports = {Paths[id]} /\ p.tests = {}
                                     /\ p.files = {Generated(<<"routes">>, {})}
<1>1. PICK r \in TransportRoots :
        p = [path |-> Module \o r \o <<Design.comps[id].name>>, imports |-> {Paths[id]},
             files |-> {Generated(<<"routes">>, {})}, tests |-> {}]
  BY DEF TransportOf
<1> QED BY <1>1 DEF TransportPath

\* What lands for a component is its code and what is generated beside it.
LEMMA LandingIs ==
    ASSUME NEW id
    PROVE  /\ CodeOf(id) \in Landing(id) /\ IsCode(id, CodeOf(id)) /\ CodeOf(id).path = Paths[id]
           /\ \A p \in Landing(id) : p = CodeOf(id) \/ p \in Beside(id)
           /\ Design.comps[id].kind = "manager" => \A r \in TransportRoots : \E p \in Landing(id) : p.path = TransportPath(id, r)
<1>1. CodeOf(id).path = Paths[id] /\ IsCode(id, CodeOf(id))
  BY DEF CodeOf, IsCode
<1>2. CodeOf(id) \in Landing(id) /\ \A p \in Landing(id) : p = CodeOf(id) \/ p \in Beside(id)
  BY DEF Landing, Beside
<1>3. ASSUME Design.comps[id].kind = "manager", NEW r \in TransportRoots
      PROVE  \E p \in Landing(id) : p.path = TransportPath(id, r)
  <2> DEFINE p == [path |-> Module \o r \o <<Design.comps[id].name>>, imports |-> {Paths[id]},
                   files |-> {Generated(<<"routes">>, {})}, tests |-> {}]
  <2>1. p \in TransportOf(id)
    BY DEF TransportOf
  <2>2. p.path = TransportPath(id, r)
    BY DEF TransportPath
  <2> HIDE DEF p
  <2>3. p \in Landing(id)
    BY <1>3, <2>1 DEF Landing
  <2> QED BY <2>2, <2>3
<1> QED BY <1>1, <1>2, <1>3

\* Only a Manager's code is where a Manager's package is to be.
LEMMA PlaceOfManager ==
    ASSUME Orderly, NEW id \in Toward, NEW j \in Toward, NEW p, p = CodeOf(id) \/ p \in Beside(id), p.path = Paths[j]
    PROVE  p = CodeOf(id) /\ Paths[id] = Paths[j] /\ Design.comps[id].kind = Design.comps[j].kind
<1>1. p # FakeOf(id)
  <2>1. FakeOf(id).path = Paths[id] \o <<"fake">>
    BY DEF FakeOf
  <2> QED BY <2>1, FakeIsElsewhere
<1>2. ~(Design.comps[id].kind = "manager" /\ p \in TransportOf(id))
  BY TransportsAre, TransportIsElsewhere DEF Toward
<1>3. p = CodeOf(id)
  BY <1>1, <1>2 DEF Beside
<1>4. Paths[id] = Paths[j]
  BY <1>3, LandingIs
<1>5. Design.comps[id].layer = Design.comps[j].layer
  BY <1>4, BuiltPath
<1> QED BY <1>3, <1>4, <1>5, NamesAreOwn DEF Toward, ToMatch

\* Code that lands is a component's; the first Manager brings transport.
LEMMA LandKeeps ==
    ASSUME Orderly, Planted, Served, Landed, NEW a \in Activities, Land(a)
    PROVE  Planted' /\ Served' /\ Landed'
<1> DEFINE id == a.comp
<1>1. id \in Tended /\ Tended \subseteq Toward /\ id \in Toward
  BY TendedIsBuilt DEF Tended
<1> HIDE DEF id
<1>2. /\ ~OnDisk(Paths[id]) /\ rows' = rows
      /\ pkgs' = pkgs \union {p \in Landing(id) : ~OnDisk(p.path)}
  BY DEF Land, id
<1>3. CodeOf(id) \in pkgs'
  BY <1>2, LandingIs
<1>4. \A p \in pkgs' : p \in pkgs \/ p \in Landing(id)
  BY <1>2
<1>5. \A path : OnDisk(path) => OnDisk(path)'
  BY <1>2 DEF OnDisk
<1>6. \A p \in Landing(id) : OnDisk(p.path)'
  BY <1>2 DEF OnDisk
<1>7. Planted'
  <2>1. ASSUME NEW p \in pkgs'
        PROVE  \E j \in Tended : IsCode(j, p) \/ (p \in Beside(j) /\ \E q \in pkgs' : IsCode(j, q))
    <3>1. CASE p \in pkgs
      <4>1. PICK j \in Tended : IsCode(j, p) \/ (p \in Beside(j) /\ \E q \in pkgs : IsCode(j, q))
        BY <3>1 DEF Planted
      <4> QED BY <1>2, <4>1
    <3>2. CASE p \in Landing(id)
      BY <1>1, <1>3, <3>2, LandingIs
    <3> QED BY <1>4, <3>1, <3>2
  <2> QED BY <2>1 DEF Planted
<1>8. Served'
  <2>1. ASSUME NEW j \in Tended, Design.comps[j].kind = "manager", OnDisk(Paths[j])'
        PROVE  \E m \in Tended : Design.comps[m].kind = "manager" /\ \A r \in TransportRoots : OnDisk(TransportPath(m, r))'
    <3>1. CASE OnDisk(Paths[j])
      BY <1>5, <2>1, <3>1 DEF Served
    <3>2. CASE ~OnDisk(Paths[j])
      <4>1. PICK p \in Landing(id) : p.path = Paths[j]
        BY <1>4, <2>1, <3>2 DEF OnDisk
      <4>2. Design.comps[id].kind = "manager"
        BY <1>1, <2>1, <4>1, LandingIs, PlaceOfManager
      <4>3. \A r \in TransportRoots : OnDisk(TransportPath(id, r))'
        BY <1>6, <4>2, LandingIs
      <4> QED BY <1>1, <4>2, <4>3
    <3> QED BY <3>1, <3>2
  <2> QED BY <2>1 DEF Served
<1>9. Landed'
  <2>1. \A b : Row(b)' = Row(b)
    BY <1>2 DEF Row
  <2> QED BY <1>5, <2>1 DEF Landed
<1> QED BY <1>7, <1>8, <1>9

\* Every step of a site keeps the invariant.
LEMMA SiteStepKeeps == ASSUME Orderly PROVE SiteInv /\ [NextSite]_siteVars => SiteInv'
<1> SUFFICES ASSUME SiteInv, [NextSite]_siteVars PROVE SiteInv'
  OBVIOUS
<1>1. CASE UNCHANGED siteVars
  BY <1>1 DEF siteVars, SiteInv, RowsOK, Planted, Served, Landed, OnDisk, Row
<1>2. ASSUME NEW a \in Activities, Start(a) \/ Complete(a) \/ Abort(a) \/ Skip(a)
      PROVE  SiteInv'
  <2>1. RowsOK' /\ (Landed => Landed')
    BY <1>2, StartKeeps, EndKeeps DEF SiteInv
  <2>2. pkgs' = pkgs /\ drift' = drift
    BY <1>2 DEF Start, Complete, Abort, Skip
  <2>3. Planted => Planted'
    BY <2>2 DEF Planted
  <2>4. Served => Served'
    BY <2>2 DEF Served, OnDisk
  <2> QED BY <2>1, <2>2, <2>3, <2>4 DEF SiteInv
<1>3. ASSUME NEW a \in Activities, Land(a) PROVE SiteInv'
  <2>1. rows' = rows /\ drift' = drift
    BY <1>3 DEF Land
  <2>2. Planted /\ Served /\ Landed => Planted' /\ Served' /\ Landed'
    BY <1>3, LandKeeps
  <2> QED BY <2>1, <2>2 DEF SiteInv, RowsOK
<1>4. CASE Drift
  <2>1. rows' = rows /\ drift' = drift + 1
    BY <1>4 DEF Drift
  <2> QED BY <2>1 DEF SiteInv, RowsOK
<1> QED BY <1>1, <1>2, <1>3, <1>4 DEF NextSite

-----------------------------------------------------------------------------
(* The check of what is on disk                                            *)

\* A layer's name and its index.
LEMMA LayerNames ==
    ASSUME NEW path, LayerIndex(path) \in 1 .. 5
    PROVE  /\ LayerOf(path).name = "client" <=> LayerIndex(path) = 1
           /\ LayerOf(path).name = "manager" <=> LayerIndex(path) = 2
           /\ LayerOf(path).name = "engine" <=> LayerIndex(path) = 3
           /\ LayerOf(path).name = "resourceAccess" <=> LayerIndex(path) = 4
           /\ LayerOf(path).name = "utility" <=> LayerIndex(path) = 5
<1>1. LayerOf(path) = Layers[LayerIndex(path)] /\ DOMAIN Layers = 1 .. 5
  BY LayersAre DEF LayerOf
<1>2. Layers[1].name = "client" /\ Layers[2].name = "manager" /\ Layers[3].name = "engine"
      /\ Layers[4].name = "resourceAccess" /\ Layers[5].name = "utility"
  BY DEF Layers
<1> QED BY <1>1, <1>2

\* What a component needs is built, further down, and declared.
LEMMA NeedsAre ==
    ASSUME Orderly, NEW id \in Toward, NEW n \in Needs(id)
    PROVE  n \in Toward /\ LayerIndex(Paths[id]) < LayerIndex(Paths[n])
<1>1. PICK rel \in Design.rels : /\ rel.to = n /\ rel.from = id /\ Built(Design.comps[n])
                                 /\ RequiresImport(Design.comps[id], Design.comps[n], rel.mode)
  BY DEF Needs
<1>2. id \in DOMAIN Design.comps /\ n \in DOMAIN Design.comps
  <2>1. \A r \in Design.rels : Known(Design, r.to)
    BY Zenon DEF Orderly, SiteOrderly
  <2> QED BY <1>1, <2>1 DEF Known, Toward, ToMatch
<1> DEFINE f == Design.comps[id].kind
           k == Design.comps[n].kind
<1>3. \/ k = "utility" /\ f \in CoreKinds
      \/ f = "manager" /\ k \in {"engine", "resourceAccess"}
      \/ f = "engine" /\ k = "resourceAccess"
  BY <1>1 DEF RequiresImport
<1> HIDE DEF f, k
<1>4. n \in Toward
  <2>1. k # "resource"
    BY <1>3
  <2> QED BY <1>1, <1>2, <2>1, NamesAreOwn DEF Toward, ToMatch, k
<1>5. /\ LayerIndex(Paths[id]) \in 1 .. 5 /\ LayerOf(Paths[id]).name = f
      /\ LayerIndex(Paths[n]) \in 1 .. 5 /\ LayerOf(Paths[n]).name = k
  BY <1>2, <1>4, BuiltPath, NamesAreOwn DEF f, k
<1>6. f \in CoreKinds => f \in {"client", "manager", "engine", "resourceAccess"}
  BY DEF CoreKinds
<1> QED BY <1>3, <1>4, <1>5, <1>6, LayerNames

\* The kinds of packages there are.
LEMMA SourceIs ==
    ASSUME NEW id, NEW layer, NEW f \in SourceOf(id, layer)
    PROVE  \/ f = Generated(<<"contract">>, {Contract(id, layer.port)})
           \/ f = Written(<<Leaf(Paths[id]), layer.stereotype>>, <<>>, {})
           \/ layer.name = "manager" /\ f = Written(<<"sweep">>, <<[name |-> "sweep", entry |-> TRUE]>>, {})
  BY DEF SourceOf

\* A component's code is neither a double nor transport, and is in its layer.
LEMMA CodeIs ==
    ASSUME Orderly, NEW id \in Toward, NEW p, IsCode(id, p)
    PROVE  /\ ~GeneratedDouble(p) /\ ~GeneratedTransport(p)
           /\ IsPath(p.path) /\ p.path = Paths[id] /\ LayerIndex(p.path) \in 1 .. 5
           /\ LayerOf(p.path).name = Design.comps[id].layer
<1>1. p.path = Paths[id]
  BY DEF IsCode
<1>2. \E f \in p.files : ~f.gen
  <2> DEFINE f == Written(<<Leaf(Paths[id]), LayerOf(Paths[id]).stereotype>>, <<>>, {})
  <2>1. f \in p.files
    BY DEF IsCode, SourceOf
  <2>2. ~f.gen
    BY DEF Written
  <2> QED BY <2>1, <2>2
<1> QED BY <1>1, <1>2, BuiltPath DEF GeneratedDouble, GeneratedTransport

\* What is generated beside a port is a double.
LEMMA FakeIs == ASSUME Orderly, NEW id \in Toward PROVE GeneratedDouble(FakeOf(id))
<1>1. FakeOf(id).path = Paths[id] \o <<"fake">> /\ FakeOf(id).files = {Generated(<<"fake">>, {})}
  BY DEF FakeOf
<1>2. Generated(<<"fake">>, {}).gen
  BY DEF Generated
<1>3. Leaf(FakeOf(id).path) = "fake"
  BY <1>1, FakeIsElsewhere
<1> QED BY <1>1, <1>2, <1>3 DEF GeneratedDouble

\* Transport is in the clients' layer, under its Manager's name.
LEMMA TransportPackage ==
    ASSUME Orderly, NEW id \in ToMatch(Design), NEW r \in TransportRoots, NEW p, p.path = TransportPath(id, r)
    PROVE  /\ ~GeneratedDouble(p) /\ IsPath(p.path) /\ LayerIndex(p.path) = 1 /\ LayerOf(p.path).name = "client"
           /\ Leaf(p.path) = Design.comps[id].name
           /\ (\A f \in p.files : f.gen) => GeneratedTransport(p)
<1> DEFINE n == Len(Module)
<1>1. /\ IsPath(p.path) /\ LayerIndex(p.path) = 1 /\ n \in Nat /\ n > 0 /\ Len(p.path) = n + 4
      /\ Leaf(p.path) = Design.comps[id].name /\ SubSeq(p.path, n + 1, n + 3) = r
  BY TransportIs
<1> HIDE DEF n
<1>2. LayerOf(p.path).name = "client"
  BY <1>1, LayerNames
<1>3. ~GeneratedDouble(p)
  <2>1. Leaf(p.path) # "fake"
    BY <1>1, NamesAreOwn DEF ToMatch
  <2> QED BY <2>1 DEF GeneratedDouble
<1>4. ASSUME \A f \in p.files : f.gen PROVE GeneratedTransport(p)
  <2>1. PICK i : i = n + 1
    OBVIOUS
  <2>2. i \in 2 .. (Len(p.path) - 2) /\ SubSeq(p.path, i, i + 2) = r
    BY <1>1, <2>1
  <2> QED BY <1>4, <2>2 DEF GeneratedTransport
<1> QED BY <1>1, <1>2, <1>3, <1>4

\* What a package on disk may be.
LEMMA PlantedKinds ==
    ASSUME Orderly, Planted, NEW p \in pkgs
    PROVE  \E id \in Tended : /\ id \in Toward /\ \E q \in pkgs : IsCode(id, q)
                              /\ \/ IsCode(id, p)
                                 \/ p = FakeOf(id)
                                 \/ Design.comps[id].kind = "manager" /\ p \in TransportOf(id)
<1>1. PICK id \in Tended : IsCode(id, p) \/ (p \in Beside(id) /\ \E q \in pkgs : IsCode(id, q))
  BY DEF Planted
<1> QED BY <1>1, TendedIsBuilt DEF Beside

\* What is imported may be, by architecture and by the menu.
LEMMA ImportIs ==
    ASSUME Orderly, NEW id \in Toward, NEW p, IsCode(id, p), NEW ip \in p.imports
    PROVE  ~BadImport(p, ip) /\ ip \notin OffMenu(p)
<1>1. (\E n \in Needs(id) : ip = Paths[n]) \/ ip = Runtime(LayerOf(Paths[id]))
  BY DEF IsCode
<1>2. IsPath(p.path) /\ p.path = Paths[id] /\ LayerIndex(p.path) \in 1 .. 5
  BY CodeIs
<1>3. CASE \E n \in Needs(id) : ip = Paths[n]
  <2>1. PICK n \in Needs(id) : ip = Paths[n]
    BY <1>3
  <2>2. n \in Toward /\ LayerIndex(p.path) < LayerIndex(ip)
    BY <1>2, <2>1, NeedsAre
  <2>3. IsPath(ip) /\ LayerIndex(ip) \in 1 .. 5
    BY <2>1, <2>2, BuiltPath
  <2>4. IsPrefix(Module, ip) /\ ~Temporal(ip)
    BY <2>3, BelowModule DEF Orderly
  <2>5. ~BadImport(p, ip)
    BY <1>2, <2>2, <2>3, <2>4 DEF BadImport
  <2>6. Module \in Allowed
    BY DEF Allowed
  <2> QED BY <2>4, <2>5, <2>6 DEF OffMenu
<1>4. CASE ip = Runtime(LayerOf(Paths[id]))
  <2>1. "context" \notin Hosts /\ \E m \in Menu : IsPrefix(m, <<"go.temporal.io", "sdk">>)
    BY Zenon DEF Orderly, SiteOrderly
  <2>2. CASE LayerOf(Paths[id]).name = "manager"
    <3>1. ip = <<"go.temporal.io", "sdk">>
      BY <1>4, <2>2 DEF Runtime
    <3>2. ip[1] = "go.temporal.io"
      BY <3>1
    <3>3. ~BadImport(p, ip)
      BY <1>2, <2>2, <3>2 DEF BadImport, Temporal
    <3>4. \E m \in Allowed : IsPrefix(m, ip)
      BY <2>1, <3>1 DEF Allowed
    <3> QED BY <3>3, <3>4 DEF OffMenu
  <2>3. CASE LayerOf(Paths[id]).name # "manager"
    <3>1. ip = <<"context">>
      BY <1>4, <2>3 DEF Runtime
    <3>2. ip[1] = "context" /\ Len(ip) = 1
      BY <3>1
    <3>3. Len(Prefix) >= 2 /\ Len(Prefix) \in Nat
      <4>1. IsPath(Module)
        BY Zenon DEF Orderly, SiteLegal
      <4> QED BY <4>1, PrefixIs DEF IsPath
    <3>4. LayerIndex(ip) = 0
      <4>1. ~(Len(ip) > Len(Prefix))
        BY <3>2, <3>3
      <4> QED BY <4>1, Zenon DEF LayerIndex
    <3>5. ~BadImport(p, ip)
      BY <3>2, <3>4 DEF BadImport, Temporal
    <3> QED BY <2>1, <3>2, <3>5 DEF OffMenu
  <2> QED BY <2>2, <2>3
<1> QED BY <1>1, <1>3, <1>4

\* A package generated beside another imports that one.
LEMMA BesideIs ==
    ASSUME Orderly, NEW id \in Toward, NEW p, p.imports = {Paths[id]}
    PROVE  OffMenu(p) = {} /\ \A ip \in p.imports : LayerIndex(p.path) = 1 /\ Design.comps[id].kind = "manager" => ~BadImport(p, ip)
<1>1. IsPath(Paths[id]) /\ LayerIndex(Paths[id]) \in 1 .. 5 /\ LayerOf(Paths[id]).name = Design.comps[id].layer
  BY BuiltPath
<1>2. IsPrefix(Module, Paths[id]) /\ ~Temporal(Paths[id])
  BY <1>1, BelowModule DEF Orderly
<1>3. OffMenu(p) = {}
  <2>1. Module \in Allowed
    BY DEF Allowed
  <2> QED BY <1>2, <2>1 DEF OffMenu
<1>4. ASSUME LayerIndex(p.path) = 1, Design.comps[id].kind = "manager" PROVE ~BadImport(p, Paths[id])
  <2>1. LayerIndex(Paths[id]) = 2
    BY <1>1, <1>4, LayerNames, NamesAreOwn DEF Toward, ToMatch
  <2> QED BY <1>2, <1>4, <2>1 DEF BadImport
<1> QED BY <1>3, <1>4

\* A component's port is there, all its methods return an error.
LEMMA ContractOf ==
    ASSUME Orderly, NEW id \in Toward, NEW p, IsCode(id, p)
    PROVE  Decls(p) = {Contract(id, LayerOf(Paths[id]).port)} /\ GenDecls(p) = Decls(p) /\ HandDecls(p) = {}
<1> DEFINE layer == LayerOf(Paths[id])
           contract == Contract(id, layer.port)
           gen == Generated(<<"contract">>, {contract})
<1>1. p.files = SourceOf(id, layer)
  BY DEF IsCode
<1>2. gen \in p.files /\ gen.gen /\ gen.decls = {contract}
  BY <1>1 DEF SourceOf, Generated
<1>3. ASSUME NEW f \in p.files PROVE f = gen \/ (f.decls = {} /\ ~f.gen)
  <2>1. CASE f = Written(<<Leaf(Paths[id]), layer.stereotype>>, <<>>, {})
    BY <2>1 DEF Written
  <2>2. CASE f = Written(<<"sweep">>, <<[name |-> "sweep", entry |-> TRUE]>>, {})
    BY <2>2 DEF Written
  <2> QED BY <1>1, <1>3, <2>1, <2>2, SourceIs
<1> HIDE DEF contract, gen
<1>4. Decls(p) = {contract}
  BY <1>2, <1>3 DEF Decls
<1>5. GenDecls(p) = {contract}
  BY <1>2, <1>3 DEF GenDecls
<1>6. HandDecls(p) = {}
  BY <1>2, <1>3 DEF HandDecls
<1> QED BY <1>4, <1>5, <1>6 DEF contract

\* arch.go: imports lead down, and are on the menu; ports are ports.
LEMMA Wellbuilt ==
    ASSUME Orderly, Planted
    PROVE  Misbuilt(pkgs) = {}
<1> SUFFICES ASSUME NEW p \in pkgs
             PROVE  /\ OffMenu(p) = {}
                    /\ ~GeneratedDouble(p) => /\ LayerIndex(p.path) # 0 /\ (\A ip \in p.imports : ~BadImport(p, ip))
                                              /\ ~Portless(p)
  BY DEF Misbuilt
<1>1. PICK id \in Toward : IsCode(id, p) \/ p = FakeOf(id) \/ (Design.comps[id].kind = "manager" /\ p \in TransportOf(id))
  BY PlantedKinds
<1>2. CASE IsCode(id, p)
  <2>1. LayerIndex(p.path) \in 1 .. 5 /\ p.path = Paths[id]
    BY <1>2, CodeIs
  <2>2. \A ip \in p.imports : ~BadImport(p, ip) /\ ip \notin OffMenu(p)
    BY <1>2, ImportIs
  <2>3. OffMenu(p) = {}
    BY <2>2 DEF OffMenu
  <2>4. ~Portless(p)
    <3> DEFINE d == Contract(id, LayerOf(Paths[id]).port)
    <3>1. Decls(p) = {d}
      BY <1>2, ContractOf
    <3>2. d.kind = "interface" /\ d.port = LayerOf(p.path).port /\ d.errs
      BY <2>1 DEF Contract
    <3> HIDE DEF d
    <3>3. Interfaces(p) = {d}
      BY <3>1, <3>2 DEF Interfaces
    <3> QED BY <3>2, <3>3 DEF Portless
  <2> QED BY <2>1, <2>2, <2>3, <2>4
<1>3. CASE p = FakeOf(id)
  <2>1. p.imports = {Paths[id]}
    BY <1>3 DEF FakeOf
  <2> QED BY <1>3, <2>1, BesideIs, FakeIs
<1>4. CASE Design.comps[id].kind = "manager" /\ p \in TransportOf(id)
  <2>1. PICK r \in TransportRoots : p.path = TransportPath(id, r) /\ p.imports = {Paths[id]}
    BY <1>4, TransportsAre
  <2>2. LayerIndex(p.path) = 1
    BY <2>1, TransportPackage DEF Toward
  <2>3. LayerOf(p.path).port = ""
    <3>1. Layers[1].port = ""
      BY DEF Layers
    <3> QED BY <2>2, <3>1 DEF LayerOf
  <2>4. ~Portless(p)
    BY <2>3 DEF Portless
  <2> QED BY <1>4, <2>1, <2>2, <2>4, BesideIs
<1> QED BY <1>1, <1>2, <1>3, <1>4

\* contractdup.go, gensurface.go: contracts are declared once, and nothing leaks.
LEMMA Welldeclared ==
    ASSUME Orderly, Planted
    PROVE  Redeclared(pkgs) = {} /\ Overexposed(pkgs) = {}
<1>1. ASSUME NEW p \in pkgs PROVE GenDecls(p) = Decls(p) /\ HandDecls(p) = {}
  <2>1. PICK id \in Toward : IsCode(id, p) \/ p = FakeOf(id) \/ (Design.comps[id].kind = "manager" /\ p \in TransportOf(id))
    BY <1>1, PlantedKinds
  <2>2. CASE IsCode(id, p)
    BY <2>2, ContractOf
  <2>3. ASSUME NEW name, p.files = {Generated(name, {})} PROVE GenDecls(p) = Decls(p) /\ HandDecls(p) = {}
    <3>1. \A f \in p.files : f.gen
      BY <2>3 DEF Generated
    <3> QED BY <3>1 DEF GenDecls, Decls, HandDecls
  <2>4. CASE p = FakeOf(id)
    BY <2>3, <2>4 DEF FakeOf
  <2>5. CASE Design.comps[id].kind = "manager" /\ p \in TransportOf(id)
    BY <2>3, <2>5, TransportsAre
  <2> QED BY <2>1, <2>2, <2>4, <2>5
<1>2. Redeclared(pkgs) = {}
  <2>1. \A p \in pkgs : \A x \in Interfaces(p) : x \in Contracts(p)
    BY <1>1 DEF Interfaces, Contracts
  <2>2. \A p \in pkgs : \A x \in Interfaces(p) : x.name \in {d.name : d \in Contracts(p)}
    BY <2>1
  <2> QED BY <2>2 DEF Redeclared
<1>3. Overexposed(pkgs) = {}
  BY <1>1 DEF Overexposed, Leaked
<1> QED BY <1>2, <1>3

\* filelayout.go: files are those of a component's layer.
LEMMA Wellfiled ==
    ASSUME Orderly, Planted
    PROVE  BadLayout(pkgs) = {}
<1> SUFFICES ASSUME NEW p \in pkgs
             PROVE  (\A f \in p.files : f.gen \/ ~BadFile(p, f)) /\ (\A x \in p.tests : ~BadTest(p, x))
  BY DEF BadLayout
<1>1. PICK id \in Toward : IsCode(id, p) \/ p = FakeOf(id) \/ (Design.comps[id].kind = "manager" /\ p \in TransportOf(id))
  BY PlantedKinds
<1>2. CASE IsCode(id, p)
  <2> DEFINE layer == LayerOf(Paths[id])
  <2>1. p.path = Paths[id] /\ p.files = SourceOf(id, layer)
        /\ p.tests = {[name |-> <<layer.stereotype, "hooks">>, external |-> TRUE, imports |-> {Paths[id]}]}
    BY <1>2 DEF IsCode
  <2>2. ASSUME NEW f \in p.files PROVE f.gen \/ ~BadFile(p, f)
    <3>1. CASE f = Generated(<<"contract">>, {Contract(id, layer.port)})
      BY <3>1 DEF Generated
    <3>2. CASE f = Written(<<Leaf(Paths[id]), layer.stereotype>>, <<>>, {})
      <4>1. ~f.registers /\ f.name = ImplFile(p) /\ f.funcs = <<>>
        BY <2>1, <3>2 DEF Written, ImplFile
      <4> QED BY <4>1 DEF BadFile
    <3>3. CASE layer.name = "manager" /\ f = Written(<<"sweep">>, <<[name |-> "sweep", entry |-> TRUE]>>, {})
      <4>1. ~f.registers /\ f.name = <<"sweep">> /\ f.funcs = <<[name |-> "sweep", entry |-> TRUE]>>
        BY <3>3 DEF Written
      <4>2. f.name # ImplFile(p)
        BY <4>1 DEF ImplFile
      <4>3. f.funcs # <<>> /\ DOMAIN f.funcs = {1} /\ f.funcs[1].entry /\ f.funcs[1].name = "sweep"
        BY <4>1
      <4>4. {j \in DOMAIN f.funcs : f.funcs[j].entry} = {1}
        BY <4>3
      <4>5. WorkflowFile(p, f)
        BY <2>1, <3>3, <4>1, <4>3, <4>4 DEF WorkflowFile
      <4> QED BY <4>1, <4>2, <4>3, <4>5 DEF BadFile
    <3> QED BY <2>1, <2>2, <3>1, <3>2, <3>3, SourceIs
  <2>3. ASSUME NEW x \in p.tests PROVE ~BadTest(p, x)
    <3>1. x = [name |-> <<layer.stereotype, "hooks">>, external |-> TRUE, imports |-> {Paths[id]}]
      BY <2>1, <2>3
    <3>2. x.name = <<LayerOf(p.path).stereotype, "hooks">> /\ x.external /\ x.imports = {p.path}
      BY <2>1, <3>1
    <3> QED BY <3>2 DEF BadTest, HooksMayImport
  <2> QED BY <2>2, <2>3
<1>3. ASSUME NEW name, p.files = {Generated(name, {})}, p.tests = {}
      PROVE  (\A f \in p.files : f.gen \/ ~BadFile(p, f)) /\ (\A x \in p.tests : ~BadTest(p, x))
  BY <1>3 DEF Generated
<1>4. CASE p = FakeOf(id)
  BY <1>3, <1>4 DEF FakeOf
<1>5. CASE Design.comps[id].kind = "manager" /\ p \in TransportOf(id)
  BY <1>3, <1>5, TransportsAre
<1> QED BY <1>1, <1>2, <1>4, <1>5

-----------------------------------------------------------------------------
(* The check of the code against the design                                *)

\* Pairs are equal by their parts.
LEMMA KeyPair == ASSUME NEW x, NEW y, NEW u, NEW v PROVE (<<x, y>> = <<u, v>>) <=> (x = u /\ y = v)
  OBVIOUS

\* Where the code of a component is, and whose it is.
LEMMA CodeIsOwned ==
    ASSUME Orderly, NEW id \in Toward, NEW p \in pkgs, IsCode(id, p), NEW own \in Owners(id)
    PROVE  /\ PlaceOf(p) \in Owned(Design, Placing, own) /\ own \in Toward
           /\ PlaceOf(p) \in Placing /\ PlaceOf(p).comp = {own} /\ PlaceOf(p).owner = Key(Design.comps[own].name)
           /\ PlaceOf(p).at = <<Key(Design.comps[own].name), Design.comps[id].layer>>
<1>1. /\ ~GeneratedDouble(p) /\ IsPath(p.path) /\ p.path = Paths[id] /\ LayerIndex(p.path) \in 1 .. 5
      /\ LayerOf(p.path).name = Design.comps[id].layer
  BY CodeIs
<1>2. /\ own \in Toward /\ Key(Leaf(p.path)) = Key(Design.comps[own].name) /\ Design.comps[own].layer = Design.comps[id].layer
      /\ own \in ToMatch(Design) /\ own \in DOMAIN Design.comps
  BY <1>1, BuiltPath DEF Toward, ToMatch
<1>3. PlaceOf(p) \in Placing
  <2>1. p \in Classified(pkgs)
    BY <1>1 DEF Classified
  <2> QED BY <2>1, PlacesAre
<1>4. PlaceOf(p).owner = Key(Design.comps[own].name)
  <2>1. PlaceOf(p).owner = Owner(Design, p)
    BY DEF PlaceOf
  <2> QED BY <1>1, <1>2, <2>1, OwnedByLeaf
<1>5. PlaceOf(p).at = <<Key(Design.comps[own].name), Design.comps[id].layer>>
  BY <1>1, <1>2 DEF PlaceOf
<1>6. PlaceOf(p).comp = {own}
  <2>1. PlaceOf(p).comp = {c \in DOMAIN Design.comps : Key(Leaf(p.path)) # ""
                 /\ <<Key(Design.comps[c].name), Design.comps[c].layer>> = <<Key(Leaf(p.path)), LayerOf(p.path).name>>}
    BY DEF PlaceOf
  <2>2. \A c \in DOMAIN Design.comps : Key(Design.comps[c].name) = Key(Leaf(p.path)) => c = own
    BY <1>2, NamesAreOwn
  <2>3. Key(Leaf(p.path)) # ""
    BY <1>2, NamesAreOwn
  <2>4. <<Key(Design.comps[own].name), Design.comps[own].layer>> = <<Key(Leaf(p.path)), LayerOf(p.path).name>>
    BY <1>1, <1>2
  <2>5. \A c \in DOMAIN Design.comps :
          <<Key(Design.comps[c].name), Design.comps[c].layer>> = <<Key(Leaf(p.path)), LayerOf(p.path).name>> => c = own
    BY <2>2, KeyPair
  <2> QED BY <1>2, <2>1, <2>3, <2>4, <2>5
<1>7. PlaceOf(p).at[2] = Design.comps[own].layer
  BY <1>2, <1>5
<1> QED BY <1>2, <1>3, <1>4, <1>5, <1>6, <1>7 DEF Owned

\* The same of transport.
LEMMA TransportIsPlaced ==
    ASSUME Orderly, NEW id \in Toward, Design.comps[id].kind = "manager", NEW r \in TransportRoots,
           NEW p \in pkgs, p.path = TransportPath(id, r)
    PROVE  /\ PlaceOf(p) \in Placing /\ PlaceOf(p).comp = {} /\ PlaceOf(p).at = <<Key(Design.comps[id].name), "client">>
           /\ PlaceOf(p).owner = Owner(Design, p)
<1>1. id \in ToMatch(Design) /\ id \in DOMAIN Design.comps /\ Design.comps[id].layer = "manager"
  BY NamesAreOwn DEF Toward, ToMatch
<1>2. /\ ~GeneratedDouble(p) /\ LayerIndex(p.path) = 1 /\ LayerOf(p.path).name = "client"
      /\ Leaf(p.path) = Design.comps[id].name
  BY <1>1, TransportPackage
<1>3. PlaceOf(p) \in Placing
  <2>1. p \in Classified(pkgs)
    BY <1>2 DEF Classified
  <2> QED BY <2>1, PlacesAre
<1>4. PlaceOf(p).at = <<Key(Design.comps[id].name), "client">> /\ PlaceOf(p).owner = Owner(Design, p)
  BY <1>2 DEF PlaceOf
<1>5. PlaceOf(p).comp = {}
  <2>1. PlaceOf(p).comp = {c \in DOMAIN Design.comps : Key(Leaf(p.path)) # ""
                 /\ <<Key(Design.comps[c].name), Design.comps[c].layer>> = <<Key(Leaf(p.path)), LayerOf(p.path).name>>}
    BY DEF PlaceOf
  <2>2. \A c \in DOMAIN Design.comps : Key(Design.comps[c].name) = Key(Leaf(p.path)) => c = id
    BY <1>1, <1>2, NamesAreOwn
  <2> QED BY <1>1, <1>2, <2>1, <2>2, KeyPair
<1> QED BY <1>3, <1>4, <1>5

\* What a placed package is: a component's code or generated transport.
LEMMA PlacedKinds ==
    ASSUME Orderly, Planted, NEW x \in Placing
    PROVE  \E p \in pkgs, id \in Tended :
              /\ x = PlaceOf(p) /\ id \in Toward /\ LayerIndex(p.path) # 0 /\ \E q \in pkgs : IsCode(id, q)
              /\ \/ IsCode(id, p)
                 \/ /\ Design.comps[id].kind = "manager" /\ p \in TransportOf(id)
                    /\ \E r \in TransportRoots : p.path = TransportPath(id, r)
<1>1. PICK p \in Classified(pkgs) : x = PlaceOf(p)
  BY PlacesAre
<1>2. p \in pkgs /\ ~GeneratedDouble(p) /\ LayerIndex(p.path) # 0
  BY <1>1 DEF Classified
<1>3. PICK id \in Tended : /\ id \in Toward /\ \E q \in pkgs : IsCode(id, q)
                           /\ \/ IsCode(id, p)
                              \/ p = FakeOf(id)
                              \/ Design.comps[id].kind = "manager" /\ p \in TransportOf(id)
  BY <1>2, PlantedKinds
<1>4. p # FakeOf(id)
  BY <1>2, <1>3, FakeIs
<1>5. p \in TransportOf(id) => \E r \in TransportRoots : p.path = TransportPath(id, r)
  BY TransportsAre
<1> QED BY <1>1, <1>2, <1>3, <1>4, <1>5

\* At a component's path is some component's code.
LEMMA CodeAtPath ==
    ASSUME Orderly, Planted, NEW j \in Toward, NEW p \in pkgs, p.path = Paths[j]
    PROVE  \E id \in Toward : IsCode(id, p) /\ Paths[id] = Paths[j]
<1>1. PICK id \in Tended : /\ id \in Toward
                           /\ \/ IsCode(id, p)
                              \/ p = FakeOf(id)
                              \/ Design.comps[id].kind = "manager" /\ p \in TransportOf(id)
  BY PlantedKinds
<1>2. p # FakeOf(id)
  <2>1. FakeOf(id).path = Paths[id] \o <<"fake">>
    BY DEF FakeOf
  <2> QED BY <1>1, <2>1, FakeIsElsewhere
<1>3. ~(Design.comps[id].kind = "manager" /\ p \in TransportOf(id))
  BY <1>1, TransportsAre, TransportIsElsewhere DEF Toward
<1> QED BY <1>1, <1>2, <1>3 DEF IsCode

\* Components that share a package share its owners.
LEMMA SamePathOwners == ASSUME NEW i, NEW j, Paths[i] = Paths[j] PROVE Owners(i) = Owners(j)
  BY DEF Owners

\* Nothing is found of what is planned.
LEMMA PlannedIsAbsent ==
    ASSUME Orderly, Planted, NEW id \in ToMatch(Design), Design.comps[id].status = "planned"
    PROVE  Owned(Design, Placing, id) = {}
<1> SUFFICES ASSUME NEW x \in Placing, x.at[2] = Design.comps[id].layer, x.owner = Key(Design.comps[id].name)
             PROVE  FALSE
  BY DEF Owned
<1>1. id \in DOMAIN Design.comps
  BY DEF ToMatch
<1>2. PICK p \in pkgs, j \in Tended :
              /\ x = PlaceOf(p) /\ j \in Toward
              /\ \/ IsCode(j, p)
                 \/ Design.comps[j].kind = "manager" /\ \E r \in TransportRoots : p.path = TransportPath(j, r)
  BY PlacedKinds
<1>3. CASE IsCode(j, p)
  <2>1. PICK own \in Owners(j) : TRUE
    BY <1>2, BuiltPath
  <2>2. own \in Toward /\ x.owner = Key(Design.comps[own].name)
    BY <1>2, <1>3, CodeIsOwned
  <2>3. own = id
    BY <1>1, <2>2, NamesAreOwn DEF Toward, ToMatch
  <2> QED BY <2>2, <2>3 DEF Toward, Built
<1>4. CASE Design.comps[j].kind = "manager" /\ \E r \in TransportRoots : p.path = TransportPath(j, r)
  <2>1. PICK r \in TransportRoots : p.path = TransportPath(j, r)
    BY <1>4
  <2>2. x.at = <<Key(Design.comps[j].name), "client">> /\ x.owner = Owner(Design, p)
    BY <1>2, <1>4, <2>1, TransportIsPlaced
  <2>3. Owner(Design, p) \in {"", Key(r[3])} /\ r[3] \in {"web", "mcp"}
    BY <1>2, <1>4, <2>1, OwnedByRoot, TransportIs DEF Toward
  <2>4. Key(Design.comps[id].name) \in Transports /\ Design.comps[id].kind = "client"
    <3>1. Design.comps[id].layer = "client"
      BY <2>2
    <3>2. Key(Design.comps[id].name) # "" /\ Design.comps[id].kind = Design.comps[id].layer
      BY <1>1, NamesAreOwn
    <3>3. Key(Design.comps[id].name) = Key(r[3])
      BY <2>2, <2>3, <3>2
    <3> QED BY <2>3, <3>1, <3>2, <3>3 DEF Transports
  <2>5. ~(Design.comps[id].status = "planned" /\ Design.comps[id].kind = "client" /\ Key(Design.comps[id].name) \in Transports)
    BY <1>1, Zenon DEF Orderly, SiteOrderly
  <2> QED BY <2>4, <2>5
<1> QED BY <1>2, <1>3, <1>4

\* A component's own package is called like it, unless its contract names another.
LEMMA OwnPath ==
    ASSUME Orderly, NEW id \in Toward, Design.comps[id].contract \notin DOMAIN GoPackages
    PROVE  id \in Owners(id)
<1> DEFINE dir == Layers[CHOOSE i \in DOMAIN Layers : Layers[i].name = Design.comps[id].layer].dir
           name == Design.comps[id].name
<1>1. id \in ToMatch(Design)
  BY DEF Toward
<1>2. Paths[id] = Prefix \o <<dir, name>>
  BY <1>1 DEF Paths
<1>3. IsPath(Prefix)
  BY PrefixIs, Zenon DEF Orderly, SiteLegal
<1> DEFINE X == Range(Prefix) \union {dir, name}
<1>4. Prefix \in Seq(X) /\ <<dir, name>> \in Seq(X)
  <2>1. Prefix \in Seq(X)
    BY <1>3 DEF IsPath
  <2>2. dir \in X /\ name \in X
    OBVIOUS
  <2> HIDE DEF X, dir, name
  <2>3. <<dir, name>> \in Seq(X)
    BY <2>2
  <2> QED BY <2>1, <2>3
<1> HIDE DEF X, dir, name
<1>5. /\ Prefix \o <<dir, name>> \in Seq(X)
      /\ Len(Prefix \o <<dir, name>>) = Len(Prefix) + Len(<<dir, name>>)
      /\ \A i \in 1 .. Len(<<dir, name>>) : (Prefix \o <<dir, name>>)[Len(Prefix) + i] = <<dir, name>>[i]
  BY ONLY <1>4, Concatenated
<1>6. Len(<<dir, name>>) = 2 /\ <<dir, name>>[2] = name /\ 2 \in 1 .. 2
  OBVIOUS
<1>7. Leaf(Paths[id]) = name
  <2>1. (Prefix \o <<dir, name>>)[Len(Prefix) + 2] = name
    BY <1>5, <1>6
  <2> QED BY <1>2, <1>5, <1>6, <2>1 DEF Leaf
<1>8. LayerOf(Paths[id]).name = Design.comps[id].layer
  BY BuiltPath
<1> QED BY <1>1, <1>7, <1>8 DEF Owners, name

\* A path ends with what was appended to it.
LEMMA SuffixOf ==
    ASSUME NEW s, IsPath(s), NEW u, IsPath(u)
    PROVE  IsSuffix(u, s \o u)
<1> DEFINE X == Range(s) \union Range(u)
<1>1. s \in Seq(X) /\ u \in Seq(X)
  BY DEF IsPath
<1> HIDE DEF X
<1> DEFINE w == s \o u
           k == Len(s)
           m == Len(u)
<1>2. /\ w \in Seq(X) /\ Len(w) = k + m /\ k \in Nat /\ m \in Nat
      /\ \A i \in 1 .. m : w[k + i] = u[i]
  <2>1. /\ s \o u \in Seq(X) /\ Len(s \o u) = Len(s) + Len(u)
        /\ \A i \in 1 .. Len(u) : (s \o u)[Len(s) + i] = u[i]
    BY ONLY <1>1, Concatenated
  <2> QED BY <1>1, <2>1
<1> HIDE DEF w, k, m
<1>3. Reverse(w) = [i \in 1 .. k + m |-> w[k + m - i + 1]]
  BY <1>2 DEF Reverse
<1>4. Reverse(u) = [i \in 1 .. m |-> u[m - i + 1]]
  BY <1>1, <1>2 DEF Reverse, m
<1>5. Reverse(w) \in Seq(X) /\ Len(Reverse(w)) = k + m
  <2>1. \A i \in 1 .. k + m : w[k + m - i + 1] \in X
    BY <1>2
  <2> QED BY <1>2, <1>3, <2>1
<1>6. Reverse(u) \in Seq(X) /\ Len(Reverse(u)) = m
  <2>1. \A i \in 1 .. m : u[m - i + 1] \in X
    BY <1>1, <1>2 DEF m
  <2> QED BY <1>2, <1>4, <2>1
<1>7. \A i \in 1 .. m : Reverse(w)[i] = Reverse(u)[i]
  <2> SUFFICES ASSUME NEW i \in 1 .. m PROVE Reverse(w)[i] = Reverse(u)[i]
    OBVIOUS
  <2>1. m - i + 1 \in 1 .. m /\ k + m - i + 1 = k + (m - i + 1) /\ i \in 1 .. k + m
    BY <1>2
  <2>2. w[k + (m - i + 1)] = u[m - i + 1]
    BY <1>2, <2>1
  <2> QED BY <1>3, <1>4, <2>1, <2>2
<1>8. SubSeq(Reverse(w), 1, m) = Reverse(u) /\ m <= k + m
  <2>1. SubSeq(Reverse(w), 1, m) \in Seq(X) /\ Len(SubSeq(Reverse(w), 1, m)) = m
        /\ \A i \in 1 .. m : SubSeq(Reverse(w), 1, m)[i] = Reverse(w)[i]
    BY <1>2, <1>5
  <2> QED BY <1>2, <1>6, <1>7, <2>1
<1>9. IsPrefix(Reverse(u), Reverse(w))
  BY <1>2, <1>5, <1>6, <1>8 DEF IsPrefix
<1> QED BY <1>9 DEF IsSuffix, w

\* A built component is found in its layer or not at all; if its path is on disk it
\* is found.
LEMMA BuiltIsFound ==
    ASSUME Orderly, Planted, NEW id \in Toward
    PROVE  LET match == BuiltMatch(Design, Placing, GoPackages, id)
           IN  /\ match.rule \in {"", "missing"}
               /\ OnDisk(Paths[id]) \/ Owned(Design, Placing, id) # {} => match.rule = ""
               /\ Owned(Design, Placing, id) # {} => match.pkgs = Owned(Design, Placing, id)
<1> DEFINE match == BuiltMatch(Design, Placing, GoPackages, id)
           mine == Owned(Design, Placing, id)
           joined == Joined(Design, Placing, GoPackages, id)
           other == Elsewhere(Design, Placing, id)
           k == Design.comps[id].contract
<1>0. id \in ToMatch(Design) /\ id \in DOMAIN Design.comps
  BY DEF Toward, ToMatch
<1>1. CASE mine # {}
  <2>1. match = Found(mine, "")
    BY <1>1 DEF BuiltMatch
  <2> HIDE DEF match, mine
  <2>2. match.rule = "" /\ match.pkgs = mine
    BY <1>1, <2>1 DEF Found
  <2> QED BY <2>2 DEF match, mine
<1>2. CASE mine = {} /\ Joins(Design, GoPackages, id)
  <2>1. match = Found(joined, "")
    BY <1>2 DEF BuiltMatch
  <2>2. ASSUME OnDisk(Paths[id]) PROVE joined # {}
    <3>1. PICK p \in pkgs : p.path = Paths[id]
      BY <2>2 DEF OnDisk
    <3>2. PICK j \in Toward : IsCode(j, p) /\ Paths[j] = Paths[id]
      BY <3>1, CodeAtPath
    <3>3. PICK own \in Owners(j) : TRUE
      BY BuiltPath
    <3>4. PlaceOf(p) \in Placing /\ PlaceOf(p).at[2] = Design.comps[id].layer
      <4>1. Design.comps[j].layer = Design.comps[id].layer
        BY <3>2, BuiltPath
      <4> QED BY <3>2, <3>3, <4>1, CodeIsOwned
    <3>5. k \in DOMAIN GoPackages
      <4>1. SUFFICES ASSUME k \notin DOMAIN GoPackages PROVE FALSE
        OBVIOUS
      <4>2. id \in Owners(j)
        BY <3>2, <4>1, OwnPath, SamePathOwners
      <4>3. PlaceOf(p) \in mine
        BY <3>2, <4>2, CodeIsOwned
      <4> QED BY <1>2, <4>3
    <3>6. Paths[id] = Module \o GoPackages[k]
      BY <1>0, <3>5 DEF Paths
    <3>7. IsSuffix(GoPackages[k], Paths[id])
      <4>1. IsPath(Module) /\ IsPath(GoPackages[k])
        BY <3>5, Zenon DEF Orderly, SiteLegal
      <4> HIDE DEF k
      <4> QED BY <3>6, <4>1, SuffixOf
    <3>8. PlaceOf(p).path = Paths[id]
      BY <3>1 DEF PlaceOf
    <3>9. PlaceOf(p) \in joined
      BY <3>4, <3>5, <3>7, <3>8 DEF Joined, Realizes
    <3> QED BY <3>9
  <2> HIDE DEF match, joined, mine
  <2>3. match.rule = IF joined = {} THEN "missing" ELSE ""
    BY <2>1 DEF Found
  <2> QED BY <1>2, <2>2, <2>3 DEF match, mine
<1>3. CASE mine = {} /\ ~Joins(Design, GoPackages, id)
  <2>1. match = Found(other, "mismatch")
    BY <1>3 DEF BuiltMatch
  <2>2. id \in Owners(id)
    <3>1. k \notin DOMAIN GoPackages
      <4>1. "" \notin DOMAIN GoPackages
        BY Zenon DEF Orderly, SiteOrderly
      <4>2. k \in DOMAIN GoPackages => GoPackages[k] # <<>>
        BY Zenon DEF Orderly, SiteLegal, IsPath
      <4> QED BY <1>3, <4>1, <4>2 DEF Joins
    <3> QED BY <3>1, OwnPath
  <2>3. ~\E q \in pkgs : \E j \in Toward : IsCode(j, q) /\ Paths[j] = Paths[id]
    <3> SUFFICES ASSUME NEW q \in pkgs, NEW j \in Toward, IsCode(j, q), Paths[j] = Paths[id] PROVE FALSE
      OBVIOUS
    <3>1. id \in Owners(j)
      BY <2>2, SamePathOwners
    <3> QED BY <1>3, <3>1, CodeIsOwned
  <2>4. other = {}
    <3> SUFFICES ASSUME NEW x \in Placing, x.at[1] = Key(Design.comps[id].name) PROVE FALSE
      BY DEF Elsewhere
    <3>1. PICK p \in pkgs, j \in Tended :
              /\ x = PlaceOf(p) /\ j \in Toward /\ \E q \in pkgs : IsCode(j, q)
              /\ \/ IsCode(j, p)
                 \/ Design.comps[j].kind = "manager" /\ \E r \in TransportRoots : p.path = TransportPath(j, r)
      BY PlacedKinds
    <3>2. CASE IsCode(j, p)
      <4>1. PICK own \in Owners(j) : TRUE
        BY <3>1, BuiltPath
      <4>2. own \in Toward /\ x.at = <<Key(Design.comps[own].name), Design.comps[j].layer>>
            /\ x \in Owned(Design, Placing, own)
        BY <3>1, <3>2, CodeIsOwned
      <4>3. Key(Design.comps[own].name) = Key(Design.comps[id].name) /\ own \in DOMAIN Design.comps
        <5>1. own \in DOMAIN Design.comps
          BY <4>2 DEF Toward, ToMatch
        <5>2. x.at[1] = Key(Design.comps[own].name)
          BY ONLY <4>2
        <5> QED BY <5>1, <5>2
      <4>4. own = id
        BY <1>0, <4>3, NamesAreOwn
      <4> QED BY <1>3, <4>2, <4>4
    <3>3. CASE Design.comps[j].kind = "manager" /\ \E r \in TransportRoots : p.path = TransportPath(j, r)
      <4>1. x.at = <<Key(Design.comps[j].name), "client">>
        BY <3>1, <3>3, TransportIsPlaced
      <4>2. Key(Design.comps[j].name) = Key(Design.comps[id].name) /\ j \in DOMAIN Design.comps
        <5>1. j \in DOMAIN Design.comps
          BY <3>1 DEF Toward, ToMatch
        <5>2. x.at[1] = Key(Design.comps[j].name)
          BY ONLY <4>1
        <5> QED BY <5>1, <5>2
      <4>3. j = id
        BY <1>0, <4>2, NamesAreOwn
      <4> QED BY <2>3, <3>1, <4>3
    <3> QED BY <3>1, <3>2, <3>3
  <2>5. ~OnDisk(Paths[id])
    BY <2>3, CodeAtPath DEF OnDisk
  <2> HIDE DEF match, other, mine
  <2>6. match.rule = "missing"
    BY <2>1, <2>4 DEF Found
  <2> QED BY <1>3, <2>5, <2>6 DEF match, mine
<1> QED BY <1>1, <1>2, <1>3

\* What activities build and is neither pending nor left out is on disk.
LEMMA NotOwedIsThere ==
    ASSUME Orderly, Landed, NEW id \in Tended, id \notin PendingOf(Activities, rows) \union LeftOut
    PROVE  OnDisk(Paths[id])
<1>1. id # ""
  <2>1. "" \notin DOMAIN Design.comps
    BY Zenon DEF Orderly, SiteOrderly
  <2> QED BY <2>1, TendedIsBuilt DEF Toward, ToMatch
<1>2. id \in Covered(Activities)
  BY <1>1 DEF Covered, Tended
<1>3. id \in DoneOf(Activities, rows)
  BY <1>2 DEF PendingOf, LeftOut
<1>4. PICK a \in Activities : a.comp = id /\ Completed(RowOf(rows, a))
  BY <1>3 DEF DoneOf, Covering
<1> QED BY <1>4 DEF Landed, Row

\* A generated client that is no longer pending has its transport.
LEMMA TransportIsThere ==
    ASSUME Orderly, Planted, Served, Landed,
           NEW a \in Activities, Design.comps[a.comp].kind = "manager", a.comp \notin LeftOut,
           NEW id \in GeneratedClients(Design.comps), id \in ToMatch(Design),
           Key(Design.comps[id].name) \in Transports, id \notin Pending
    PROVE  Owned(Design, Placing, id) # {}
<1>1. a.comp \in Tended /\ a.comp \in DOMAIN Design.comps
  BY TendedIsBuilt DEF Tended, Toward, ToMatch
<1>2. a.comp \notin PendingOf(Activities, rows)
  BY <1>1 DEF Pending, WithGeneratedClients
<1>3. OnDisk(Paths[a.comp])
  BY <1>1, <1>2, NotOwedIsThere
<1>4. PICK m \in Tended : Design.comps[m].kind = "manager" /\ \A r \in TransportRoots : OnDisk(TransportPath(m, r))
  BY <1>1, <1>3 DEF Served
<1>5. PICK r \in TransportRoots : Key(r[3]) = Key(Design.comps[id].name)
  <2>1. <<"internal", "client", "web">>[3] = "web" /\ <<"internal", "client", "mcp">>[3] = "mcp"
    OBVIOUS
  <2> QED BY <2>1 DEF TransportRoots, Transports
<1>6. PICK p \in pkgs : p.path = TransportPath(m, r)
  BY <1>4 DEF OnDisk
<1>7. m \in Toward /\ m \in ToMatch(Design)
  BY TendedIsBuilt DEF Toward
<1>8. Design.comps[id].layer = "client"
  BY NamesAreOwn DEF GeneratedClients, ToMatch
<1>9. Owner(Design, p) = Key(Design.comps[id].name)
  BY <1>4, <1>5, <1>6, <1>7, <1>8, OwnedByRoot
<1>10. PlaceOf(p) \in Placing /\ PlaceOf(p).at[2] = "client" /\ PlaceOf(p).owner = Owner(Design, p)
  BY <1>4, <1>6, <1>7, TransportIsPlaced
<1>11. PlaceOf(p) \in Owned(Design, Placing, id)
  BY <1>8, <1>9, <1>10 DEF Owned
<1> QED BY <1>11

\* align.go: every component has its package or owes none.
LEMMA AllAligned ==
    ASSUME Orderly, Planted, Served, Landed,
           NEW a \in Activities, Design.comps[a.comp].kind = "manager", a.comp \notin LeftOut
    PROVE  Misaligned(Design, Placing, GoPackages, Pending, LeftOut) = {}
<1> SUFFICES ASSUME NEW id \in ToMatch(Design),
                    Match(Design, Placing, GoPackages, id).rule # "",
                    ~(Match(Design, Placing, GoPackages, id).rule = "missing" /\ OwesNone(Design, id, Pending, LeftOut))
             PROVE  FALSE
  BY DEF Misaligned
<1> DEFINE match == Match(Design, Placing, GoPackages, id)
           c == Design.comps[id]
<1>1. c.status # "planned"
  BY PlannedIsAbsent DEF Match
<1>2. c.status # "external"
  <2>1. c.status = "external" => c.kind = "utility"
    BY Zenon DEF Orderly, SiteOrderly, ToMatch
  <2> QED BY <2>1 DEF Match
<1>3. id \in Toward /\ match = BuiltMatch(Design, Placing, GoPackages, id)
  BY <1>1, <1>2 DEF Match, Toward, Built
<1> HIDE DEF match
<1>4. match.rule = "missing" /\ ~OnDisk(Paths[id]) /\ Owned(Design, Placing, id) = {}
  BY <1>3, BuiltIsFound DEF match
<1>5. ~OwesNone(Design, id, Pending, LeftOut)
  BY <1>4 DEF match
<1>6. id \notin Tended
  <2>1. id \notin Pending \union LeftOut
    BY <1>5 DEF OwesNone
  <2>2. id \notin PendingOf(Activities, rows)
    BY <2>1 DEF Pending, WithGeneratedClients
  <2> QED BY <1>4, <2>1, <2>2, NotOwedIsThere
<1>7. ActivityOf(id) = {}
  BY <1>6 DEF ActivityOf, Tended
<1>8. \/ ActivityOf(id) # {}
      \/ BrowserSurface(c)
      \/ c.kind = "client" /\ c.protocol = "rest"
      \/ id \in GeneratedClients(Design.comps) /\ Key(c.name) \in Transports
  BY <1>3, Zenon DEF Orderly, SiteOrderly, Toward
<1>9. id \in GeneratedClients(Design.comps) /\ Key(c.name) \in Transports /\ id \notin Pending
  BY <1>5, <1>7, <1>8 DEF OwesNone
<1> QED BY <1>4, <1>9, TransportIsThere

\* align.go: every package is accounted for.
LEMMA NoneOrphaned ==
    ASSUME Orderly, Planted
    PROVE  Orphaned(Design, Placing, GoPackages) = {}
<1> SUFFICES ASSUME NEW x \in Placing PROVE x.at \in Accounted(Design, Placing, GoPackages)
  BY DEF Orphaned
<1>1. PICK p \in pkgs, id \in Tended :
              /\ x = PlaceOf(p) /\ id \in Toward
              /\ \/ IsCode(id, p)
                 \/ /\ Design.comps[id].kind = "manager" /\ p \in TransportOf(id)
                    /\ \E r \in TransportRoots : p.path = TransportPath(id, r)
  BY PlacedKinds
<1>2. CASE IsCode(id, p)
  <2>1. PICK own \in Owners(id) : TRUE
    BY <1>1, BuiltPath
  <2>2. own \in Toward /\ x \in Owned(Design, Placing, own)
    BY <1>1, <1>2, CodeIsOwned
  <2>3. Match(Design, Placing, GoPackages, own) = BuiltMatch(Design, Placing, GoPackages, own)
    BY <2>2 DEF Match, Toward, Built
  <2>4. x \in Match(Design, Placing, GoPackages, own).pkgs
    BY <2>2, <2>3, BuiltIsFound
  <2>5. own \in ToMatch(Design)
    BY <2>2 DEF Toward
  <2>6. x \in UNION {Match(Design, Placing, GoPackages, i).pkgs : i \in ToMatch(Design)}
    BY <2>4, <2>5, Zenon
  <2> QED BY <2>6 DEF Accounted
<1>3. CASE /\ Design.comps[id].kind = "manager" /\ p \in TransportOf(id)
           /\ \E r \in TransportRoots : p.path = TransportPath(id, r)
  <2>1. \A f \in p.files : f.gen
    BY <1>3, TransportsAre DEF Generated
  <2>2. GeneratedTransport(p)
    BY <1>1, <1>3, <2>1, TransportPackage DEF Toward
  <2>3. x.transport
    BY <1>1, <2>2 DEF PlaceOf
  <2> QED BY <2>3 DEF Accounted
<1> QED BY <1>1, <1>2, <1>3

\* The standard library and Temporal are in no layer.
LEMMA RuntimeIsElsewhere ==
    ASSUME Orderly, NEW layer
    PROVE  LayerIndex(Runtime(layer)) = 0
<1>1. IsPath(Module) /\ ~Temporal(Module)
  BY Zenon DEF Orderly, SiteLegal
<1>2. Len(Prefix) >= 2 /\ Len(Prefix) \in Nat
  BY <1>1, PrefixIs DEF IsPath
<1>3. Len(Runtime(layer)) \in 1 .. 2
  <2>1. Len(<<"go.temporal.io", "sdk">>) = 2 /\ Len(<<"context">>) = 1
    OBVIOUS
  <2> QED BY <2>1 DEF Runtime
<1>4. ~(Len(Runtime(layer)) > Len(Prefix))
  <2>1. PICK n \in 1 .. 2 : n = Len(Runtime(layer))
    BY <1>3
  <2>2. PICK m \in Nat : m = Len(Prefix) /\ m >= 2
    BY <1>2
  <2>3. ~(n > m)
    BY <2>2
  <2> QED BY ONLY <2>1, <2>2, <2>3
<1> QED BY <1>4, Zenon DEF LayerIndex

\* rules_conformance.go: every import between components is a declared call.
LEMMA NoneUndeclared ==
    ASSUME Orderly, Planted
    PROVE  Undeclared(Design, Placing) = {}
<1> SUFFICES ASSUME NEW x \in Placing, NEW y \in Placing, y.path \in x.imports, NEW i \in x.comp, NEW j \in y.comp
             PROVE  \E rel \in Design.rels : rel.from = i /\ rel.to = j
  <2>1. ASSUME NEW e \in CodeEdges(Placing)
        PROVE  \E x, y \in Placing : y.path \in x.imports /\ e \in x.comp \X y.comp
    <3>1. PICK x \in Placing : e \in UNION {x.comp \X y.comp : y \in {z \in Placing : z.path \in x.imports}}
      BY <2>1, Zenon DEF CodeEdges
    <3>2. PICK y \in {z \in Placing : z.path \in x.imports} : e \in x.comp \X y.comp
      BY <3>1, Zenon
    <3> QED BY <3>2
  <2>2. ASSUME NEW e \in CodeEdges(Placing) PROVE \E rel \in Design.rels : rel.from = e[1] /\ rel.to = e[2]
    <3>1. PICK x \in Placing, y \in Placing : y.path \in x.imports /\ e \in x.comp \X y.comp
      BY <2>1
    <3>2. e[1] \in x.comp /\ e[2] \in y.comp
      BY <3>1
    <3> QED BY <3>1, <3>2
  <2> QED BY <2>2 DEF Undeclared
<1>1. PICK p \in pkgs, id \in Tended :
              /\ x = PlaceOf(p) /\ id \in Toward
              /\ \/ IsCode(id, p)
                 \/ Design.comps[id].kind = "manager" /\ \E r \in TransportRoots : p.path = TransportPath(id, r)
  BY PlacedKinds
<1>2. ~(Design.comps[id].kind = "manager" /\ \E r \in TransportRoots : p.path = TransportPath(id, r))
  BY <1>1, TransportIsPlaced
<1>3. IsCode(id, p) /\ x.imports = p.imports
  BY <1>1, <1>2 DEF PlaceOf
<1>4. PICK own \in Owners(id) : TRUE
  BY <1>1, BuiltPath
<1>5. i = own
  BY <1>1, <1>3, <1>4, CodeIsOwned
<1>6. PICK q \in pkgs : y = PlaceOf(q) /\ LayerIndex(q.path) # 0
  BY PlacedKinds
<1>7. y.path = q.path
  BY <1>6 DEF PlaceOf
<1>8. PICK n \in Needs(id) : q.path = Paths[n]
  <2>1. q.path # Runtime(LayerOf(Paths[id]))
    BY <1>6, RuntimeIsElsewhere
  <2> QED BY <1>3, <1>7, <2>1 DEF IsCode
<1>9. n \in Toward
  BY <1>1, NeedsAre
<1>10. PICK k \in Toward : IsCode(k, q) /\ Paths[k] = Paths[n]
  BY <1>8, <1>9, CodeAtPath
<1>11. PICK callee \in Owners(k) : TRUE
  BY BuiltPath
<1>12. j = callee /\ callee \in Owners(n)
  BY <1>6, <1>10, <1>11, CodeIsOwned, SamePathOwners
<1>13. \A o \in Owners(id) : \A m \in Needs(id) : \A t \in Owners(m) : \E rel \in Design.rels : rel.from = o /\ rel.to = t
  <2>1. id \in {z \in ToMatch(Design) : Built(Design.comps[z])}
    BY <1>1 DEF Toward
  <2>2. \A o \in Owners(id) : Built(Design.comps[o]) /\ \A m \in Needs(id) :
           \A t \in Owners(m) : \E rel \in Design.rels : rel.from = o /\ rel.to = t
    BY <2>1, Zenon DEF Orderly, SiteOrderly
  <2> QED BY <2>2
<1> QED BY <1>4, <1>5, <1>12, <1>13

\* So the check reports nothing.
LEMMA NothingIsReported == ASSUME Orderly, SiteInv PROVE NoFalseAlarm
<1> SUFFICES ASSUME drift = 0, NEW a \in Activities, Design.comps[a.comp].kind = "manager", a.comp \notin LeftOut
             PROVE  Judged
  BY DEF NoFalseAlarm
<1>1. Planted /\ Served /\ Landed
  BY DEF SiteInv
<1>2. Placing = {} => pkgs = {}
  <2> SUFFICES ASSUME NEW p \in pkgs PROVE Placing # {}
    OBVIOUS
  <2>1. PICK id \in Tended : id \in Toward /\ \E q \in pkgs : IsCode(id, q)
    BY <1>1, PlantedKinds
  <2>2. PICK q \in pkgs : IsCode(id, q)
    BY <2>1
  <2>3. PICK own \in Owners(id) : TRUE
    BY <2>1, BuiltPath
  <2>4. PlaceOf(q) \in Placing
    BY <2>1, <2>2, <2>3, CodeIsOwned
  <2> QED BY <2>4
<1>3. ArchAccepted(pkgs)
  BY <1>1, Wellbuilt, Welldeclared, Wellfiled DEF ArchAccepted
<1>4. /\ Misaligned(Design, Placing, GoPackages, Pending, LeftOut) = {}
      /\ Orphaned(Design, Placing, GoPackages) = {}
      /\ Undeclared(Design, Placing) = {}
  BY <1>1, AllAligned, NoneOrphaned, NoneUndeclared
<1> QED BY <1>2, <1>3, <1>4, Zenon DEF Judged, CodeAccepted, Placing

\* A site begins with nothing on disk and no row.
LEMMA SiteBegins == InitSite => SiteInv
<1> SUFFICES ASSUME InitSite PROVE SiteInv
  OBVIOUS
<1>1. rows = <<>> /\ pkgs = {} /\ drift = 0 /\ DOMAIN rows = {}
  BY DEF InitSite
<1>2. \A x : Row(x) = NoRow
  BY <1>1 DEF Row, RowOf
<1>3. Landed
  BY <1>2 DEF Landed, Completed, NoRow
<1> QED BY <1>1, <1>3 DEF SiteInv, RowsOK, Planted, Served, OnDisk

\* check.go, align.go, rules_conformance.go, arch.go: while attempts begin, land, complete,
\* fail and are skipped, in any order the plan allows, and nobody edits the tree by hand,
\* the check of the code against the design reports nothing, provided that some Manager
\* is not skipped: what is unfinished is pending, what is skipped is left out, and
\* the generated clients are there once a Manager that is not skipped has landed.
THEOREM NoAlarmIsFalse == SiteLegal /\ SiteOrderly /\ SiteSpec => []NoFalseAlarm
<1> SUFFICES ASSUME Orderly PROVE SiteSpec => []NoFalseAlarm
  BY DEF Orderly
<1>1. SiteInv => NoFalseAlarm
  BY NothingIsReported
<1> QED BY <1>1, SiteBegins, SiteStepKeeps, PTL DEF SiteSpec

\* check.go: the check is right both ways, for every design, plan and number of edits:
\* no alarm for work under way, and no tree accepted that is not the design's.
THEOREM AlignmentIsHonest == SiteLegal /\ SiteOrderly /\ SiteSpec => []AlignmentHonest
<1>1. AlignmentHonest <=> NoFalseAlarm /\ DriftCaught
  BY DEF AlignmentHonest
<1> QED BY <1>1, NoAlarmIsFalse, DriftIsCaught, PTL
================================================================================
