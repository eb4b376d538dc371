---------------------------- MODULE DeployProofs -----------------------------
(***************************************************************************)
(* What the two scripts on the Pi promise, whatever is cut off or lost: an *)
(* update can be taken back, for any set of releases, and a session is     *)
(* archived, for any captures, command lines and number of runs.           *)
(*                                                                         *)
(* RollbackRestores speaks only of a script that has ended.  InFlight says *)
(* what holds while it runs: up to the installation nothing it needs to    *)
(* come back has been touched, and from then on previous names it.         *)
(*                                                                         *)
(* Both parts of SessionIsArchived speak of what several runs left behind. *)
(* UploadIInv follows one run through its phases (Hashed, Posted) and      *)
(* keeps of the runs before it what the release knows: each asset is a     *)
(* capture some run was given, as it was then (Assets), and the fragment   *)
(* describes the files of some run, all attached (FragmentIndex).  A       *)
(* capture only grows, so what was read of it bounds it from below.        *)
(*                                                                         *)
(* And the types of all that is on disk when a process ends in the middle  *)
(* of something: these scripts' files, run records, profiles and grammars. *)
(***************************************************************************)
EXTENDS MCStorage, RunFilesProofs

-----------------------------------------------------------------------------
(* The update (liscere-update).                                            *)

Commands == {"idle", "download", "transfer", "version", "open_previous", "copy", "install",
             "open_current", "write_current", "restart", "check", "rollback", "reinstall",
             "restart_again"}

UpdateTypeInv ==
  /\ wheel \in [Versions -> {"absent", "cut", "whole"}]
  /\ venv \in Versions \union {NoVersion} /\ service \in Versions \union {NoVersion}
  /\ current \in Versions \union {NoVersion, Empty}
  /\ previous \in Versions \union {NoVersion, Empty}
  /\ want \in Versions \union {NoVersion} /\ seen \in Versions \union {NoVersion}
  /\ outcome \in {"none", "crashed", "failed", "updated", "rolled_back"}
  /\ command \in Commands
  /\ before \in [asked : Versions \union {NoVersion}, version : Versions \union {NoVersion},
                 settled : BOOLEAN]

\* A wheel is being downloaded or installed, so it has a version.
Wanted == command \in {"download", "transfer", "version", "open_previous", "copy", "install",
                       "open_current", "write_current", "reinstall"} => want \in Versions

\* An update from a settled release to another one.
Covered == before.settled /\ before.asked \in Versions /\ before.asked # before.version

OnShelf(v) == v \in Versions /\ wheel[v] = "whole"

InFlight ==
  Covered =>
    /\ command \in {"download", "transfer", "version", "open_previous", "copy"} =>
         /\ want = before.asked /\ venv = before.version /\ current = before.version
         /\ OnShelf(before.version)
    /\ command = "install" => want = before.asked
    /\ command \in {"install", "open_current", "write_current", "restart", "check", "rollback"} =>
         previous = before.version /\ OnShelf(before.version)
    /\ command \in {"open_current", "write_current", "restart", "check"} =>
         want = before.asked /\ venv = want
    /\ command \in {"restart", "check"} => current = want
    /\ command = "reinstall" => want = before.version
    /\ command = "restart_again" => venv = before.version
    /\ command # "idle" => outcome = "none"

UpdateIInv == UpdateTypeInv /\ Wanted /\ InFlight /\ RollbackRestores

-----------------------------------------------------------------------------
\* The invariant holds before the first update.
LEMMA UpdateInitIInv == UpdateInit => UpdateIInv
  BY UpdateAssumption
  DEF UpdateInit, UpdateIInv, UpdateTypeInv, Commands, Wanted, InFlight, Covered, RollbackRestores

\* Starting the script records what it starts from.
LEMMA UpdateStartIInv ==
  ASSUME UpdateIInv,
         (\E v \in Versions : Started("download", v)) \/ Started("rollback", NoVersion)
  PROVE  UpdateIInv'
<1>1. CASE Started("rollback", NoVersion)
  BY <1>1, UpdateAssumption
  DEF Started, Settled, releaseVars, UpdateIInv, UpdateTypeInv, Commands, Wanted, InFlight, Covered, RollbackRestores
<1>2. ASSUME NEW v \in Versions, Started("download", v) PROVE UpdateIInv'
  BY <1>2, UpdateAssumption
  DEF Started, Settled, releaseVars, UpdateIInv, UpdateTypeInv, Commands, Wanted, InFlight, Covered, OnShelf,
      RollbackRestores
<1> QED BY <1>1, <1>2

\* Fetching the wheel and keeping what was current touches nothing the way back needs.
LEMMA FetchIInv ==
  ASSUME UpdateIInv,
         Download \/ Transfer \/ installed_version \/ OpenPrevious \/ CopyCurrent
  PROVE  UpdateIInv'
<1> USE UpdateAssumption
    DEF UpdateIInv, UpdateTypeInv, Commands, Wanted, InFlight, Covered, OnShelf, RollbackRestores, releaseVars
<1>1. CASE Download BY <1>1 DEF Download
<1>2. CASE Transfer BY <1>2 DEF Transfer, Exit
<1>3. CASE installed_version BY <1>3 DEF installed_version
<1>4. CASE OpenPrevious BY <1>4 DEF OpenPrevious
<1>5. CASE CopyCurrent BY <1>5 DEF CopyCurrent, Kept
<1> QED BY <1>1, <1>2, <1>3, <1>4, <1>5

\* From the installation to the check previous names what ran before.
LEMMA InstallIInv ==
  ASSUME UpdateIInv,
         Install \/ OpenCurrent \/ WriteCurrent \/ restart_service \/ Check
  PROVE  UpdateIInv'
<1> USE UpdateAssumption
    DEF UpdateIInv, UpdateTypeInv, Commands, Wanted, InFlight, Covered, OnShelf, RollbackRestores, releaseVars
<1>1. CASE Install BY <1>1 DEF Install, install_wheel, Exit
<1>2. CASE OpenCurrent BY <1>2 DEF OpenCurrent
<1>3. CASE WriteCurrent BY <1>3 DEF WriteCurrent
<1>4. CASE restart_service BY <1>4 DEF restart_service, Restarted
<1>5. CASE Check BY <1>5 DEF Check, Exit
<1> QED BY <1>1, <1>2, <1>3, <1>4, <1>5

\* The rollback installs what previous names; a crash leaves nothing to promise.
LEMMA RollbackIInv ==
  ASSUME UpdateIInv, Rollback \/ Reinstall \/ RestartAgain \/ Crash
  PROVE  UpdateIInv'
<1> USE UpdateAssumption
    DEF UpdateIInv, UpdateTypeInv, Commands, Wanted, InFlight, Covered, OnShelf, RollbackRestores, releaseVars
<1>1. CASE Rollback BY <1>1 DEF Rollback, Exit
<1>2. CASE Reinstall BY <1>2 DEF Reinstall, install_wheel, Exit
<1>3. CASE RestartAgain BY <1>3 DEF RestartAgain, Restarted, Exit
<1>4. CASE Crash BY <1>4 DEF Crash, Exit
<1> QED BY <1>1, <1>2, <1>3, <1>4

\* Every step keeps the invariant.
LEMMA UpdateNextIInv == UpdateIInv /\ [UpdateNext]_updateVars => UpdateIInv'
<1> SUFFICES ASSUME UpdateIInv, [UpdateNext]_updateVars PROVE UpdateIInv'
  OBVIOUS
<1>1. CASE UpdateNext
  BY <1>1, UpdateStartIInv, FetchIInv, InstallIInv, RollbackIInv DEF UpdateNext
<1>2. CASE UNCHANGED updateVars
  BY <1>2 DEF updateVars, releaseVars, UpdateIInv, UpdateTypeInv, Wanted, InFlight, Covered, OnShelf,
              RollbackRestores
<1> QED BY <1>1, <1>2

\* The invariant holds of every behaviour of the script.
LEMMA UpdateInvariant == UpdateSpec => []UpdateIInv
  BY UpdateInitIInv, UpdateNextIInv, PTL DEF UpdateSpec

-----------------------------------------------------------------------------
\* The files name releases and the script ends in one of its ways.
THEOREM UpdateTypesCorrect == UpdateSpec => []UpdateTypeOK
<1>1. UpdateIInv => UpdateTypeOK
  BY DEF UpdateIInv, UpdateTypeInv, UpdateTypeOK
<1> QED BY <1>1, UpdateInvariant, PTL

\* Whatever was cut off before and whenever, an update of a settled release that ended
\* well can be taken back, and one that was rolled back gives the old release.
THEOREM UpdatesCanBeTakenBack == UpdateSpec => []RollbackRestores
<1>1. UpdateIInv => RollbackRestores
  BY DEF UpdateIInv
<1> QED BY <1>1, UpdateInvariant, PTL

-----------------------------------------------------------------------------
(* The upload (bench-data-upload).                                         *)

AssetNames == {Basename[p] : p \in Paths}
Entry      == [file : AssetNames, sha : Nat]
Asset      == [path : Paths, content : Nat]

UploadTypeInv ==
  /\ content \in [Paths -> 0..MaxGrowth]
  /\ release \in [DOMAIN release -> Asset] /\ DOMAIN release \subseteq AssetNames
  /\ entries \in Seq(Entry) /\ index \in Seq(Entry)
  /\ doing \in {"idle", "hash", "release", "upload", "fragment"}
  /\ files \in Seq(Paths) /\ next \in Nat
  /\ attached \subseteq AssetNames \union {Fragment}
  /\ asked \subseteq Uploads /\ IsFiniteSet(asked) /\ uploads \in 0..MaxUploads

\* The first n entries are those of the first n paths, read when these were no longer
\* than now.
Described(es, paths, n) ==
  /\ Len(es) = n
  /\ \A i \in 1..n : es[i].file = Basename[paths[i]] /\ es[i].sha <= content[paths[i]]

AllAttached(es, n) == \A i \in 1..n : es[i].file \in DOMAIN release

Asked == doing # "idle" \/ done => files \in asked

Hashed ==
  /\ doing = "hash" => next \in 1..Len(files) /\ Described(entries, files, next - 1)
  /\ doing \in {"release", "upload", "fragment"} => Described(entries, files, Len(files))

Posted ==
  /\ doing = "release" => next = 1
  /\ doing = "upload" => next \in 1..Len(files) /\ AllAttached(entries, next - 1)
  /\ doing = "fragment" => AllAttached(entries, Len(files))
  /\ doing \in {"upload", "fragment"} =>
       /\ attached \subseteq DOMAIN release \union {Fragment}
       /\ Fragment \in attached => index # <<>>

Assets ==
  \A name \in DOMAIN release :
    /\ Basename[release[name].path] = name
    /\ release[name].content <= content[release[name].path]
    /\ \E paths \in asked : \E i \in DOMAIN paths : paths[i] = release[name].path

FragmentIndex ==
  index # <<>> =>
    \E paths \in asked : Described(index, paths, Len(paths)) /\ AllAttached(index, Len(paths))

Done ==
  done => /\ doing = "idle" /\ index # <<>>
          /\ \A i \in DOMAIN files : Basename[files[i]] \in DOMAIN release

UploadIInv == UploadTypeInv /\ Asked /\ Hashed /\ Posted /\ Assets /\ FragmentIndex /\ Done

\* Nothing was asked for and nothing is attached at the start.
LEMMA UploadInitIInv == UploadInit => UploadIInv
<1> SUFFICES ASSUME UploadInit PROVE UploadIInv
  OBVIOUS
<1> USE UploadAssumption DEF UploadInit
<1>1. UploadTypeInv
  <2>1. release \in [DOMAIN release -> Asset] /\ DOMAIN release \subseteq AssetNames
    OBVIOUS
  <2>2. entries \in Seq(Entry) /\ index \in Seq(Entry) /\ files \in Seq(Paths)
    OBVIOUS
  <2>3. content \in [Paths -> 0..MaxGrowth] OBVIOUS
  <2>4. IsFiniteSet(asked) BY FS_EmptySet
  <2> QED BY <2>1, <2>2, <2>3, <2>4 DEF UploadTypeInv
<1>2. Asked /\ Hashed /\ Posted /\ Assets /\ FragmentIndex /\ Done
  BY DEF Asked, Hashed, Posted, Assets, FragmentIndex, Done
<1> QED BY <1>1, <1>2 DEF UploadIInv

\* A new run has read nothing, and the files of the runs before it stay known.
LEMMA UploadStartIInv ==
  ASSUME UploadIInv, NEW paths \in Uploads, StartUpload(paths)
  PROVE  UploadIInv'
<1> USE UploadAssumption DEF UploadIInv, StartUpload, githubVars
<1>1. UploadTypeInv'
  <2>1. asked' \subseteq Uploads /\ IsFiniteSet(asked')
    BY FS_AddElement DEF UploadTypeInv
  <2>2. files' \in Seq(Paths) /\ entries' \in Seq(Entry) OBVIOUS
  <2>3. next' \in Nat /\ uploads' \in 0..MaxUploads BY DEF UploadTypeInv
  <2> QED BY <2>1, <2>2, <2>3 DEF UploadTypeInv
<1>2. Len(paths) \in Nat \ {0} /\ paths \in Seq(Paths)
  OBVIOUS
<1>3. Hashed' BY <1>2 DEF Hashed, Described
<1>4. Asked' /\ Posted' /\ Done' BY DEF Asked, Posted, Done
<1>5. Assets' BY DEF Assets
<1>6. FragmentIndex' BY DEF FragmentIndex, Described, AllAttached
<1> QED BY <1>1, <1>3, <1>4, <1>5, <1>6

\* A capture that grows is no shorter than what was read of it.
LEMMA GrowsIInv ==
  ASSUME UploadIInv, NEW p \in Paths, Grows(p)
  PROVE  UploadIInv'
<1> USE UploadAssumption DEF UploadIInv, Grows, githubVars
<1>1. UploadTypeInv' BY DEF UploadTypeInv
<1>2. \A q \in Paths : content[q] \in Nat /\ content'[q] \in Nat /\ content[q] <= content'[q]
  BY DEF UploadTypeInv
<1>3. \A es \in Seq(Entry), paths \in Seq(Paths), n \in Nat :
        n <= Len(paths) /\ Described(es, paths, n) => Described(es, paths, n)'
  <2> SUFFICES ASSUME NEW es \in Seq(Entry), NEW paths \in Seq(Paths), NEW n \in Nat,
                      n <= Len(paths), Described(es, paths, n), NEW i \in 1..n
               PROVE  es[i].sha <= content'[paths[i]]
    BY DEF Described
  <2>1. i \in 1..Len(paths) /\ i \in 1..Len(es) /\ es[i].sha <= content[paths[i]]
    BY DEF Described
  <2>2. paths[i] \in Paths /\ es[i] \in Entry BY <2>1
  <2>3. es[i].sha \in Nat BY <2>2 DEF Entry
  <2> QED BY <2>1, <2>2, <2>3, <1>2
<1>4. Hashed'
  <2>1. entries \in Seq(Entry) /\ files \in Seq(Paths) BY DEF UploadTypeInv
  <2> QED BY <1>3, <2>1 DEF Hashed
<1>5. Asked' /\ Posted' /\ Done' BY DEF Asked, Posted, Done, AllAttached
<1>6. Assets'
  BY <1>2 DEF Assets, UploadTypeInv, Asset
<1>7. FragmentIndex'
  <2> SUFFICES ASSUME index # <<>> PROVE FragmentIndex'
    BY DEF FragmentIndex
  <2>1. PICK paths \in asked : Described(index, paths, Len(paths)) /\ AllAttached(index, Len(paths))
    BY DEF FragmentIndex
  <2>2. paths \in Seq(Paths) /\ index \in Seq(Entry) BY DEF UploadTypeInv
  <2>3. Described(index, paths, Len(paths))' BY <1>3, <2>1, <2>2
  <2> QED BY <2>1, <2>3 DEF FragmentIndex, AllAttached
<1> QED BY <1>1, <1>4, <1>5, <1>6, <1>7

\* The hash of a file describes it.
LEMMA HashIInv ==
  ASSUME UploadIInv, Hash
  PROVE  UploadIInv'
<1> USE UploadAssumption DEF UploadIInv, Hash, githubVars
<1>1. next \in 1..Len(files) /\ files \in Seq(Paths) /\ Described(entries, files, next - 1)
      /\ entries \in Seq(Entry)
  BY DEF Hashed, UploadTypeInv
<1> DEFINE e == [file |-> Basename[files[next]], sha |-> content[files[next]]]
<1>2. e \in Entry /\ entries' = Append(entries, e)
  <2>1. files[next] \in Paths BY <1>1
  <2>2. content[files[next]] \in Nat BY <2>1 DEF UploadTypeInv
  <2> QED BY <2>1, <2>2 DEF Entry, AssetNames
<1>3. UploadTypeInv'
  <2>1. entries' \in Seq(Entry) BY <1>1, <1>2
  <2>2. next' \in Nat /\ doing' \in {"hash", "release"} BY <1>1
  <2> QED BY <2>1, <2>2 DEF UploadTypeInv
<1>4. /\ Len(entries') = next
      /\ \A i \in 1..next : /\ entries'[i].file = Basename[files[i]]
                             /\ entries'[i].sha <= content[files[i]]
  <2>1. Len(entries) = next - 1 BY <1>1 DEF Described
  <2>2. content[files[next]] <= content[files[next]] BY <1>1 DEF UploadTypeInv
  <2>3. \A i \in 1..next : entries'[i] = IF i = next THEN e ELSE entries[i]
    BY <1>1, <1>2, <2>1
  <2>4. Len(entries') = next BY <1>1, <1>2, <2>1
  <2> QED BY <1>1, <2>2, <2>3, <2>4 DEF Described
<1>5. Hashed' /\ Posted' BY <1>1, <1>4 DEF Hashed, Posted, Described
<1>6. Asked' /\ Done' BY DEF Asked, Done
<1>7. Assets' BY DEF Assets
<1>8. FragmentIndex' BY DEF FragmentIndex, Described, AllAttached
<1> QED BY <1>3, <1>5, <1>6, <1>7, <1>8

\* The release as it was fetched is the release until this run posts.
LEMMA ReleaseIInv ==
  ASSUME UploadIInv, get_or_create_release \/ Cut
  PROVE  UploadIInv'
<1> USE UploadAssumption DEF UploadIInv, githubVars
<1>1. CASE get_or_create_release
  <2> USE <1>1 DEF get_or_create_release
  <2>1. UploadTypeInv' BY DEF UploadTypeInv
  <2>2. files \in Seq(Paths) /\ Len(files) >= 1
    BY DEF UploadTypeInv, Asked
  <2>3. Hashed' BY DEF Hashed, Described
  <2>4. Posted'
    <3>1. CASE doing' = "idle" BY <3>1 DEF Posted
    <3>2. CASE doing' = "upload"
      <4>1. next = 1 /\ next' = next /\ release' = release /\ index' = index BY DEF Posted
      <4>2. attached' = DOMAIN release \union (IF index = <<>> THEN {} ELSE {Fragment})
        BY <3>2
      <4>3. Fragment \notin DOMAIN release BY DEF UploadTypeInv, AssetNames
      <4>4. AllAttached(entries, next - 1)' BY <4>1 DEF AllAttached
      <4> QED BY <2>2, <3>2, <4>1, <4>2, <4>3, <4>4 DEF Posted
    <3> QED BY <3>1, <3>2
  <2>5. Asked' /\ Done' BY DEF Asked, Done
  <2>6. Assets' BY DEF Assets
  <2>7. FragmentIndex' BY DEF FragmentIndex, Described, AllAttached
  <2> QED BY <2>1, <2>3, <2>4, <2>5, <2>6, <2>7
<1>2. CASE Cut
  <2> USE <1>2 DEF Cut
  <2>1. UploadTypeInv' BY DEF UploadTypeInv
  <2>2. Asked' /\ Hashed' /\ Posted' /\ Done' BY DEF Asked, Hashed, Posted, Done
  <2>3. Assets' BY DEF Assets
  <2>4. FragmentIndex' BY DEF FragmentIndex, Described, AllAttached
  <2> QED BY <2>1, <2>2, <2>3, <2>4
<1> QED BY <1>1, <1>2

\* A capture that is skipped was listed, and what was listed is attached.
LEMMA SkipIInv ==
  ASSUME UploadIInv, Skip
  PROVE  UploadIInv'
<1> USE UploadAssumption DEF UploadIInv, Skip, githubVars
<1>1. /\ next \in 1..Len(files) /\ files \in Seq(Paths)
      /\ Described(entries, files, Len(files)) /\ AllAttached(entries, next - 1)
  BY DEF Hashed, Posted, UploadTypeInv
<1>2. entries[next].file \in DOMAIN release
  <2>1. entries[next].file = Basename[files[next]] /\ files[next] \in Paths
    BY <1>1 DEF Described
  <2> QED BY <2>1 DEF Posted
<1>3. AllAttached(entries, next) BY <1>1, <1>2 DEF AllAttached
<1>4. UploadTypeInv'
  <2>1. next' \in Nat /\ doing' \in {"upload", "fragment"} BY <1>1 DEF Advance
  <2> QED BY <2>1 DEF UploadTypeInv
<1>5. Hashed' BY DEF Hashed, Described, Advance
<1>6. Posted'
  <2>1. CASE next < Len(files)
    <3>1. next' = next + 1 /\ doing' = "upload" BY <2>1 DEF Advance
    <3>2. AllAttached(entries, next - 1)' BY <1>1, <1>3, <3>1 DEF AllAttached
    <3>3. next' \in 1..Len(files) BY <1>1, <2>1, <3>1
    <3> QED BY <3>1, <3>2, <3>3 DEF Posted
  <2>2. CASE ~(next < Len(files))
    <3>1. next = Len(files) /\ doing' = "fragment" BY <1>1, <2>2 DEF Advance
    <3>2. AllAttached(entries, Len(files))' BY <1>3, <3>1 DEF AllAttached
    <3> QED BY <3>1, <3>2 DEF Posted
  <2> QED BY <2>1, <2>2
<1>7. Asked' /\ Done' BY DEF Asked, Done, Advance
<1>8. Assets' BY DEF Assets
<1>9. FragmentIndex' BY DEF FragmentIndex, Described, AllAttached
<1> QED BY <1>4, <1>5, <1>6, <1>7, <1>8, <1>9

\* A capture that is posted is attached, whether its answer comes or not.
LEMMA PostIInv ==
  ASSUME UploadIInv, Post
  PROVE  UploadIInv'
<1> USE UploadAssumption DEF UploadIInv, Post, githubVars
<1>1. /\ next \in 1..Len(files) /\ files \in Seq(Paths) /\ files \in asked
      /\ Described(entries, files, Len(files)) /\ AllAttached(entries, next - 1)
  BY DEF Hashed, Posted, UploadTypeInv, Asked
<1>2. /\ entries[next].file = Basename[files[next]] /\ files[next] \in Paths
      /\ content[files[next]] \in Nat
  BY <1>1 DEF Described, UploadTypeInv
<1> DEFINE name == entries[next].file
           asset == [path |-> files[next], content |-> content[files[next]]]
<1>3. CASE name \in DOMAIN release
  <2> USE <1>3
  <2>1. UploadTypeInv' BY DEF UploadTypeInv
  <2>2. Asked' /\ Hashed' /\ Posted' /\ Done' BY DEF Asked, Hashed, Posted, Done
  <2>3. Assets' BY DEF Assets
  <2>4. FragmentIndex' BY DEF FragmentIndex, Described, AllAttached
  <2> QED BY <2>1, <2>2, <2>3, <2>4
<1>4. CASE name \notin DOMAIN release
  <2> USE <1>4
  <2>1. /\ release' = [other \in DOMAIN release \union {name} |->
                         IF other \in DOMAIN release THEN release[other] ELSE asset]
        /\ Advance \/ (doing' = "idle" /\ UNCHANGED next)
    OBVIOUS
  <2>2. /\ DOMAIN release' = DOMAIN release \union {name}
        /\ release'[name] = asset
        /\ \A other \in DOMAIN release : release'[other] = release[other]
    <3> HIDE DEF name, asset
    <3> QED BY <2>1, <1>4
  <2>3. \A i \in 1..next : entries[i].file \in DOMAIN release'
    BY <1>1, <2>2 DEF AllAttached
  <2>4. name \in AssetNames /\ asset \in Asset BY <1>2 DEF AssetNames, Asset
  <2>5. UploadTypeInv'
    <3>1. release \in [DOMAIN release -> Asset] BY DEF UploadTypeInv
    <3>2. release' \in [DOMAIN release' -> Asset]
      <4> HIDE DEF name, asset
      <4>1. release' = [x \in DOMAIN release \union {name} |-> IF x \in DOMAIN release THEN release[x] ELSE asset]
        BY <2>1
      <4> QED BY <2>4, <3>1, <4>1
    <3>3. next' \in Nat /\ doing' \in {"idle", "upload", "fragment"} BY <1>1, <2>1 DEF Advance
    <3>4. DOMAIN release' \subseteq AssetNames BY <2>2, <2>4 DEF UploadTypeInv
    <3> QED BY <3>2, <3>3, <3>4 DEF UploadTypeInv
  <2>6. Hashed' BY <2>1 DEF Hashed, Described, Advance
  <2>7. Posted'
    <3>1. attached \subseteq DOMAIN release \union {Fragment} /\ (Fragment \in attached => index # <<>>)
      BY DEF Posted
    <3>2. CASE doing' = "idle" BY <3>2 DEF Posted
    <3>3. CASE Advance /\ next < Len(files)
      <4>1. next' = next + 1 /\ doing' = "upload" BY <3>3 DEF Advance
      <4>2. AllAttached(entries, next - 1)' BY <1>1, <2>3, <4>1 DEF AllAttached
      <4>3. next' \in 1..Len(files) BY <1>1, <3>3, <4>1
      <4> QED BY <2>2, <3>1, <4>1, <4>2, <4>3 DEF Posted
    <3>4. CASE Advance /\ ~(next < Len(files))
      <4>1. next = Len(files) /\ doing' = "fragment" BY <1>1, <3>4 DEF Advance
      <4>2. AllAttached(entries, Len(files))' BY <1>1, <2>3, <4>1 DEF AllAttached
      <4> QED BY <2>2, <3>1, <4>1, <4>2 DEF Posted
    <3> QED BY <2>1, <3>2, <3>3, <3>4
  <2>8. Asked' BY <1>1 DEF Asked
  <2>9. Done' BY DEF Done
  <2>10. Assets'
    <3>1. /\ Basename[asset.path] = name /\ asset.content <= content[asset.path]
          /\ \E i \in DOMAIN files : files[i] = asset.path
      BY <1>1, <1>2
    <3> QED BY <1>1, <2>2, <3>1 DEF Assets
  <2>11. FragmentIndex' BY <2>2 DEF FragmentIndex, Described, AllAttached
  <2> QED BY <2>5, <2>6, <2>7, <2>8, <2>9, <2>10, <2>11
<1> QED BY <1>3, <1>4

\* The fragment that is posted describes this run, whose captures are all attached.
LEMMA FragmentIInv ==
  ASSUME UploadIInv, UploadFragment
  PROVE  UploadIInv'
<1> USE UploadAssumption DEF UploadIInv, UploadFragment, FragmentLast, githubVars
<1>1. /\ files \in asked /\ files \in Seq(Paths) /\ Len(files) >= 1
      /\ Described(entries, files, Len(files)) /\ AllAttached(entries, Len(files))
  BY DEF Hashed, Posted, UploadTypeInv, Asked
<1>2. UploadTypeInv' BY DEF UploadTypeInv
<1>3. Asked' /\ Hashed' /\ Posted' BY <1>1 DEF Asked, Hashed, Posted
<1>4. Assets' BY DEF Assets
<1>5. index' # <<>>
  <2>1. entries # <<>> BY <1>1 DEF Described
  <2> QED BY <2>1 DEF Posted
<1>6. FragmentIndex'
  <2>1. CASE index' = index BY <2>1 DEF FragmentIndex, Described, AllAttached
  <2>2. CASE index' = entries BY <1>1, <2>2 DEF FragmentIndex, Described, AllAttached
  <2> QED BY <2>1, <2>2
<1>7. Done' BY <1>1, <1>5 DEF Done, Described, AllAttached
<1> QED BY <1>2, <1>3, <1>4, <1>6, <1>7

\* Every step keeps the invariant.
LEMMA UploadNextIInv == UploadIInv /\ [UploadNext]_uploadVars => UploadIInv'
<1> SUFFICES ASSUME UploadIInv, [UploadNext]_uploadVars PROVE UploadIInv'
  OBVIOUS
<1>1. CASE UploadNext
  BY <1>1, UploadStartIInv, GrowsIInv, HashIInv, ReleaseIInv, SkipIInv, PostIInv, FragmentIInv DEF UploadNext
<1>2. CASE UNCHANGED uploadVars
  BY <1>2 DEF uploadVars, githubVars, UploadIInv, UploadTypeInv, Asked, Hashed, Posted, Assets, FragmentIndex, Done,
              Described, AllAttached
<1> QED BY <1>1, <1>2

\* The invariant holds of every behaviour of a session.
LEMMA UploadInvariant == UploadSpec => []UploadIInv
  BY UploadInitIInv, UploadNextIInv, PTL DEF UploadSpec

-----------------------------------------------------------------------------
\* The fragment lists attached captures only.
LEMMA FragmentSound == UploadIInv => FragmentTellsTheAssets
<1> SUFFICES ASSUME UploadIInv, NEW i \in DOMAIN index PROVE index[i].file \in DOMAIN release
  BY DEF FragmentTellsTheAssets
<1>1. index \in Seq(Entry) /\ index # <<>> BY DEF UploadIInv, UploadTypeInv
<1>2. PICK paths \in asked : Described(index, paths, Len(paths)) /\ AllAttached(index, Len(paths))
  BY <1>1 DEF UploadIInv, FragmentIndex
<1> QED BY <1>1, <1>2 DEF Described, AllAttached

\* With one command line, what is attached under the name of a file is that file.
LEMMA RetriesSound == UploadIInv => RetriesFinishTheUpload
<1> SUFFICES ASSUME UploadIInv, done, Cardinality(asked) = 1, NEW i \in DOMAIN files,
                    content[files[i]] = 0,
                    \A j \in DOMAIN files : j # i => Basename[files[j]] # Basename[files[i]]
             PROVE  /\ Basename[files[i]] \in DOMAIN release
                    /\ release[Basename[files[i]]] = [path |-> files[i], content |-> 0]
                    /\ \E e \in ToSet(index) : e = [file |-> Basename[files[i]], sha |-> 0]
  BY DEF RetriesFinishTheUpload
<1> USE DEF UploadIInv
<1>1. asked = {files} /\ files \in Seq(Paths) /\ files[i] \in Paths
  BY FS_Singleton DEF UploadTypeInv, Asked
<1>2. Basename[files[i]] \in DOMAIN release BY DEF Done
<1>3. release[Basename[files[i]]] = [path |-> files[i], content |-> 0]
  <2> DEFINE asset == release[Basename[files[i]]]
  <2>1. asset \in Asset BY <1>2 DEF UploadTypeInv
  <2>2. /\ Basename[asset.path] = Basename[files[i]] /\ asset.content <= content[asset.path]
        /\ \E j \in DOMAIN files : files[j] = asset.path
    BY <1>1, <1>2 DEF Assets
  <2>3. asset.path = files[i] BY <2>2
  <2>4. asset.content = 0 BY <2>1, <2>2, <2>3 DEF Asset
  <2> QED BY <2>1, <2>3, <2>4 DEF Asset
<1>4. \E e \in ToSet(index) : e = [file |-> Basename[files[i]], sha |-> 0]
  <2>1. Described(index, files, Len(files)) BY <1>1 DEF FragmentIndex, Done
  <2>2. i \in 1..Len(files) /\ i \in DOMAIN index /\ index[i] \in Entry
    BY <1>1, <2>1 DEF Described, UploadTypeInv
  <2>3. index[i].file = Basename[files[i]] /\ index[i].sha = 0
    BY <2>1, <2>2 DEF Described, Entry
  <2>4. index[i] = [file |-> Basename[files[i]], sha |-> 0] BY <2>2, <2>3 DEF Entry
  <2> QED BY <2>2, <2>4 DEF ToSet
<1> QED BY <1>2, <1>3, <1>4

\* The fragment names attached captures only, and a command that was started again until
\* it ended well has archived its files as they are.
THEOREM SessionsAreArchived == UploadSpec => []SessionIsArchived
<1>1. UploadIInv => SessionIsArchived
  BY FragmentSound, RetriesSound DEF SessionIsArchived
<1> QED BY <1>1, UploadInvariant, PTL

\* What a session keeps has its type, for any captures, command lines and runs.
THEOREM UploadTypesCorrect == UploadSpec => []UploadTypeOK
<1> DEFINE Flags == exists \in BOOLEAN /\ done \in BOOLEAN
<1>1. UploadInit => Flags
  BY DEF UploadInit
<1>2. Flags /\ [UploadNext]_uploadVars => Flags'
  BY DEF UploadNext, uploadVars, githubVars, StartUpload, Grows, Hash, get_or_create_release, Skip,
         Post, UploadFragment, Cut
<1>3. UploadIInv /\ Flags => UploadTypeOK
  BY DEF UploadIInv, UploadTypeInv, UploadTypeOK, AssetNames
<1> HIDE DEF Flags
<1> QED
  BY <1>1, <1>2, <1>3, UploadInvariant, PTL DEF UploadSpec

-----------------------------------------------------------------------------
(* The storage: everything that is kept on disk.                           *)

\* Whichever of them is looked at, each program runs by its own specification, so what
\* is proved of it holds there.
LEMMA StorageRunsItsParts ==
  StorageSpec => ReportSpec /\ ProbeSpec /\ ResumeSpec /\ UpdateSpec /\ UploadSpec
<1>1. StorageInit => ReportInit /\ ProbeInit /\ ResumeInit /\ UpdateInit /\ UploadInit
  BY DEF StorageInit
<1>2. [StorageNext]_storageVars
        => /\ [ReportNext]_reportVars /\ [ProbeNext]_probeVars /\ [ResumeNext]_resumeVars
           /\ [UpdateNext]_updateVars /\ [UploadNext]_uploadVars
  BY DEF StorageNext, storageVars
<1> QED
  BY <1>1, <1>2, PTL DEF StorageSpec, ReportSpec, ProbeSpec, ResumeSpec, UpdateSpec, UploadSpec

\* What records, probes, resumed runs, updates and sessions leave on disk has its type,
\* wherever a process ended.
THEOREM StorageTypesCorrect == StorageSpec => []StorageTypeOK
<1>1. ReportSpec => []RecordTypeOK
  <2>1. ReportInv => RecordTypeOK
    BY DEF ReportInv, RecordInv, RecordTypes, RecordTypeOK
  <2> QED
    BY <2>1, ReportInitInv, ReportNextInv, PTL DEF ReportSpec
<1>2. RecordTypeOK /\ ProbeTypeOK /\ ResumeTypeOK /\ UpdateTypeOK /\ UploadTypeOK => StorageTypeOK
  BY DEF StorageTypeOK
<1> QED
  BY <1>1, <1>2, StorageRunsItsParts, ProbeTypesCorrect, ResumeTypesCorrect, UpdateTypesCorrect,
     UploadTypesCorrect, PTL
=============================================================================
