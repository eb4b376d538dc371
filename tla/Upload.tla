------------------------------- MODULE Upload -------------------------------
(***************************************************************************)
(* bench-data-upload SESSION FILE...: the captures of one session become   *)
(* assets of its GitHub release, the fragment that indexes them the last   *)
(* one.  A run may be cut off anywhere, a POST may succeed and its answer  *)
(* be lost, a capture may still be growing, and the operator starts the    *)
(* command again with the same or other files.                             *)
(*                                                                         *)
(* The release (GitHub) is external: it refuses a second asset of a name.  *)
(* A file's content is how often it has grown; its hash is its content.    *)
(***************************************************************************)
EXTENDS Integers, FiniteSets, Sequences, SequencesExt

CONSTANTS
  Paths,           \* capture files on the Pi
  Basename,        \* per path, the name of its asset
  Uploads,         \* command lines: the sequences of paths a run may be given
  MaxUploads,      \* bound: runs of the session
  MaxGrowth        \* bound: how often a file grows

Fragment == "manifest"   \* manifest-SESSION.json

\* A run is given a file at least, and none is called like the fragment.
ASSUME UploadAssumption ==
  /\ Uploads \subseteq Seq(Paths) /\ <<>> \notin Uploads
  /\ \A p \in Paths : Basename[p] # Fragment
  /\ MaxUploads \in Nat /\ MaxGrowth \in Nat

VARIABLES
  content,     \* per path
  release,     \* per asset name, what is attached: [path, content], the id being the name
  index,       \* the entries of the attached fragment
  exists,      \* whether the release is there
  doing,       \* "idle", "hash", "release", "upload" or "fragment"
  files,       \* the files of the run
  next,        \* the file it is at
  entries,     \* fragment["captures"]
  attached,    \* the assets of the release when it was fetched
  done,        \* whether the last run ended well
  asked,       \* the command lines of the session so far
  uploads

githubVars == <<release, index, exists>>
uploadVars == <<content, githubVars, doing, files, next, entries, attached, done, asked, uploads>>

UploadInit ==
  /\ content = [p \in Paths |-> 0]
  /\ release = <<>> /\ index = <<>> /\ exists = FALSE
  /\ doing = "idle" /\ files = <<>> /\ next = 1 /\ entries = <<>> /\ attached = {}
  /\ done = FALSE /\ asked = {} /\ uploads = 0

StartUpload(paths) ==
  /\ doing = "idle" /\ uploads < MaxUploads
  /\ uploads' = uploads + 1 /\ asked' = asked \union {paths}
  /\ doing' = "hash" /\ files' = paths /\ next' = 1 /\ entries' = <<>> /\ done' = FALSE
  /\ UNCHANGED <<content, githubVars, attached>>

\* tshark writes on.
Grows(p) ==
  /\ content[p] < MaxGrowth
  /\ content' = [content EXCEPT ![p] = @ + 1]
  /\ UNCHANGED <<githubVars, doing, files, next, entries, attached, done, asked, uploads>>

\* entry: the hash of a file.
Hash ==
  /\ doing = "hash"
  /\ entries' = Append(entries, [file |-> Basename[files[next]], sha |-> content[files[next]]])
  /\ IF next < Len(files) THEN next' = next + 1 /\ UNCHANGED doing
     ELSE next' = 1 /\ doing' = "release"
  /\ UNCHANGED <<content, githubVars, files, attached, done, asked, uploads>>

\* A run that ends before its end: an error of GitHub, a signal, the power.
Cut ==
  /\ doing # "idle" /\ doing' = "idle"
  /\ UNCHANGED <<content, githubVars, files, next, entries, attached, done, asked, uploads>>

\* The assets are listed once; the answer to a POST that creates may be lost.
get_or_create_release ==
  /\ doing = "release"
  /\ exists' = TRUE
  /\ \/ doing' = "upload" /\ attached' = DOMAIN release \union (IF index = <<>> THEN {} ELSE {Fragment})
     \/ doing' = "idle" /\ UNCHANGED attached
  /\ UNCHANGED <<content, release, index, files, next, entries, done, asked, uploads>>

Advance ==
  IF next < Len(files) THEN next' = next + 1 /\ UNCHANGED doing
  ELSE doing' = "fragment" /\ UNCHANGED next

\* upload_asset of a capture: skipped if its name was listed.
Skip ==
  /\ doing = "upload" /\ entries[next].file \in attached
  /\ Advance
  /\ UNCHANGED <<content, githubVars, files, entries, attached, done, asked, uploads>>

\* Otherwise posted, as it is now; the answer may be lost, a second asset of the name is
\* refused, and both end the run.
Post ==
  /\ doing = "upload" /\ entries[next].file \notin attached
  /\ \/ /\ entries[next].file \notin DOMAIN release
        /\ release' = [name \in DOMAIN release \union {entries[next].file} |->
                         IF name \in DOMAIN release THEN release[name]
                         ELSE [path |-> files[next], content |-> content[files[next]]]]
        /\ Advance \/ (doing' = "idle" /\ UNCHANGED next)
     \/ /\ entries[next].file \in DOMAIN release
        /\ doing' = "idle" /\ UNCHANGED <<release, next>>
  /\ UNCHANGED <<content, index, exists, files, entries, attached, done, asked, uploads>>

\* Slipped: the fragment goes first.
FragmentTurn == doing \in {"upload", "fragment"} /\ (doing = "upload" => next = 1)

FragmentLast == doing = "fragment"

UploadFragment ==
  /\ FragmentLast
  /\ \/ Fragment \in attached /\ UNCHANGED index /\ doing' = "idle" /\ done' = TRUE
     \/ /\ Fragment \notin attached /\ index' = entries
        /\ doing' = "idle" /\ done' \in BOOLEAN
  /\ UNCHANGED <<content, release, exists, files, next, entries, attached, asked, uploads>>

UploadNext ==
  \/ \E paths \in Uploads : StartUpload(paths)
  \/ \E p \in Paths : Grows(p)
  \/ Hash \/ get_or_create_release \/ Skip \/ Post \/ UploadFragment \/ Cut

UploadSpec == UploadInit /\ [][UploadNext]_uploadVars

-----------------------------------------------------------------------------
UploadTypeOK ==
  /\ content \in [Paths -> 0..MaxGrowth] /\ exists \in BOOLEAN /\ done \in BOOLEAN
  /\ doing \in {"idle", "hash", "release", "upload", "fragment"}
  /\ DOMAIN release \subseteq {Basename[p] : p \in Paths}
  /\ asked \subseteq Uploads /\ uploads \in 0..MaxUploads

\* The fragment is the last asset and is posted once: whatever was cut off or lost,
\* every capture it lists is attached (so the index names no capture that is not there).
FragmentTellsTheAssets ==
  \A i \in DOMAIN index : index[i].file \in DOMAIN release

\* Starting the command again until it ends well archives a session: if all its runs
\* were given the same files, of distinct names and no longer growing, each file is
\* attached as it is and indexed under its own hash.
RetriesFinishTheUpload ==
  done /\ Cardinality(asked) = 1 =>
    \A i \in DOMAIN files :
      LET p    == files[i]
          name == Basename[p]
      IN  content[p] = 0 /\ (\A j \in DOMAIN files : j # i => Basename[files[j]] # name) =>
            /\ name \in DOMAIN release /\ release[name] = [path |-> p, content |-> 0]
            /\ \E e \in ToSet(index) : e = [file |-> name, sha |-> 0]

\* What the two say together of a session, however often its command was cut off.
SessionIsArchived == FragmentTellsTheAssets /\ RetriesFinishTheUpload
=============================================================================
