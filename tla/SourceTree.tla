----------------------------- MODULE SourceTree -----------------------------
(***************************************************************************)
(* Source packages of code governance                                      *)
(* (crates/governance-core/src/{source,scope}.rs): a working tree is       *)
(* walked while it may still be edited, packed into a content-addressed    *)
(* archive (CAR), checked out from it, and compared with another tree as a *)
(* patch and as the scope evidence of a proposal.                          *)
(*                                                                         *)
(* A path is a sequence of components, numbers in the order of their names *)
(* (the order of whole paths is abstracted to the component order).  What  *)
(* the code decides by looking at a name is given by constant sets of      *)
(* paths.  File bytes are sequences of chunks.  A CID is its codec and the *)
(* content it is the hash of.                                              *)
(***************************************************************************)
EXTENDS Integers, FiniteSets, FiniteSetsExt, Sequences, SequencesExt, TLC

CONSTANTS
    None,
    Trees,          \* the working trees a run may start with
    Contents,       \* bytes an editor may write
    NewPaths,       \* paths an editor may create
    Skipped,        \* caches, root output directories, backup files
    Vcs,            \* version control entries
    Control,        \* generated checkouts and outputs, the ecosystem lock
    Forbidden,      \* secrets, databases, archives, by name
    Binary,         \* the forbidden ones that may be declared artifacts
    Unsafe,         \* not portable
    Exclusions,     \* artifacts declared with their bytes
    Portable(_),    \* a path without its case
    Secret,         \* the chunk that matches a secret pattern
    Migration, Documentation, Consensus,    \* paths, by risk
    MaxFileSize, MaxTreeSize, MaxFiles,
    MaxEdits, MaxCheckouts

VARIABLES
    names,      \* path -> inode, or a symbolic link [link |-> path]
    inodes,     \* inode -> [bytes, executable]
    walk,       \* the packager: what is left, and the file at hand
    packages,   \* finished packages
    output,     \* directory of the checkout
    edits, checkouts

vars == <<names, inodes, walk, packages, output, edits, checkouts>>

-----------------------------------------------------------------------------
(* Content addressing *)

Cid(codec, content) == <<codec, content>>

PathBefore(p, q) ==
    \E i \in 1..Len(q) :
        /\ \A j \in 1..(i - 1) : j <= Len(p) /\ p[j] = q[j]
        /\ i > Len(p) \/ p[i] < q[i]

SortedPaths(paths) == SetToSortSeq(paths, PathBefore)

StrictlySorted(paths) == \A i \in 1..(Len(paths) - 1) : PathBefore(paths[i], paths[i + 1])

SafePath(path) == path # <<>> /\ path \notin Unsafe

\* reject_forbidden_file
NameAllowed(path) ==
    /\ path \notin Forbidden \cup Binary
    /\ \A n \in 1..Len(path) : SubSeq(path, 1, n) \notin Vcs \cup Control

\* scan_secret_content
NoSecret(bytes) == \A i \in 1..Len(bytes) : bytes[i] # Secret

EntryOf(path, file) ==
    [path |-> path, mode |-> file.mode, size |-> Len(file.bytes),
     cid |-> Cid("raw", file.bytes), sha256 |-> file.bytes]

\* One block per content, in the order of the paths that use it first.
BlocksOf(entries) ==
    LET first == {i \in 1..Len(entries) :
                    \A j \in 1..(i - 1) : entries[j].cid # entries[i].cid}
    IN  [k \in 1..Cardinality(first) |->
            LET at == SetToSortSeq(first, <)[k]
            IN  [cid |-> entries[at].cid, data |-> entries[at].sha256]]

\* encode_source_car and encode_patch_car: the root, then the contents.
EncodeCar(root, object, entries) ==
    [root |-> root, blocks |-> <<[cid |-> root, data |-> object]>> \o BlocksOf(entries)]

\* parse_car
CarParses(car) ==
    /\ car.blocks # <<>> /\ car.blocks[1].cid = car.root
    /\ \A i \in 1..Len(car.blocks) :
          /\ car.blocks[i].cid[2] = car.blocks[i].data
          /\ \A j \in 1..(i - 1) : car.blocks[j].cid # car.blocks[i].cid

Block(car, cid) ==
    LET found == {i \in 1..Len(car.blocks) : car.blocks[i].cid = cid}
    IN  IF found = {} THEN None ELSE car.blocks[Min(found)].data

-----------------------------------------------------------------------------
(* Manifests *)

\* The checks validate_manifest and validate_patch_entry make of one entry.
EntryValid(entry, car) ==
    LET bytes == Block(car, entry.cid)
    IN  /\ SafePath(entry.path) /\ NameAllowed(entry.path)
        /\ entry.mode \in {"644", "755"}
        /\ entry.cid[1] = "raw" /\ bytes # None
        /\ entry.size <= MaxFileSize /\ entry.size = Len(bytes)
        /\ entry.sha256 = bytes /\ NoSecret(bytes)

ManifestValid(manifest, car) ==
    LET files == manifest.files
    IN  /\ Len(files) <= MaxFiles
        /\ StrictlySorted([i \in 1..Len(files) |-> files[i].path])
        /\ \A i, j \in 1..Len(files) :
              i # j => Portable(files[i].path) # Portable(files[j].path)
        /\ \A i \in 1..Len(files) : EntryValid(files[i], car)
        /\ FoldLeft(LAMBDA total, entry : total + entry.size, 0, files) <= MaxTreeSize

ManifestOf(repository, files) ==
    [repository |-> repository,
     files |-> LET paths == SortedPaths(DOMAIN files)
               IN  [i \in 1..Len(paths) |-> EntryOf(paths[i], files[paths[i]])]]

SourceCar(manifest) == EncodeCar(Cid("cbor", manifest), manifest, manifest.files)

\* build_source_package
Packable(repository, files) ==
    LET manifest == ManifestOf(repository, files)
    IN  ManifestValid(manifest, SourceCar(manifest))

\* verify_source_car: the archive is the one encoding of a valid manifest.
CarVerifies(car) ==
    /\ CarParses(car) /\ car.root[1] = "cbor"
    /\ ManifestValid(car.root[2], car)
    /\ car = SourceCar(car.root[2])

-----------------------------------------------------------------------------
(* Patches *)

FilesByPath(manifest) ==
    [p \in {manifest.files[i].path : i \in 1..Len(manifest.files)} |->
        manifest.files[CHOOSE i \in 1..Len(manifest.files) : manifest.files[i].path = p]]

RemovedPaths(base, candidate) ==
    SortedPaths(DOMAIN FilesByPath(base) \ DOMAIN FilesByPath(candidate))

UpsertedFiles(base, candidate) ==
    LET old == FilesByPath(base)
        new == FilesByPath(candidate)
        paths == SortedPaths({p \in DOMAIN new : p \in DOMAIN old => old[p] # new[p]})
    IN  [i \in 1..Len(paths) |-> new[paths[i]]]

\* create_source_patch, for two archives that verify.
SourcePatch(base, candidate) ==
    [repository |-> base.repository,
     base |-> Cid("cbor", base), candidate |-> Cid("cbor", candidate),
     removed |-> RemovedPaths(base, candidate),
     upserted |-> UpsertedFiles(base, candidate)]

PatchCar(patch) == EncodeCar(Cid("cbor", patch), patch, patch.upserted)

\* validate_patch: the patch turns the files of the base into the candidate.
PatchReconstructs(patch, base, candidate) ==
    LET old == FilesByPath(base)
        removed == {patch.removed[i] : i \in 1..Len(patch.removed)}
        put == {patch.upserted[i] : i \in 1..Len(patch.upserted)}
        paths == (DOMAIN old \ removed) \cup {e.path : e \in put}
        files == [p \in paths |-> IF \E e \in put : e.path = p
                                  THEN CHOOSE e \in put : e.path = p ELSE old[p]]
    IN  /\ removed \subseteq DOMAIN old
        /\ files = FilesByPath(candidate)

PatchValid(patch, base, candidate, car) ==
    LET upserted == [i \in 1..Len(patch.upserted) |-> patch.upserted[i].path]
    IN  /\ patch.repository = base.repository
        /\ patch.repository = candidate.repository
        /\ patch.base = Cid("cbor", base) /\ patch.candidate = Cid("cbor", candidate)
        /\ StrictlySorted(patch.removed) /\ StrictlySorted(upserted)
        /\ patch.removed # <<>> \/ patch.upserted # <<>>
        /\ \A i \in 1..Len(patch.removed) :
              SafePath(patch.removed[i]) /\ \A j \in 1..Len(upserted) : upserted[j] # patch.removed[i]
        /\ \A i \in 1..Len(patch.upserted) : EntryValid(patch.upserted[i], car)
        /\ PatchReconstructs(patch, base, candidate)

\* verify_source_patch
PatchVerifies(base, candidate, car) ==
    /\ CarVerifies(SourceCar(base)) /\ CarVerifies(SourceCar(candidate))
    /\ CarParses(car) /\ car.root[1] = "cbor"
    /\ PatchValid(car.root[2], base, candidate, car)
    /\ car = PatchCar(car.root[2])

-----------------------------------------------------------------------------
(* Scope evidence: what a proposal changes, recomputed from the manifests  *)
(* and the patch without the contents.                                     *)

RiskRank(risk) ==
    CASE risk = "normal" -> 0 [] risk = "critical" -> 1
      [] risk = "migration" -> 2 [] risk = "consensus" -> 3

ClassifyPath(path) ==
    IF path \in Consensus THEN "consensus"
    ELSE IF path \in Migration THEN "migration"
    ELSE IF path \in Documentation THEN "normal" ELSE "critical"

\* validate_source_manifest_metadata
MetadataValid(manifest, repository) ==
    /\ manifest.repository = repository
    /\ StrictlySorted([i \in 1..Len(manifest.files) |-> manifest.files[i].path])
    /\ \A i, j \in 1..Len(manifest.files) :
          i # j => Portable(manifest.files[i].path) # Portable(manifest.files[j].path)
    /\ \A i \in 1..Len(manifest.files) :
          LET e == manifest.files[i]
          IN  /\ e.mode \in {"644", "755"} /\ e.size <= MaxFileSize
              /\ e.cid = Cid("raw", e.sha256)
    /\ FoldLeft(LAMBDA total, e : total + e.size, 0, manifest.files) <= MaxTreeSize

\* verify_repository_scope_proof
MutScopeProven(base, candidate, patch) ==
    /\ MetadataValid(base, base.repository)
    /\ MetadataValid(candidate, base.repository)
    /\ patch.repository = base.repository
    /\ patch.base = Cid("cbor", base) /\ patch.candidate = Cid("cbor", candidate)
    /\ patch.upserted = UpsertedFiles(base, candidate)
ScopeProven(base, candidate, patch) ==
    /\ MetadataValid(base, base.repository)
    /\ MetadataValid(candidate, base.repository)
    /\ patch.repository = base.repository
    /\ patch.base = Cid("cbor", base) /\ patch.candidate = Cid("cbor", candidate)
    /\ patch.removed = RemovedPaths(base, candidate)
    /\ patch.upserted = UpsertedFiles(base, candidate)

ScopeChanges(patch) ==
    LET removed == {patch.removed[i] : i \in 1..Len(patch.removed)}
    IN  {[path |-> p, kind |-> "remove", size |-> 0] : p \in removed}
        \cup {[path |-> patch.upserted[i].path, kind |-> "upsert",
               size |-> patch.upserted[i].size] : i \in 1..Len(patch.upserted)}

\* The counters and the risk validate_proposal_scope_evidence recomputes.
ScopeSummary(base, candidate, patch) ==
    LET changes == ScopeChanges(patch)
        Size(c) == c.size
    IN  [changed |-> Cardinality(changes),
         patchBytes |-> MapThenSumSet(Size, changes),
         sourceBytes |-> FoldLeft(LAMBDA total, e : total + e.size, 0, candidate.files),
         migrations |-> Cardinality({c \in changes : c.path \in Migration}),
         risk |-> CHOOSE r \in {"normal", "critical", "migration", "consensus"} :
                    /\ r = "normal" \/ \E c \in changes : ClassifyPath(c.path) = r
                    /\ \A c \in changes : RiskRank(ClassifyPath(c.path)) <= RiskRank(r)]

ScopeValid(base, candidate, patch, declared) ==
    /\ base # candidate
    /\ ScopeProven(base, candidate, patch)
    /\ ScopeChanges(patch) # {}
    /\ declared = ScopeSummary(base, candidate, patch)

-----------------------------------------------------------------------------
(* The working tree and the walk over it *)

Idle == [state |-> "idle", todo |-> <<>>, at |-> <<>>, stat |-> None, opened |-> None,
         bytes |-> <<>>, files |-> [p \in {} |-> None], excluded |-> {}]

Under(directory, path) ==
    Len(path) > Len(directory) /\ SubSeq(path, 1, Len(directory)) = directory

IsDirectory(path) == \E p \in DOMAIN names : Under(path, p)

\* The sorted entries of a directory.
ReadDirectory(directory) ==
    SortedPaths({SubSeq(p, 1, Len(directory) + 1) :
                    p \in {q \in DOMAIN names : Under(directory, q)}})

\* canonicalize, for a relative link to a regular file of the tree.
Resolved(path) == IF names[path].kind = "link" THEN names[path].to ELSE path

IsFile(path) == path \in DOMAIN names /\ names[path].kind = "file"

Inode(path) == names[path].inode

ModeOf(inode) == IF inodes[inode].executable THEN "755" ELSE "644"

Fail == walk' = Idle

Continue(todo) == walk' = [walk EXCEPT !.todo = todo]

StartWalk ==
    /\ walk.state = "idle" /\ edits < MaxEdits
    /\ walk' = [Idle EXCEPT !.state = "walking", !.todo = ReadDirectory(<<>>)]
    /\ UNCHANGED <<names, inodes, packages, output, edits, checkouts>>

\* The metadata of a file, taken before it is opened.
Stat(path) ==
    LET target == Resolved(path)
    IN  IF IsFile(target) /\ Len(inodes[Inode(target)].bytes) <= MaxFileSize
        THEN walk' = [walk EXCEPT !.state = "found", !.at = path,
                                  !.stat = [path |-> target, inode |-> Inode(target)]]
        ELSE Fail

\* One entry of collect_source_files.
Visit ==
    /\ walk.state = "walking" /\ walk.todo # <<>>
    /\ LET path == walk.todo[1]
           rest == Tail(walk.todo)
       IN  CASE path \in Unsafe -> Fail
             [] path \notin Unsafe /\ path \in Vcs -> Continue(rest)
             [] path \notin Unsafe \cup Vcs /\ path \in DOMAIN names /\ names[path].kind = "link" ->
                    IF path \in DOMAIN Exclusions \/ ~NameAllowed(path) THEN Fail ELSE Stat(path)
             [] path \notin Unsafe \cup Vcs /\ IsDirectory(path) ->
                    IF path \in Skipped \cup Control THEN Continue(rest)
                    ELSE Continue(ReadDirectory(path) \o rest)
             [] path \notin Unsafe \cup Vcs /\ IsFile(path) ->
                    IF path \in Skipped \cup Control THEN Continue(rest)
                    ELSE IF path \in DOMAIN Exclusions \/ NameAllowed(path) THEN Stat(path)
                    ELSE Fail
             [] OTHER -> Fail
    /\ UNCHANGED <<names, inodes, packages, output, edits, checkouts>>

\* read_stable_regular_file: the file must still be the one that was seen.
OpenFile ==
    /\ walk.state = "found"
    /\ IF /\ walk.stat.path \in DOMAIN names
          /\ IsFile(Resolved(walk.stat.path))
          /\ Inode(Resolved(walk.stat.path)) = walk.stat.inode
          /\ Len(inodes[walk.stat.inode].bytes) <= MaxFileSize
       THEN walk' = [walk EXCEPT !.state = "reading", !.bytes = <<>>,
                        !.opened = [size |-> Len(inodes[walk.stat.inode].bytes),
                                    mode |-> ModeOf(walk.stat.inode)]]
       ELSE Fail
    /\ UNCHANGED <<names, inodes, packages, output, edits, checkouts>>

\* read_to_end, a chunk at a time: the bytes may be written meanwhile.
ReadChunk ==
    /\ walk.state = "reading"
    /\ LET bytes == inodes[walk.stat.inode].bytes
       IN  /\ Len(walk.bytes) < Len(bytes)
           /\ walk' = [walk EXCEPT !.bytes = Append(@, bytes[Len(@) + 1])]
    /\ UNCHANGED <<names, inodes, packages, output, edits, checkouts>>

SizeOf(files) == MapThenSumSet(LAMBDA p : Len(files[p].bytes), DOMAIN files)

\* The end of the file: the artifact is compared, the source file is kept.
CollectFile ==
    /\ walk.state = "reading" /\ Len(walk.bytes) >= Len(inodes[walk.stat.inode].bytes)
    /\ LET path == walk.at
           files == [p \in DOMAIN walk.files \cup {path} |->
                        IF p = path THEN [mode |-> walk.opened.mode, bytes |-> walk.bytes]
                        ELSE walk.files[p]]
           more == [walk EXCEPT !.state = "walking", !.todo = Tail(@)]
       IN  IF Len(walk.bytes) # walk.opened.size THEN Fail
           ELSE IF path \in DOMAIN Exclusions
                THEN IF walk.bytes = Exclusions[path]
                     THEN walk' = [more EXCEPT !.excluded = @ \cup {path}] ELSE Fail
           ELSE IF SizeOf(files) <= MaxTreeSize /\ NoSecret(walk.bytes)
                   /\ Cardinality(DOMAIN files) <= MaxFiles
                THEN walk' = [more EXCEPT !.files = files] ELSE Fail
    /\ UNCHANGED <<names, inodes, packages, output, edits, checkouts>>

\* package_source_tree_with_artifact_exclusions, after the walk.
FinishWalk ==
    /\ walk.state = "walking" /\ walk.todo = <<>>
    /\ packages' = IF walk.excluded = DOMAIN Exclusions /\ Packable("r", walk.files)
                   THEN packages \cup {ManifestOf("r", walk.files)} ELSE packages
    /\ walk' = Idle
    /\ UNCHANGED <<names, inodes, output, edits, checkouts>>

-----------------------------------------------------------------------------
(* Checkout *)

Empty == [of |-> None, files |-> [p \in {} |-> None], done |-> FALSE]

\* prepare_output_directory: an existing directory must be empty.
StartCheckout(manifest) ==
    /\ checkouts < MaxCheckouts /\ CarVerifies(SourceCar(manifest))
    /\ output.of = None /\ DOMAIN output.files = {} /\ ~output.done
    /\ output' = [output EXCEPT !.of = manifest]
    /\ checkouts' = checkouts + 1
    /\ UNCHANGED <<names, inodes, walk, packages, edits>>

MutWritten(entry, car) == [mode |-> "644", bytes |-> Block(car, entry.cid)]
Written(entry, car) == [mode |-> entry.mode, bytes |-> Block(car, entry.cid)]

\* The files are created one after the other, in the order of the manifest.
WriteFile ==
    /\ output.of # None
    /\ LET written == Cardinality(DOMAIN output.files)
           entry == output.of.files[written + 1]
       IN  /\ written < Len(output.of.files)
           /\ output' = [output EXCEPT !.files =
                [p \in DOMAIN @ \cup {entry.path} |->
                    IF p = entry.path THEN Written(entry, SourceCar(output.of)) ELSE @[p]]]
    /\ UNCHANGED <<names, inodes, walk, packages, edits, checkouts>>

FinishCheckout ==
    /\ output.of # None /\ ~output.done
    /\ Cardinality(DOMAIN output.files) = Len(output.of.files)
    /\ output' = [output EXCEPT !.done = TRUE]
    /\ UNCHANGED <<names, inodes, walk, packages, edits, checkouts>>

\* The process stops; what it wrote stays.
InterruptCheckout ==
    /\ output.of # None /\ ~output.done
    /\ output' = [output EXCEPT !.of = None]
    /\ UNCHANGED <<names, inodes, walk, packages, edits, checkouts>>

\* An operator removes a directory.
RemoveCheckout ==
    /\ output.of = None \/ output.done
    /\ output # Empty
    /\ output' = Empty
    /\ UNCHANGED <<names, inodes, walk, packages, edits, checkouts>>

-----------------------------------------------------------------------------
(* Editors *)

Edit == edits < MaxEdits /\ edits' = edits + 1

Overwrite(path, bytes) ==
    /\ Edit /\ IsFile(path)
    /\ inodes' = [inodes EXCEPT ![Inode(path)].bytes = bytes]
    /\ UNCHANGED <<names, walk, packages, output, checkouts>>

\* A new file under the name, as editors save.
Replace(path, bytes, executable) ==
    /\ Edit
    /\ ~IsDirectory(path)
    /\ LET new == Cardinality(DOMAIN inodes) + 1
       IN  /\ inodes' = inodes @@ (new :> [bytes |-> bytes, executable |-> executable])
           /\ names' = [p \in DOMAIN names \cup {path} |->
                            IF p = path THEN [kind |-> "file", inode |-> new, to |-> <<>>]
                            ELSE names[p]]
    /\ UNCHANGED <<walk, packages, output, checkouts>>

RemoveFile(path) ==
    /\ Edit
    /\ names' = [p \in DOMAIN names \ {path} |-> names[p]]
    /\ UNCHANGED <<inodes, walk, packages, output, checkouts>>

-----------------------------------------------------------------------------
(* Committed sources *)

\* package_source_files_with_artifact_exclusions: the same rules for the files
\* of a commit, decided from the whole path.
SkipCommitted(path) ==
    \/ \E n \in 1..(Len(path) - 1) : SubSeq(path, 1, n) \in Vcs \cup Skipped \cup Control
    \/ path \in Skipped \cup Control

CommitPackage(files, exclusions) ==
    LET kept == {p \in DOMAIN files : ~SkipCommitted(p)}
        source == [p \in kept \ DOMAIN exclusions |-> files[p]]
    IN  IF /\ DOMAIN exclusions \subseteq kept
           /\ \A p \in DOMAIN exclusions : files[p].bytes = exclusions[p]
           /\ \A p \in DOMAIN source :
                 SafePath(p) /\ NameAllowed(p) /\ Len(files[p].bytes) <= MaxFileSize
           /\ Packable("r", source)
        THEN ManifestOf("r", source) ELSE None

\* read_git_tree: the committed files with their modes; anything else than a
\* regular file fails.
GitTree ==
    IF \A p \in DOMAIN names : names[p].kind = "file" /\ Len(inodes[Inode(p)].bytes) <= MaxFileSize
    THEN [p \in DOMAIN names |-> [mode |-> ModeOf(Inode(p)), bytes |-> inodes[Inode(p)].bytes]]
    ELSE None

\* package_commit_command, for a commit of the tree as it is now.
PackageCommit ==
    /\ edits < MaxEdits
    /\ GitTree # None
    /\ LET made == CommitPackage(GitTree, Exclusions)
       IN  made # None /\ packages' = packages \cup {made}
    /\ UNCHANGED <<names, inodes, walk, output, edits, checkouts>>

-----------------------------------------------------------------------------
Init ==
    /\ \E tree \in Trees : names = tree.names /\ inodes = tree.inodes
    /\ walk = Idle /\ packages = {} /\ output = Empty
    /\ edits = 0 /\ checkouts = 0

Next ==
    \/ StartWalk \/ Visit \/ OpenFile \/ ReadChunk \/ CollectFile \/ FinishWalk
    \/ PackageCommit
    \/ \E manifest \in packages : StartCheckout(manifest)
    \/ WriteFile \/ FinishCheckout \/ InterruptCheckout \/ RemoveCheckout
    \/ \E path \in DOMAIN names, bytes \in Contents : Overwrite(path, bytes)
    \/ \E path \in NewPaths, bytes \in Contents, x \in BOOLEAN : Replace(path, bytes, x)
    \/ \E path \in DOMAIN names : RemoveFile(path)

Spec == Init /\ [][Next]_vars

-----------------------------------------------------------------------------
(* verify_tree_matches_car: what a walk of a quiet tree of regular files   *)
(* packages.                                                               *)

Collected(files) ==
    [p \in {q \in DOMAIN files : \A n \in 1..Len(q) :
                SubSeq(q, 1, n) \notin Vcs \cup Skipped \cup Control} |-> files[p]]

TreeMatches(files, car) ==
    /\ CarVerifies(car)
    /\ \A p \in DOMAIN Collected(files) : SafePath(p) /\ NameAllowed(p)
    /\ Packable("r", Collected(files))
    /\ SourceCar(ManifestOf("r", Collected(files))) = car

\* A finished checkout of a package is the source the package was made from:
\* packing the directory again gives the same archive, byte for byte, and so does
\* committing it and packing the commit.  This relates the walk's rules for
\* skipped and refused names to the rules for commits and for manifests, and the
\* modes and bytes checkout_source_car writes to the ones the walk reads back.
CheckoutRepackages ==
    output.done =>
        /\ TreeMatches(output.files, SourceCar(output.of))
        /\ CommitPackage(output.files, [p \in {} |-> None]) = output.of

\* Patches a submitter may make of the entries of two packages.
PatchesBetween(base, candidate) ==
    LET made == SourcePatch(base, candidate)
        Without(s, i) == RemoveAt(s, i)
    IN  {made}
        \cup {[made EXCEPT !.removed = Without(@, i)] : i \in 1..Len(made.removed)}
        \cup {[made EXCEPT !.upserted = Without(@, i)] : i \in 1..Len(made.upserted)}
        \cup {[made EXCEPT !.upserted = candidate.files]}

\* The scope evidence a proposal is judged by and the patch archive reviewers
\* apply describe the same transition: a patch that verify_repository_scope_proof
\* accepts verifies as an archive (validate_patch) and turns the base into the
\* candidate; and the patch create_source_patch makes is always accepted by both.
ScopeIsThePatch ==
    \A base, candidate \in packages :
        base # candidate =>
            /\ PatchVerifies(base, candidate, PatchCar(SourcePatch(base, candidate)))
            /\ ScopeProven(base, candidate, SourcePatch(base, candidate))
            /\ \A patch \in PatchesBetween(base, candidate) :
                  ScopeProven(base, candidate, patch) =>
                      PatchVerifies(base, candidate, PatchCar(patch))

\* A source package says what a checkout of it holds and what a patch touches.
PackagesSound == CheckoutRepackages /\ ScopeIsThePatch
=============================================================================
