# nixgg: a TLA+ verification project

nixgg turns the steps of an ordinary `make` into Nix derivations.  A shim binary
takes the place of `cc`, `ar`, `ld`, `objtool`, `objcopy` and `rustc`; instead of
running the tool it writes an expression (a *thunk*) that says how to run it, and
leaves a placeholder at the output.  `nixgg force` later builds the whole graph in
one `nix build` and copies the results over the placeholders.

Every recipe line of a `make -jN` is a process of its own.  The processes share
the working tree and the directory `.nixgg/` and take no lock anywhere: the
correctness of nixgg rests on the order of a handful of system calls.  That is what
this project models, checks with TLC and, where it matters most, proves with TLAPS.

## 1. Inventory

State is on disk unless stated otherwise; paths are under `src/go/internal/`.

| Component | State | Operations | Interacts with | What is hard | Correct when |
|---|---|---|---|---|---|
| thunk store (`thunk/`) | `thunks/<id>.nix`, `symlinks/<id>` manifests, `promoted/<path>` records | Write, LinkPlaceholder, RecordSymlink, RecordPromoted, LookupPromoted | called by every shim, by realise and by force | concurrent writers, kills between calls, non-atomic record | expressions whole and immutable; placeholders resolve and are recorded; a record names the bytes at its path |
| realise (`realise/`) | none of its own; a helper `.nix` while it runs | Realise, CollectThunks, promoteManifest, PromoteToStore | reads thunks and manifests, runs `nix build`, rewrites the tree and records | runs next to shims; unlink + rename + record are three steps; stale manifest lines | everything of the built graph ends as a copy of its build; newer outputs survive |
| classify (`classify/`) | none | Target | reads tree and records for shims, force, passthrough | looks twice: Lstat, then readlink or record | an operand is described as what it is |
| link and archive shims (`shim/link.go`, `archive.go`, `storeinput.go`, `ld.go`) | process locals | classifyInputs, Link, Archive, AUTOFORCE | classify, thunk store, realise, batching, members | operands change while they are being classified | the expression refers to what the operands are |
| compile shim (`shim/compile.go`, `mode/`) | process locals | Compile, submitCompileThunk, realiseAndLink | scan, stage, thunk store, realise | the same object compiled in several modes | one expression per compile, published last |
| objtool/objcopy shims | tool memo in a scratch directory | rewrite in place as a second expression | compile's placeholder | two expressions of one name in one recipe | consumers see the rewrite |
| passthrough (`shim/passthrough.go`) | none | RealiseThunkArgsAndPassthrough | classify, realise, the real tool | failures are only logged | only for operands that are not nixgg's |
| force (`cli/force.go`) | none | cmdForce, findRootTargets | classify, realise, batching | other forces' helpers among the thunks | forces what was asked, or every root |
| scan cache (`scan/`) | `scans/<key>.{out,deps}` | Run, RunRust | compile | two files renamed separately; mtimes read late; key without directory | a hit returns what a scan would return |
| stage (`stage/`) | `srcs/<tu-id>/` hardlinks | Sources, ContentFiles | compile, `nix build` reads it | remove and refill without lock; inode reuse | the directory holds exactly the scanned sources |
| batching (`batch*/`, `shim/batch*.go`, `expr/batcharchive.go`) | `batches/<group>/*.json`, pending stubs in the tree | defer, combine, resolve | compile, archive, link, force | several resolvers of one member; stub written in place; name clashes; parallel script | each member compiled once, in the archive once, failures not lost |
| thin-archive members (`members/`) | `members/<key>.json` | Write, Read | archive writes, link reads | written after the archive is visible | a consumer of a thin archive depends on its members |
| sandbox mode (`sandbox/`, `drvref/`) | stubs in the tree, derivations in the store | DerivationAdd, StoreAdd*, SubmitOutput, PointOutputAtDrv | the daemon; all shims | errors only logged; map order; stubs in place | the target's derivation is submitted, once, under its key |
| daemon client (`rpc/`, `nar/`, `aterm/`) | a connection | Dial, operations | sandbox | handshake by version, error frames mid-reply | the two ends agree where they are in the stream |
| assemble (`assemble/`, `cli/assemble.go`) | none | Walk, StageForScan, Build | store | reads a graph twice | the closure is complete |
| expression and derivation rendering (`expr/`, `storedeps/`, `wrapperenv/`) | none | the step of each kind, ToNix, toJSON, buildScript | all shims, the Nix helpers | two renderings of one step; words that spell a marker | a step has one derivation in every mode |
| dispatch (`dispatch/`) | none | FromArgv0, ExpandRspfiles, IsCompile | all shims | | each tool reaches its shim |
| rustc shim (`shim/rustc*.go`) | process locals | Rustc | scan, sandbox | as the other shims in sandbox mode | |
| start-up, configuration, activity log (`main.go`, `cli/`, `toolchain/`, `activitylog/`, `paths/`) | environment | run, FromEnv, Resolve | all | | |
| Nix helpers (`src/nix/`) | none | templates | evaluated by Nix | | |

`PROJECT.json` repeats the list with the status of each, and lists the hazards at
their lines with the properties that cover them.

## 2. Plan

Done, in this order:

1. **ThunkWrite** with its abstract specification **ContentStore**: the one place
   where many writers share a file name.
2. **Workspace**, **Realise**, **NativeBuild**: native mode end to end, the core of
   the system.  `NativeBuild` composes the shims with `Realise` and uses `thunks/` as
   the indivisible store that ThunkWrite is shown to implement.
3. **ThunkWriteProofs**, **NativeBuildProofs**.
4. **ScanCache** and **Stage**, composed by **Compile**: from a source to the
   expression that names its staging directory, under edits; **CompileProofs**.
5. **DaemonClient** with its abstract specification **StoreService**: the worker
   protocol of sandbox mode.
6. **Batching**: all modes, batch groups, thin archives, targets and capture over one
   working tree, on a store whose requests are StoreService's.
7. **BatchScript** and **BatchScriptProofs**: the shell script of a combined archive.
8. **Derivation**, **LinkLine**, **CompileLine**, composed by **Rendering**: from a
   command line to the derivation, in both renderings.
9. **Induction**, **ConsumerProofs** over NativeBuild, the staging part of
   **CompileProofs**, and **BatchingProofs**.
10. **DaemonClientProofs**.

To come:

- *ForceRoots*, findRootTargets next to other forces, on Workspace.
- An order-keeping reading of the include options, should the code gain one: then
  `SameUnit` loses its precondition.
- The rustc shim.

## 3. Modules

### ContentStore and ThunkWrite

`ContentStore` is what `.nixgg/thunks/` promises: a set of ids, each published in one
step, whole, for ever.  `ThunkWrite` is `thunk.Write` (`thunk/thunk.go:41-74`), one
action per system call: `Stat`, `CreateTemp`, `WriteChunk` (a body takes `Chunks`
writes), `Rename`, and the failure branches `RenameFails`/`Recheck`, `IOError` (the
deferred `os.Remove` runs) and `Kill` (nothing runs).  A file is the id whose body it
holds and how much of it; that is all a reader can tell a whole expression from a torn
one by.  `StoreSpec` is the refinement, with `visible` = the ids whose file is whole.

### Workspace

The shared files of native mode: `tree` (absent, a symlink to a thunk, or a regular
file with the id its bytes were built from; `NoId` for bytes nixgg did not make),
`thunks`, `manifest`, `promoted`, and one observation variable, `latest`, the id a
recipe last published at a path, which no action reads except through the guard
`UpToDate` that stands for make's staleness test.

A thunk id stands for the expression *and* for what it builds to: ids are hashes of
the text and builds are deterministic.  What an expression refers to (`Refs`), which
of that the import scanner sees (`Imports`) and which outputs may carry it
(`Outputs`) are constants, so the theorems hold for every graph.

### Realise

`realise.Realise` for one process: `Collect` is CollectThunks one import at a time
(depth first, visited set, missing thunks skipped), `Build` is the helper file and
the one `nix build`, `OpenManifest`/`NextLine` are promoteManifest (the target goes
first, then the root's manifest, then the children's), and `Unlink`, `Rename`,
`Truncate`, `Record` are PromoteToStore: `os.Remove`, `os.Rename`, and RecordPromoted's
`os.WriteFile` split into its open and its write.  `fh` remembers whether the record a
process has open is still the file at its path, because a shim may unlink it in
between.  `StartRealiseAlone` is realiseAndLink.  `SkipLine` and `CanFail` are its two
error paths: a manifest line's error is logged, the target's is returned.

### NativeBuild

Processes: `recipe` (compile, archive or link shim), `objtool` (the shim that follows
in the same recipe), `force`, and `passthrough` (a shim that has given up on
modelling).  A recipe classifies its operands one by one (`Lstat`, then `Readlink` or
`Lookup`), writes its expression (`Write`), publishes it (`RemoveOutput`,
`PutSymlink`, `Unpromote`), records it (`Scan`, `AppendLine`), and then ends, goes on
to objtool or realises its output (`ThenEnd`, `ThenObjtool`, `ThenRealise`).
`Unmodelled` turns a shim into a passthrough, whose `RealiseArg` and `Exec` realise
what operands they can and run the real tool.  `RealTool` is a tool nixgg does not see.

External, modelled by what the program is used under: make (`MakeAllows`: no recipe
next to one of its prerequisites; `UpToDate`: prerequisites are remade first) and the
real tools.  `ForceAnyTime` says whether `force` may run while make has not finished
with the target; every passing run has it FALSE.

Abstractions, besides those above: timestamps (only `UpToDate` is left of them),
`MkdirAll` and `Chtimes`, a write of a promoted record that is cut short (a record is
one write after a truncation, so a reader or a kill can find it empty, which
LookupPromoted takes for none and which reads as `NoId`; a short write, as on a full
disk, is left out, and thunk.go:148-151 would take a record that lost the end of its
second line for a whole one), `RealiseArg`'s classification is one step, force's `os.Stat` of the recorded thunk (thunks are never removed), directory
walks for `.nixgg`, and argument parsing.  What recipes do in the other modes, with
groups and with thin archives is `Batching`; command lines are `LinkLine` and
`CompileLine`.

### ScanCache, Stage and Compile

`ScanCache` is `scan.Run`: `ReadDeps` (depsStillFresh), `ReadOut` (the hit), `Scan`
(runScanner), `StatDeps` (the times, which the code takes when the preprocessor is
done), `WriteOut` and `WriteDeps` (two renames, no lock), `WriteFails`.  `Stage` is
`stage.Sources`: `CheckReuse` (reuseOK), `Clear` (RemoveAll, one entry at a time),
`Link` (one os.Link).  `Compile` is the shim around them: `Start`, `Publish`, the
failures (`CacheWriteFails`, `Stop`), and the edits of the working tree.

A path is the sequence of its names, so that project roots, the paths below them and
the tu-ids hashed from those are computed as the code does.  Files have inodes; bytes
and times belong to inodes, because a staged hardlink shows the bytes of an edit in
place and not those of an edit by rename.  An inode is used again when its last name
is gone.  What the preprocessor does is `Lookups`: for each content of a source, the
lists of places where an included file may be, in search order; a scan takes the first
place of a list that exists.  That the headers include headers is in the lists: of a
header only its existence and its time count.

What the expression holds is the name of the directory and of the source in it, and
NativeBuild takes one for what it builds to; `BuildsOwnSources` is what makes that
true, up to the next edit.  `settled` is an observation: the commands that are done
and whose files nobody has edited since.

Taken for granted: each edit gives a new time, later than all before; nobody edits a
file a running compile may read (`Quiet`), nor does make start a compile whose source
is missing or two recipes of one target; commands with one scan key run in one
directory with the same -I directories (`KeyAssumption`).  Which files may come into
being is the constant `Created`: in *compile* only sources, that may be deleted and
written again.  Left out: symlinked sources, the copy when a hard link is not possible,
directory entries of `srcs/` without files, and malformed cache files (both are renamed
into place whole).  The include directories and flags of a scan are `CompileLine`'s.

### StoreService and DaemonClient

`StoreService` is what a shim asks of the store, whichever way the call travels: one
request at a time (`Ask`), performed at most once (`Perform`), and answered with the
path of what was asked for (`Answer`) or with an error (`Refuse`) that does not say
whether the request was performed.  `DaemonClient` is `rpc/`, read by read and write by
write: Dial with its handshake, AddDerivation, AddDirectory, AddToStoreScanning,
SubmitOutput, the error and log frames of `wire.go`.  The client is straight-line code,
so its state is the list of steps it has still to take (`todo`); a reply whose shape
depends on what was read (a count, a log message, the negotiated version and features)
replaces its step by those that read the rest.  Both directions are FIFO streams of the
protocol's primitives; what the client has written and not flushed is in `buffered`.

The daemon is external, modelled by what the client relies on: it speaks any of
`DaemonVersions` (of the 16 bits that the client looks at) and `DaemonFeatures`, sends log messages wherever the protocol lets it
(`Log`), refuses a request with or without traces (`Refuse`), and its connection may
drop (`Drop`).  `ServiceSpec` is the refinement to StoreService.  An upload is its
size; NAR and ATerm, the formats of what is uploaded, are not modelled, nor is the
fallback to the `nix` command, which is StoreService again.

### Batching

The recipes of a parallel make in every mode: native (thunks and symlinks), sandbox
(registered derivations and drvref stubs) and eager (registered derivations and
symlinks).  A recipe classifies its operands one at a time, resolves the pending ones,
collects the members of thin archives (`expandMembers`), registers or writes its
derivation, publishes its output (`remove`, then a symlink in one step that fails on
EEXIST, or a stub that is created empty and filled by those who hold it open), writes
its sidecar if it is a thin archive, and submits what is a target
(`maybeSubmit`, `targetOutputKey`).

A compile whose source is in a batch group is *deferred*: it uploads its sources,
writes its member record and leaves a pending stub.  An archive folds the members of
the first group it meets into one derivation (`collectSameGroupMembers`,
`disambiguateOutNames`, `submitCombinedArchive`); whoever else finds a pending stub
resolves it into the single compile it would have been (`ResolvePendingMember`).
`cmdAssemble` is the capture after the build.  `Kill` and `Rerun` are a recipe that
dies and the make that starts again.

A derivation is its own store path, so two recipes that render alike share it.
`Settings` are the environments: the mode, the group of each source, and which outputs
are targets under which key.  External: make (`Start`, `Rerun`) and what the outer
build does with what was submitted (`SubmitOutput`).

### BatchScript

The builder script that `expr/batcharchive.go` generates, one action per shell command
that matters: `Launch` a compile in the background, `wait` for the oldest when
NIX_BUILD_CORES (which may be unset, zero or no number) are running, wait for the rest,
and either give up or run `ar` over the objects.  A compile ends at any time, well or
not (`CompileEnds`).

### Derivation, LinkLine, CompileLine and Rendering

`Derivation` is one step as package `expr` sees it, and its two renderings: the thunk,
which is text with marker words that the Nix helper of its kind replaces when Nix
evaluates it (`Evaluate`), and the JSON derivation.  Words are triples of an option, a
directory and a name, text is a sequence of them; a caller's word may spell a marker,
which is what the choice of a fresh tag is for.

`LinkLine` is how the link and ld shims read a line: outputs, operands, groups,
whole-archive spans, libraries and where they are looked for, dependency flags.
`CompileLine` is the compile shim's: which word is the source, the output's default
name, the dependency file, the include directories and forced includes, what the
scanner makes of them (`runScanner`, `stagedIFlags`), and the options the staged
compile gets (`rewriteFlags`).  The preprocessor itself is external, and explicit:
`World` is its search path under given options, `Opened` the file an include opens,
`Unit` all files of a translation unit.

`Rendering` runs an invocation: the shim reads the line and classifies its operands
(`Compile`, `Link`, `Archive` and the others), `RenderNix` writes the thunk and
`RenderJSON` registers the JSON derivation, in either order; `Realise`, which is Nix,
evaluates the thunk.

Abstractions: quoting (shell, Nix, JSON), the digits of hashes, `.incbin`, response
files, the letters of `ar`'s modifiers but T, and the shortcuts of configure probes.

### MC modules

`MCThunkWrite` and `MCNativeBuild` give the constants values.  In `MCNativeBuild` an
id is a record of the outputs it may be written to, the variant of the command line
and its references, so distinct expressions have distinct ids by construction.  Three
graphs: *Objtool* (an object rewritten in place, and its archive), *Shared* (two
executables with one object in common, which objtool may rewrite), *Twin* (two archives
with one expression, and an executable over one of them).

`MCCompile` is two source directories and one of headers; a's source is compiled to two
outputs with the same flags, so they share a scan key, and includes a header that is
found in one of two places.  *compile* is those two; *tu_clash* also compiles b's source,
to an output of the name that a's has.

`MCBatching` is two objects of one basename in a thin archive, which is a member of
another next to a third object; a plain archive shares an object with each, and an
executable links the outer and the plain one, so that every archive can meet another
consumer at a deferred object.
Eight environments: three modes, with one group, two or none, with two targets, one
plain one or none, and the captured tree.

`MCDaemon` is a derivation with two references, a tree, an empty captured upload and a
submission, against daemons older and newer than the client.  `MCBatchScript` gives the
values of NIX_BUILD_CORES.  `MCRendering` is all command lines of a few parts over a
dozen files, built or not yet, and a small source tree in which several headers share a
name; `VmlinuxCalls` is the line that Linux links `vmlinux.o` with.

## 4. Runs

| Run | Instance | Question | Result |
|---|---|---|---|
| thunk_write | 3 writers, 2 ids, 2 chunks, any failure, any kill | are expressions torn, lost or littering; is it a write-once store; does every write end | none; it is; they do |
| make | Shared, foo rewritten by objtool, prog2 realised in its own link, the library bar forced between makes | do consumers refer to what their operands are, raw or rewritten; does a shim fall back needlessly | they do; never |
| force | Twin, a bypassed compile, one failure or kill anywhere | after force between makes: do references resolve, are placeholders and records right, is the graph complete | holds |
| autoforce | Shared, both executables AUTOFORCE, fair | two links realise shared objects at once: records, completeness, termination | holds |
| compile | one source, two outputs, one scan key; one failure or kill | is a cache hit ever stale; does a staging directory hold what its command reads, and nothing else | never; it does |
| daemon | two calls, any daemon; one log message, one drop | do client and daemon stay in step; is the store the one callers rely on; does every call return | they do; it is; it does |
| batch | eight environments, make -j2, one kill | is each object in its derivation once and with its sources; are thin members declared; who falls back on the real tool; is the capture real; are targets submitted | it is; they are; only over an operand with a second consumer; it is; they are |
| batch_script | four members, any of which fails | does the script keep to its cores; is a failure ever lost | it does; never |
| renderings | all lines of up to three parts | do the renderings agree; does a staged compile read what the scan found; does a link keep its files, order and spans | they do; it does; it does, but for the lines named below |
| objtool_force, tu_clash, whole_archive | | what the documentation says | violated, see below |

**Bounds.**  Two processes in NativeBuild: every race in the code is between two users
of one path or one thunk; the store itself is checked with three and proved for any
number.  Two variants of the command line where outputs are rebuilt, so that a path
has an old and a new id.  `MaxJobs` 5 or 6 starts: enough to make the whole graph,
force it, and make part of it again with force or another recipe alongside.
`MaxFaults` 1 in *force*: the properties under failures are about what one failure
leaves behind.  `RecordMatchesCopy` holds under that failure because every output of
the graph goes through LinkPlaceholder, which drops the old record before a promotion
can write new bytes.  In *compile* two shims (two scans of one key, two stagings of
different ids), three compiles (two that write the entry and one that finds it) and two
edits (`MaxClock`: a deletion and what it hides or brings back) of `Edited`, a source
and a header; inodes are given out lowest first.

In *daemon* two calls (`MaxCalls`), so that what the first leaves behind could meet the
second, one log message and one drop: each is possible at every point, and the client
keeps nothing between two log messages.  In *batch* two recipes at once (`MaxJobs`),
one kill.  In *batch_script* four members and up to six cores: fewer cores than
members, as many, and more.  In *renderings* up to three operands, libraries and spans,
up to two parts of any kind, and up to three include options: three is what it takes to
put something between two others.  Symmetry over processes is used in the safety runs of
NativeBuild and Compile only, never together with a liveness property.

Every run has `CHECK_DEADLOCK FALSE`, because every one of these systems may stop: when
the jobs, calls or members are used up or killed there is nothing left to do.  That
nothing stops before its work is done is the liveness properties' part.

**Fairness.**  In ThunkWrite and NativeBuild `FairSpec` asks for weak fairness of each
process's own next step, which is the operating system's scheduling of a runnable
process.  In Batching it is weak fairness of the build as a whole (`WF_vars(Build)`):
recipes are finite and none waits for another, so that some step is taken is enough.
In DaemonClient both ends are scheduled (`WF_vars(Client)`, `WF_vars(Daemon)`); neither
log messages nor drops are required.  Nothing is asked of users, failures or kills.

**What the violations show.**

- *objtool_force.*  The raw compile thunk's manifest lists the object objtool rewrote,
  children are promoted after the root, and the raw object is the last one copied.  No
  concurrency is needed.  objtool.go:28-31 promises the rewrite to later consumers.
- *tu_clash.*  The tu-id is the hash of the output's path below the project root of its
  own scan.  When nothing in a compile lies outside its directory, that root is the
  directory and the path is the base name, so `a/x.o` and `b/x.o` share one staging
  directory, and the second compile's sources replace the first's before either is
  built.  stage.go:226-230 rules this out; it needs no concurrency.
- *whole_archive.*  `ld -r` keeps the whole-archive brackets as flags and puts all flags
  before all operands, so the span closes before its archive, which is then loaded like
  any library.  link_test.go:614-619 has this very line as the one spans are kept for.

**Known divergences not kept as runs.**  Found with these modules, by a property or a
setting that the passing runs exclude; each excluded case is named where it is.

- A manifest keeps a path after the path has been relinked to another thunk, and
  promoteManifest (realise.go:214) asks only whether the path exists: a force whose
  graph still contains the old thunk puts the old bytes over the new output.
  ARCHITECTURE.md:337-339 says stale entries are filtered at read time.  *objtool_force*
  is the same line within one graph.
- Nothing removes a promoted record when a tool outside nixgg replaces the file
  (classify.go:127), although the record is documented (thunk.go:105-107,
  ARCHITECTURE.md:263) as saying what the file was built from.
- copyThroughRename is described as atomic (realise.go:275), but its caller unlinks
  first (realise.go:311): with two realising links in one make, the other link takes
  the operand for missing and runs the real linker.
- A promotion that stops between its rename and its record (realise.go:265) leaves new
  bytes under the record of the previous build, when realiseAndLink rebuilt the output.
- `.deps` has a line for every file the scan found (scan.go:192) and none for a place
  where it found nothing.  A header that comes into being at such a place leaves the
  entry fresh (scan.go:70), and the compile goes on without it.
- The include options do not keep their kinds and order (scan.go:233-264).  `-I.` comes
  first whatever the caller asked for, so a header in the project root, which is the
  source's own directory when nothing lies outside it, shadows one of the C library,
  which is what the comment at scan.go:258-263 sets out to avoid; `-I`, `-isystem`,
  `-iquote` and `-idirafter` become one list, with store directories last; a forced
  include is looked for in the working directory only.  `SameUnit` asks where an
  include's name means one file (`OneMeaning`), and fails without that.
- A link line is not always put together as it was (`LineKept` names the lines, and
  fails on each of these kinds in *renderings* without its premise).  A driver's
  `-Wl,--whole-archive` is understood (link.go:214-216, and link_test.go:629-634 has it
  as the spelling of a driver-invoked link) and comes out as a bare `--whole-archive`
  whatever the tool (derivation.go:412-414; groups are told apart, at 445-450), which
  no compiler driver accepts (`SpansSpelled`).  A library is looked for in the
  directories read so far (link.go:231), where a linker takes all of them: with its
  `-L` after it, a library of the build's own stays a flag that the derivation cannot
  resolve (`DirsFirst`).  `ld -r` keeps groups and libraries as flags before all
  operands, like the spans of *whole_archive* (`PlainRelocatable`).  And a span is kept
  by basename (derivation.go:412), so that a second file of that name outside it is
  drawn in: the instance has no such line.
- Of the line itself: `-Wp,-D...` is dropped (compile.go:398-405), a joined
  `-isystemDIR` is left as it is, after `-x lang` the separate value of an option is
  taken for the source, and so is `-DX=a.c`.

## 5. Proofs

Each theorem holds for all values of the constants that satisfy the assumptions named
`...Assumption` in the modules.  TLC evaluates all of those on the runs, and checks the
`IInv` of ThunkWrite, NativeBuild, Compile and BatchScript as invariants.  Some theorems
need hypotheses besides, which the code does not guarantee for every project:

| Hypothesis | What it says | Used by | Without it |
|---|---|---|---|
| `NoNewHeaders` | no file comes into being where a scan has looked for it in vain | the theorems on the cache and the sources | the cache is unsound (section 4) |
| `DistinctTus` | no two outputs are staged under one tu-id | `StagedSourcesAreOwn` | *tu_clash* |
| `ConventionalNames`, `CapturesUngrouped` | outputs are named for the step that makes them; a captured build has no batch groups | `CapturesAreReal` | a stub whose name lies about its step, or one still pending, is captured as nothing |
| `RecipeRanks` | outputs have ranks that go down along operands | `DerivationsBuildTheMakefile` | none: make drops circular dependencies |
| `NoGeneratedNames` | no object of an archive has the basename that another one, as the nth of its basename, is given in a batch | `DerivationsBuildTheMakefile` | disambiguateOutNames makes two `cpu-2.o` of cpu.o, cpu.o and cpu-2.o, and one object is lost |
| `PlainMake` | force runs only between makes; no AUTOFORCE; no tool nixgg does not see writes an output; what realises itself or is forced, and what that depends on, is not rewritten by objtool and shares no expression with another output | `ConsumerProofs` | an operand may change under a shim; *objtool_force* |
| `Ranks` | ids have ranks that go down along imports | `ForcesAreComplete` | none: ids are hashes of texts that hold those they import |

That they can be satisfied is checked too: the assumption `Hypotheses` of `MCCompile`,
`MCBatching` and `MCNativeBuild` says in which of the instances they hold: *compile* and
not *tu_clash*; *batch*; *make* and, for `Ranks`, all runs of NativeBuild.

`Induction` has what the others need of the naturals: that a set of them has a least
element, from the well-foundedness of `<`, and with that, first-order, that what holds of
0 and of successors holds of all, and that a function defined by repeating a step exists.

**ThunkWriteProofs**, for any processes, ids and chunks.  A rename publishes whatever its
temp file holds, so `NeverTorn` alone is not inductive; `IInv` adds `TempOK`: a process
owns a temp file from its create to its rename, the file is of its own id, and it is
complete once the process is about to rename; what a return leaves behind (`NoLitter`)
and promises (`DoneIsVisible`, which no later step undoes, since expressions are never
withdrawn) are part of it.  From it follow `ThunksNeverTorn`, `WritesAreVisible`,
`ReturnsLeaveNoTemp`, `ThunksImmutable` (a rename over an existing file rewrites the same
bytes) and `Refinement` (a rename publishes or stutters, all else stutters).

**NativeBuildProofs**, for any workspace and graph, any number of processes, any number
of failures and kills, with `ForceAnyTime` either way.  `IInv` is `TypeOK`, `LocalsOK` (a
process past Write holds an id that is written), `RefsResolve` (a reference read off a
symlink still resolves), `SymlinksResolve` and `ImportsResolve`.  Each of the last two
needs a fact about locals, since what is published now was read or written by an earlier
step; both facts survive the steps of other processes because no action removes a thunk.
`PlaceholdersAreRecorded` adds that manifests only grow and that, while nothing fails,
the process that linked a placeholder is on its way to record it.

**ConsumerProofs**, for any graph, any number of shims, forces and rebuilds, until
something fails: `OperandsAreLatest`, `OperandsAreRewritten`, `NoShimPassesThrough`,
`RecordsMatchCopies` and `NothingReverts`.  Each speaks of what one process read some
steps ago and of what others have done since, and what keeps those apart is the order in
which make runs recipes.  `MakeInv` therefore begins with that: no two shims are at work
on a path and on what it depends on (`Apart`; `Below` is closed under inputs, which is
where make's order enters), and shims and forces take turns (`Turns`).  Of a shim it
says that what it has classified is what its operands are (`GatherOK`), that objtool
finds the placeholder of its own recipe (`InPlaceOK`), what a shim has published is
still there (`LinkOK`), and that a shim that realises promotes its own output only
(`AloneOK`).  Of a force, that it is after what was last published at its target and at
what the target depends on (`RealisingOK`).  Of a path, that between the steps of those
who work on it what is there and its record are of what was last published (`Calm`), an
expression for that very path with a reference for each of its inputs (`LatestOK`).  The
recipes' steps, the forces' steps and the starts of jobs preserve it by separate lemmas.

Its second part is `ForcesAreComplete`, for any number of forces at once.  On top of
`MakeInv`, `CompleteInv` says that what was last published at a path shows as its
placeholder or a copy, unless it is being replaced (`PlacedOK`), and follows one force:
what CollectThunks has queued is closed under imports but for what is on its stack
(`CollectingOK`), and from the build on each thunk of that set is covered, which is to
say queued, or with its remaining placeholders among the lines of the open manifest, or
done (`CoveringOK`).  Taking a thunk off the queue keeps it covered because every
placeholder is in its thunk's manifest, the theorem of NativeBuildProofs.  At the end
nothing is queued or open, so nothing of the set is left a placeholder; the set holds
`Closure` of the root by induction on ranks.

**CompileProofs**, for any files, commands, edits and number of compiles, with failures
and kills.  `CacheIsSound` and `ResultsAreCurrent`: `CacheSound` alone is not inductive.
`IInv` adds that no recorded time lies in the future (`TimesOK`: an edit cannot make a
stale entry fresh), that `.deps` names the source and, when fresh, exactly what the scan
found (`SourceRecorded`, `CoversScan`: an edit that changes the result makes the entry
stale, and one that does not touch those files changes no result, `UnneededEdit`), that
no two names of the tree share an inode (`TreeInjective`), and what a writer knows
between its steps (`WriterOK`: when it is about to write `.deps`, `.out` is its own
result or that of another compile of the key, which is equal).  `TypeCorrect` needs to
know besides that the files a compile takes times of and links still exist.
`StagedSourcesAreOwn` rests on a third invariant, `StageInv`: one compile at a time works
on an output, hence on its directory (`OneEach`, from make and `DistinctTus`); what it
has staged is a part of what its scan found, under names of their own, and the rest is on
its list (`StagingOK`); what was complete stays so until an edit (`SettledOK`).  A
directory that is used again is complete because reuseOK compares names as well as
inodes.

**BatchingProofs**, for any Makefile, settings and number of jobs.  `StepsDeclareMembers`
and `FallbacksAreShared` (by either exit to the real tool: an operand that is no
reference, or a symlink that could not be made because the path exists again) hold until
a recipe is killed, `CapturesAreReal` and
`DerivationsBuildTheMakefile` also after.
`IInv` has a part that holds whatever happens, `StateOK` (what stands at a path is a
derivation for that path which is in the store; a recipe publishes its own output or
resolves a deferred operand), and a part for undisturbed builds, `Undisturbed`: that a
recipe runs after those of its operands (`OrderOK`), what stands at a file that one
recipe at a time writes, sidecar included (`SettledOK`), and that what a recipe has
gathered, and what is in the store, covers the members of each of its operands at any
depth (`GatheredOK`, `StoreOK`).  `Opened`, which follows thin archives in thin archives,
is shown by `Induction` to exist and to stay within what is covered.
`DerivationsBuildTheMakefile` rests on an invariant of its own, `WholeInv`, which no kill
disturbs: a stub that says a compile is pending has a record behind it and, where drvs
are registered, its source tree in the store; what refers to a derivation at a path
refers to one of that path; what a recipe has gathered is the first of its operands, in
their order (`InOrder`), as records while it may still fold them into a batch
(`Collected`) and as derivations after (`Resolved`); and so every derivation in the store
reads the results of its recipe's operands in order (`WholeDrv`).  That such a store
builds what the Makefile asks for (`WholeStore`) is a second argument, about the
recursive `Objects` and `Wanted`: both exist, by induction on ranks (`ObjectsExist`,
`WantedEquation`), flattening single objects gives back the list (`FlattenSingles`), the
names that a batch gives its objects differ (`NamesDiffer`), so that each keeps its own
(`BatchWhole`), and a least rank at which the two disagree would be that of a derivation
whose inputs agree.

**BatchScriptProofs**, for any number of members and any value of NIX_BUILD_CORES.
`Bounded` and `AllOrNothing` rest on one picture of the script: the pids it has not
waited for are those of the last compiles launched, in order, so an earlier compile has
ended well or is remembered in `gg_fail`, and no more than `gg_max` can be running.
`IInv` says that, and how many pids there are at each place of the script.

**DaemonClientProofs**, for any requests, any versions and features a daemon may have, any
log traffic, refusals with any number of traces, and drops at any moment: `StaysInStep`,
`ReturnsClean` and the refinement `ClientImplementsService`, with no hypothesis but
`RequestsAssumption` and `DaemonAssumption`, which say of what kind these constants are.
That the next token is the one that the client's next step reads depends on every token
before it and every step after it, so `IInv` is about all that is under way at once.  `Run`
says where reading a list of tokens takes a client, `Emits` what its steps write before
they listen again.  In each state of the daemon `Stage` says that the client either hears
it out (`Hearing`: reading all that is under way takes the client to the point the daemon
takes it to be at) or has its say (`Saying`: what the daemon has read, what is under way,
what is buffered and what is yet to be written make up the greeting or the request).
After a drop, what has arrived is a start of what was meant, so it leaves the client at a
read, a write, an error or its return (`Heading`).  Each message of the daemon and each
request has a lemma that says which steps read or write it (`RunReply`, `RunRefusal`,
`LogKeeps`, `EmitsAdd`); each action has one that says it keeps `Stage`.  `IInv`
quantifies over lists of any length, so TLC cannot evaluate it; it checks, in *daemon*,
the three properties it is for.  In the refinement a call's steps are invisible but for
the last, which answers or refuses, and the daemon's one step that performs the request.

**Only model-checked**: liveness (`Terminates`, `EveryJobEnds`, `CallReturns`,
`EveryTargetSubmitted`), which TLAPS cannot prove under fairness; the properties of
Rendering, which are about folds over command lines, out of reach without induction over
data; what holds of NativeBuild under AUTOFORCE and, for records and completeness, after a
failure or where two recipes share an expression (the runs *autoforce* and *force*).

## 6. Not modelled

- *rustc shim*: sandbox mode only.  Its registration, stubs, uploads and submission are
  those of Batching and DaemonClient; its own part is the parsing of rustc's line and
  the search for crates.
- *dispatch, command line, configuration, logging*: the table of tool names, response
  files, environment and options of one process, without shared state; the activity
  log has no reader inside the program.
- *NAR and ATerm*: pure formats.  *The fallback to the nix command*: StoreService again.
- *findRootTargets* (`force --roots`), several targets in one force, and force over
  pending members.
- *The copy into the staging directory of an assembly* (StageForScan), and *ContentFiles*.
- *Of the shims*: quoting, response files, `ar`'s own argument forms, `.incbin`, SONAME
  aliases, the memo of the tool binary, and the shortcuts for configure probes.
- *Of the Nix helpers*: batchArchiver, stage-tool, mkNixggBuild and dynDrvShared,
  templates without state.

## 7. Seeded faults

Operators commented "Seeded fault" are not part of any specification: each is the
definition it precedes with one plausible mistake, kept to see that the properties
notice it.  `PROJECT.json` pairs each with the property it must break.

## 8. Running

    tlc -config MCMake.cfg MCNativeBuild      # any run of PROJECT.json
    tlapm CompileProofs.tla                   # any proof module

The proof modules are `Induction` and those whose names end in `Proofs`.
