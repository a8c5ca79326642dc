----------------------------- MODULE Rendering -----------------------------
(***************************************************************************)
(* A build step on its way from a command line to a derivation, in both    *)
(* modes at once: the shim reads the line and classifies the operands, one *)
(* rendering writes a thunk that Nix evaluates later, the other registers  *)
(* a JSON derivation.                                                      *)
(***************************************************************************)
EXTENDS LinkLine, CompileLine

CONSTANTS
    Calls,  \* the invocations: [shim, tool, args, output, key, source]
    Trees,  \* the files at the time: path -> [kind, ref, members]
    Known,  \* the store paths the configuration lists
    Env     \* the captured wrapper environment

VARIABLES call, tree, step, thunk, native, json
vars == <<call, tree, step, thunk, native, json>>

None == [pc |-> "none"]

\* What a shim knows of the step it is about to render.
NotStaged == [root |-> <<>>, source |-> <<>>, headers |-> {}, depfile |-> "", depends |-> {}]
NoStep == [pc |-> "none", kind |-> "none", tool |-> "", key |-> "", outName |-> "",
           srcTree |-> "", source |-> "", flags |-> <<>>, inputs |-> <<>>, extras |-> <<>>,
           group |-> FALSE, whole |-> {}, arFlags |-> "", inline |-> "", absFile |-> <<>>,
           toolBin |-> <<"", "", "">>, inPlace |-> FALSE, prefix |-> "", storeDeps |-> <<>>,
           staged |-> NotStaged]

Init ==
    /\ call \in Calls
    /\ tree \in Trees
    /\ step = NoStep
    /\ thunk = None
    /\ native = None
    /\ json = None

-----------------------------------------------------------------------------
Ours(f) == f \in DOMAIN tree /\ tree[f].kind \in {"nix", "store"}

\* An operand of the build's own, in the order and number of the line.
Classified(fs) ==
    [i \in DOMAIN fs |-> Input(tree[fs[i]].kind, tree[fs[i]].ref, fs[i][2])]

\* The members of the thin archives among them, each once and not again when
\* it is an operand itself.
Extras(fs) ==
    LET listed == FlattenSeq([i \in DOMAIN fs |-> tree[fs[i]].members])
        first == [i \in DOMAIN listed |->
                    IF \E j \in 1 .. i - 1 : listed[j] = listed[i] THEN <<>> ELSE <<listed[i]>>]
    IN  SelectSeq(FlattenSeq(first), LAMBDA m : m \notin ToSet(Classified(fs)))

\* The known store paths that the flags or the environment mention.
storeDepsFrom(flags) ==
    SetToSeq({p \in Known : (\E w \in ToSet(flags) : w[2] = p)
                    \/ (\E k \in DOMAIN Env : \E w \in ToSet(Env[k]) : w[2] = p)})

Passthrough == step' = [NoStep EXCEPT !.pc = "passthrough"]

\* What goes to the staging directory, and the dependency file written at once.
Staged(line, scan) ==
    [root |-> scan.ProjectRoot, source |-> Place[line.source], headers |-> scan.Headers,
     depfile |-> line.depfile,
     depends |-> IF line.depfile = "" THEN {} ELSE {Place[line.source]} \cup scan.Headers]

ScannedStep(line, scan, flags) ==
    [NoStep EXCEPT !.pc = "ready", !.kind = "compile", !.tool = call.tool,
        !.outName = line.output, !.srcTree = "tree",
        !.source = Joined(Rel(scan.ProjectRoot, Place[line.source])), !.flags = flags,
        !.storeDeps = storeDepsFrom(flags), !.staged = Staged(line, scan)]

CompileStep(line, scan) ==
    ScannedStep(line, scan, rewriteFlags(line.flags, scan.StagedIFlags, scan.StoreIFlags,
                                         scan.StagedIncludeFlags))

Compile ==
    /\ call.shim = "driver"
    /\ IsCompile(call.args)
    /\ step = NoStep
    /\ LET line == parseCompileArgs(call.args)
       IN  IF line.ok THEN step' = CompileStep(line, runScanner(line.source, line.flags))
           ELSE Passthrough
    /\ UNCHANGED <<call, tree, thunk, native, json>>

Archive ==
    /\ call.shim = "ar"
    /\ step = NoStep
    /\ LET fs == [i \in DOMAIN call.args |-> File(call.args[i])]
       IN  IF \E f \in ToSet(fs) : ~Ours(f) THEN Passthrough
           ELSE step' = [NoStep EXCEPT !.pc = "ready", !.kind = "archive", !.key = call.key,
                    !.outName = call.output, !.inputs = Classified(fs), !.extras = Extras(fs),
                    !.arFlags = call.source, !.storeDeps = storeDepsFrom(<<>>)]
    /\ UNCHANGED <<call, tree, thunk, native, json>>

\* A linker script of the caller's is staged, or written out by the script.
Script(args) ==
    LET f == linkerScriptPath(args)
        inline == IF f # NoFile /\ f[1] = "" THEN f[2] ELSE ""
        text == IF f # NoFile /\ f[1] # "" THEN tree[f].members ELSE <<>>
    IN  [inline |-> inline, absFile |-> text,
         ok |-> f = NoFile \/ (f \in DOMAIN tree /\ tree[f].kind = "plain")]

LinkStep(line) ==
    LET fs == line.inputs
        s == Script(call.args)
    IN  IF ~line.ok \/ ~s.ok \/ (\E f \in ToSet(fs) : ~Ours(f)) THEN Passthrough
        ELSE step' = [NoStep EXCEPT !.pc = "ready", !.kind = "link", !.tool = call.tool,
                !.key = call.key, !.outName = line.output, !.inputs = Classified(fs),
                !.extras = Extras(fs), !.flags = line.flags, !.group = line.group,
                !.whole = line.whole, !.inline = s.inline, !.absFile = s.absFile,
                !.storeDeps = storeDepsFrom(line.flags)]

Link ==
    /\ call.shim = "driver"
    /\ ~IsCompile(call.args)
    /\ step = NoStep
    /\ LinkStep(parseLinkArgs(tree, call.args))
    /\ UNCHANGED <<call, tree, thunk, native, json>>

\* The members of a thin archive are looked up and then not passed on.
LD ==
    /\ call.shim = "ld"
    /\ step = NoStep
    /\ LET line == parseLDArgs(call.args)
       IN  IF ~line.ok THEN LinkStep(parseLinkArgs(tree, call.args))
           ELSE IF \E f \in ToSet(line.inputs) : ~Ours(f) THEN Passthrough
           ELSE step' = [NoStep EXCEPT !.pc = "ready", !.kind = "partialLink",
                    !.key = call.key, !.outName = line.output, !.prefix = "ld-",
                    !.toolBin = StoreFile(Toolchain.compiler, "bin/ld"),
                    !.inputs = Classified(line.inputs), !.flags = line.flags,
                    !.storeDeps = storeDepsFrom(line.flags)]
    /\ UNCHANGED <<call, tree, thunk, native, json>>

\* What the two have in common.  Neither captures the wrapper environment.
TransformStep(f, prefix, bin, rewritten) ==
    [NoStep EXCEPT !.pc = "ready", !.kind = "transform", !.outName = call.output,
        !.prefix = prefix, !.toolBin = bin, !.inPlace = rewritten,
        !.inputs = Classified(<<f>>), !.flags = Tail(call.args),
        !.storeDeps = SetToSeq(Known)]

\* objtool, a tool the build made itself, rewrites its one operand.
Objtool ==
    /\ call.shim = "objtool"
    /\ step = NoStep
    /\ LET f == File(call.args[1])
       IN  IF Ours(f) THEN step' = TransformStep(f, "ot-", StoreFile("objtool", ""), TRUE)
                      ELSE Passthrough
    /\ UNCHANGED <<call, tree, thunk, native, json>>

\* objcopy, of the toolchain, reads one file and writes another.
Objcopy ==
    /\ call.shim = "objcopy"
    /\ step = NoStep
    /\ LET f == File(call.args[1])
       IN  IF Ours(f)
           THEN step' = TransformStep(f, "oc-", StoreFile(Toolchain.compiler, "bin/objcopy"), FALSE)
           ELSE Passthrough
    /\ UNCHANGED <<call, tree, thunk, native, json>>

-----------------------------------------------------------------------------
WrapperEnv == IF step.kind = "transform" THEN <<>> ELSE Env

\* The native constructors: no toolchain, which the helper supplies, and a
\* name only where the helper's own is overridden.
compileDerivation ==
    [NoDerivation EXCEPT !.kind = "compile", !.tool = step.tool, !.srcStore = step.srcTree,
        !.source = step.source, !.outName = step.outName, !.flags = step.flags,
        !.storeDeps = step.storeDeps, !.wrapperEnv = WrapperEnv]

linkDerivation ==
    [NoDerivation EXCEPT !.kind = "link", !.name = step.key, !.tool = step.tool,
        !.outName = step.outName, !.inputs = step.inputs, !.extraInputs = step.extras,
        !.flags = step.flags, !.groupInputs = step.group, !.wholeArchiveInputs = step.whole,
        !.inlineFilesStore = step.inline, !.absFile = step.absFile,
        !.storeDeps = step.storeDeps, !.wrapperEnv = WrapperEnv]

archiveDerivation ==
    [NoDerivation EXCEPT !.kind = "archive", !.name = step.key, !.outName = step.outName,
        !.inputs = step.inputs, !.extraInputs = step.extras, !.arFlags = step.arFlags,
        !.storeDeps = step.storeDeps, !.wrapperEnv = WrapperEnv]

Named(default) == IF step.key # "" THEN step.key ELSE default \o step.outName

partialLinkDerivation ==
    [NoDerivation EXCEPT !.kind = "partialLink", !.name = Named(step.prefix),
        !.outName = step.outName, !.toolBin = step.toolBin, !.flags = step.flags,
        !.inputs = step.inputs, !.storeDeps = step.storeDeps, !.wrapperEnv = WrapperEnv]

transformDerivation ==
    [NoDerivation EXCEPT !.kind = "transform", !.name = Named(step.prefix),
        !.outName = step.outName, !.toolBin = step.toolBin, !.inPlace = step.inPlace,
        !.flags = step.flags, !.inputs = step.inputs, !.storeDeps = step.storeDeps]

RenderNix ==
    /\ step.pc = "ready"
    /\ thunk = None
    /\ thunk' = ToNix(CASE step.kind = "compile" -> compileDerivation
                        [] step.kind = "link" -> linkDerivation
                        [] step.kind = "archive" -> archiveDerivation
                        [] step.kind = "partialLink" -> partialLinkDerivation
                        [] step.kind = "transform" -> transformDerivation)
    /\ UNCHANGED <<call, tree, step, native, json>>

Realise ==
    /\ thunk # None
    /\ native = None
    /\ native' = Evaluate(thunk)
    /\ UNCHANGED <<call, tree, step, thunk, json>>

-----------------------------------------------------------------------------
\* The sandbox constructors, with the toolchain and the sources of each kind.
WithTools(d) ==
    [d EXCEPT !.bash = Toolchain.bash, !.coreutils = Toolchain.coreutils]

Always == {Toolchain.bash, Toolchain.coreutils}

CompileJSON ==
    toJSON([WithTools(compileDerivation) EXCEPT !.name = "tu-" \o step.outName,
                !.compiler = Toolchain.compiler],
           Always \cup {Toolchain.compiler, step.srcTree})

LinkJSON ==
    toJSON([WithTools(linkDerivation) EXCEPT !.name = Named("bin-"),
                !.compiler = Toolchain.compiler],
           Always \cup {Toolchain.compiler} \cup ({step.inline} \ {""}))

ArchiveJSON ==
    toJSON([WithTools(archiveDerivation) EXCEPT !.name = Named("ar-"),
                !.ar = Toolchain.compiler],
           Always \cup {Toolchain.compiler})

PartialLinkJSON ==
    toJSON(WithTools(partialLinkDerivation), Always \cup {step.toolBin[2]})

TransformJSON ==
    toJSON(WithTools(transformDerivation), Always \cup {step.toolBin[2]})

RenderJSON ==
    /\ step.pc = "ready"
    /\ json = None
    /\ json' = CASE step.kind = "compile" -> CompileJSON
                 [] step.kind = "link" -> LinkJSON
                 [] step.kind = "archive" -> ArchiveJSON
                 [] step.kind = "partialLink" -> PartialLinkJSON
                 [] step.kind = "transform" -> TransformJSON
    /\ UNCHANGED <<call, tree, step, thunk, native>>

Shim == Compile \/ Archive \/ Link \/ LD \/ Objtool \/ Objcopy

Next == Shim \/ RenderNix \/ Realise \/ RenderJSON

Spec == Init /\ [][Next]_vars

-----------------------------------------------------------------------------
\* A linker's reading of a command line: the files and libraries it loads, in
\* order, and the brackets each is in.  ld knows the bare spelling of a
\* bracket, a compiler driver the one it passes on.
Bracket(name) == Option(IF call.tool = "ld" THEN name ELSE "-Wl," \o name)

ValueFollows(w) == w[1] \in {"-o", "-L", "-soname", "-MF", "-m"} /\ w[3] = ""

SearchDirs(words) ==
    LET dir(i) == IF words[i][1] = "-L" /\ words[i][3] # "" THEN <<words[i][3]>>
                  ELSE IF i > 1 /\ words[i - 1] = Option("-L") THEN <<words[i][3]>>
                  ELSE <<>>
    IN  FlattenSeq([i \in DOMAIN words |-> dir(i)])

\* The first file of the search, whoever made it.
Found(w, dirs) ==
    LET names == IF w[1] = "-l:" THEN <<w[3]>>
                 ELSE <<"lib" \o w[3] \o ".so", "lib" \o w[3] \o ".a">>
        places == FlattenSeq([i \in DOMAIN dirs |-> [j \in DOMAIN names |-> <<dirs[i], names[j]>>]])
        hits == SelectSeq(places, LAMBDA p : p \in DOMAIN tree)
    IN  IF hits = <<>> THEN NoFile ELSE Head(hits)

Loaded(w, dirs) ==
    LET f == IF IsLibraryFlag(w) THEN Found(w, dirs) ELSE File(w)
    IN  IF Ours(f) THEN FileOf(Input(tree[f].kind, tree[f].ref, f[2])) ELSE w

Loads(words, dirs) ==
    LET Load(st, w) ==
            IF st.skip THEN [st EXCEPT !.skip = FALSE]
            ELSE CASE ValueFollows(w) -> [st EXCEPT !.skip = TRUE]
                   [] w = Bracket("--whole-archive") -> [st EXCEPT !.whole = TRUE]
                   [] w = Bracket("--no-whole-archive") -> [st EXCEPT !.whole = FALSE]
                   [] w = Bracket("--start-group") -> [st EXCEPT !.group = TRUE]
                   [] w = Bracket("--end-group") -> [st EXCEPT !.group = FALSE]
                   [] IsLibraryFlag(w) \/ isLinkInput(w) \/ w[1] \in {"/", "out"} ->
                        [st EXCEPT !.items = Append(@, [what |-> Loaded(w, dirs),
                                        whole |-> st.whole, group |-> st.group])]
                   [] OTHER -> st
    IN  FoldLeft(Load, [items |-> <<>>, whole |-> FALSE, group |-> FALSE, skip |-> FALSE],
                 words).items

\* The linker's part of the script.
Command ==
    LET tool == IF step.kind = "link" THEN Option(step.tool) ELSE step.toolBin
        starts == {i \in DOMAIN json.script : json.script[i] = tool}
    IN  SubSeq(json.script, 1 + CHOOSE i \in starts : \A j \in starts : i <= j, Len(json.script))

IsFile(item) == item.what[1] \in {"/", "out"}
Linked == json # None /\ step.kind \in {"link", "partialLink"}

\* What the caller's line loads in the working tree, and what the derivation's
\* loads where no directory of that tree is.
Asked == Loads(call.args, SearchDirs(call.args))
Given == Loads(Command, <<>>)

\* The lines that keep less than the rest.
\* A driver's whole-archive span comes out in the spelling of ld.
SpansSpelled == call.tool = "ld" \/ step.whole = {}

\* A library is looked for only in the directories read so far.
DirsFirst ==
    \A i, j \in DOMAIN call.args :
        IsLibraryFlag(call.args[i]) /\ call.args[j][1] = "-L" => j < i

\* `ld -r` keeps brackets and libraries as flags, all before the operands.
PlainRelocatable ==
    step.kind = "partialLink" =>
        \A w \in ToSet(step.flags) :
            ~isGroupBracket(w) /\ ~isWholeArchiveStart(w) /\ ~IsLibraryFlag(w)

-----------------------------------------------------------------------------
\* The same unit where the compiler will read it: the staged files under the
\* directory it is run in, and the store as it is.
Stage(path) == IF IsStore(path) THEN path ELSE <<"$src">> \o Rel(step.staged.root, path)
Unstage(path) ==
    IF path = Nowhere \/ IsStore(path) THEN path ELSE step.staged.root \o Tail(path)

StagedTexts ==
    LET files == step.staged.headers \cup {step.staged.source}
                    \cup {p \in DOMAIN Texts : IsStore(p)}
    IN  [p \in {Stage(f) : f \in files} |-> Texts[Unstage(p)]]

StagedPlace ==
    LET values == ToSet(Values(step.flags, pathFlags \cup {"-include"}, {"-I"}))
        below == UNION {Prefixes(Place[v]) : v \in DOMAIN Place}
        rels == {Rel(step.staged.root, p) : p \in {q \in below : IsPrefix(step.staged.root, q)}}
        path(v) == IF v[2] = "." THEN <<>>
                   ELSE IF \E p \in rels : Joined(p) = v[2] THEN CHOOSE p \in rels : Joined(p) = v[2]
                   ELSE <<"?">>
    IN  [v \in values |-> IF v[1] = "" THEN <<"$src">> \o path(v) ELSE Place[v]]

\* What is left of a line when the source, the output, the dependencies and
\* the includes are taken away.
Options(words) ==
    SelectSeq(Without(words, pathFlags \cup {"-include", "-o", "-MF", "-MT", "-MQ"},
                      {"-I", "-o"}),
              LAMBDA w : w # Option("-c") /\ ~IsDepFlag(w) /\ ~NamesDepfile(w)
                         /\ ~(<<w[2], w[3]>> \in DOMAIN Place
                                /\ Place[<<w[2], w[3]>>] = step.staged.source))

\* Every include is found, and its name means no second file of the unit or
\* of the store wherever it is looked for.
OneMeaning(world, unit) ==
    LET files == unit \cup {p \in DOMAIN Texts : IsStore(p)}
        dirs(f) == ToSet(Chain(world, TRUE, Front(f))) \cup {step.staged.root}
    IN  \A f \in unit : \A inc \in ToSet(Texts[f]) :
            /\ Opened(world, f, inc) # Nowhere
            /\ Cardinality({Clean(d \o inc.name) : d \in dirs(f)} \cap files) = 1

-----------------------------------------------------------------------------
\* In the staging directory, with the include options rewritten for it, each
\* include opens the file it opens in the working tree, the same files are
\* included by force, every other option is kept in its order, and a
\* dependency file names each file of the unit that make could see change.
SameUnit == (step.kind = "compile" /\ thunk = None /\ json = None) =>
    LET asked == Caller(call.args)
        given == World(StagedTexts, StagedPlace, step.flags)
        unit == Unit(asked, Cwd, step.staged.source)
        unstaged(files) == [i \in DOMAIN files |-> Unstage(files[i])]
    IN  OneMeaning(asked, unit) =>
            /\ \A f \in unit : \A inc \in ToSet(Texts[f]) :
                    Unstage(Opened(given, Stage(f), inc)) = Opened(asked, f, inc)
            /\ unstaged(Forced(given, <<"$src">>)) = Forced(asked, Cwd)
            /\ Options(step.flags) = Options(call.args)
            /\ step.staged.depfile # "" =>
                    {f \in unit : ~IsStore(f)} \subseteq step.staged.depends

\* Both modes give the derivation one name, one script, one environment and
\* one set of inputs, so that they reach one hash: markers, helpers, default
\* names and hand-listed sources agree whatever the caller's words spell and
\* whichever operands the line has.
SameDerivation == (native # None /\ json # None) => native = json

\* Taking the line apart and putting it together again leaves each file in
\* exactly the whole-archive span it was in, and in a group if it was in one.
SpansKept == Linked =>
    LET asked == SelectSeq(Asked, IsFile)
        given == SelectSeq(Given, IsFile)
    IN  \A i \in DOMAIN asked \cap DOMAIN given :
            asked[i].whole = given[i].whole /\ (asked[i].group => given[i].group)

\* It also keeps every file and its place among the files, the libraries and
\* theirs, and no library comes before an object that may need it.  Not so for
\* a line that looks for a library before it names the directory, nor for
\* `ld -r` with brackets or libraries; and a driver keeps files and libraries,
\* but not its whole-archive spans.
LineKept == Linked /\ DirsFirst /\ PlainRelocatable =>
    LET whats(items) == [i \in DOMAIN items |-> items[i].what]
        libraries(items) == whats(SelectSeq(items, LAMBDA x : ~IsFile(x)))
    IN  /\ whats(SelectSeq(Asked, IsFile)) = whats(SelectSeq(Given, IsFile))
        /\ libraries(Asked) = libraries(Given)
        /\ \A i, j \in DOMAIN Given : IsFile(Given[i]) /\ ~IsFile(Given[j]) => i < j
        /\ SpansSpelled => SpansKept
=============================================================================
