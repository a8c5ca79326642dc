----------------------------- MODULE Derivation -----------------------------
(***************************************************************************)
(* One build step as package expr sees it, and its two renderings: the     *)
(* thunk that native mode writes, which Nix evaluates through a helper of  *)
(* src/nix, and the JSON derivation that sandbox mode registers.           *)
(*                                                                         *)
(* Text is a sequence of tokens, triples of strings: a caller's word is    *)
(* <<option, directory, name>>; a marker, wherever it is spelled, is       *)
(* <<"@", tag, what>>; a file of a store path is <<"/", root, name>>; a    *)
(* file of a sibling's output, which is not built yet, is                  *)
(* <<"out", sibling, name>>.                                               *)
(***************************************************************************)
EXTENDS Naturals, Sequences, SequencesExt, TLC

CONSTANTS
    Toolchain,  \* the store roots [bash, coreutils, compiler] of the configuration
    Suffix      \* the ending of each file name

Kinds == {"compile", "link", "archive", "partialLink", "transform"}

Word(option, dir, name) == <<option, dir, name>>
Option(o) == Word(o, "", "")
Marker(tag, what) == <<"@", tag, what>>
StoreFile(root, name) == <<"/", root, name>>
OutputFile(ref, name) == <<"out", ref, name>>

\* derivInput: kind "store" names a store root, kind "nix" a sibling.
Input(kind, ref, name) == [kind |-> kind, ref |-> ref, name |-> name]

NoDerivation ==
    [kind |-> "none", name |-> "", bash |-> "", coreutils |-> "", compiler |-> "",
     ar |-> "", toolBin |-> <<"", "", "">>, inPlace |-> FALSE, tool |-> "",
     srcStore |-> "", source |-> "", outName |-> "", inputs |-> <<>>,
     extraInputs |-> <<>>, flags |-> <<>>, groupInputs |-> FALSE,
     wholeArchiveInputs |-> {}, arFlags |-> "", inlineFilesStore |-> "",
     absFile |-> <<>>, storeDeps |-> <<>>, wrapperEnv |-> <<>>]

-----------------------------------------------------------------------------
\* Where a consumer looks for an artifact, from its name alone.
ArtifactSubdir(name) ==
    CASE Suffix[name] = "-prelink.o" -> "bin"
      [] Suffix[name] \in {".o", ".rmeta", ".rlib"} -> ""
      [] Suffix[name] = ".a" -> "lib"
      [] OTHER -> "bin"

\* Where the builder puts it, from the kind of the step.
outSubdir(d) ==
    CASE d.kind = "link" -> "bin"
      [] d.kind = "archive" -> "lib"
      [] OTHER -> ""

Under(dir, name) == IF dir = "" THEN name ELSE dir \o "/" \o name

outPath(d) == Word("$out", outSubdir(d), d.outName)
outDir(d) == Word("$out", outSubdir(d), "")

\* The file an input stands for, once its producer is known.
FileOf(in) ==
    IF in.kind = "store" THEN StoreFile(in.ref, in.name)
    ELSE OutputFile(in.ref, Under(ArtifactSubdir(in.name), in.name))

compilerOrAR(d) ==
    CASE d.kind = "archive" -> StoreFile(d.ar, "")
      [] d.kind \in {"transform", "partialLink"} -> d.toolBin
      [] OTHER -> StoreFile(d.compiler, "")

-----------------------------------------------------------------------------
\* The marker tags NIXGG, NIXGG1, ... and the first one the text leaves free.
Tag(n) == IF n = 0 THEN "NIXGG" ELSE "NIXGG" \o ToString(n)

Spells(body, tag) == \E i \in DOMAIN body : body[i][1] = "@" /\ body[i][2] = tag

markerTagFixed(body) == Tag(0)

markerTag(body) ==
    LET free == {n \in 0 .. Len(body) : ~Spells(body, Tag(n))}
    IN  Tag(CHOOSE n \in free : \A m \in free : n <= m)

inputMarker(tag, i) == Marker(tag, "INPUT" \o ToString(i))

-----------------------------------------------------------------------------
\* The operands: markers when a tag is given, the files themselves otherwise.
\* Whole-archive brackets go around each input that is named in that list.
inputsBracketed(d, tag) ==
    LET operand(i) == IF tag = "" THEN FileOf(d.inputs[i]) ELSE inputMarker(tag, i)
        all == [i \in DOMAIN d.inputs |-> operand(i)]
    IN  IF d.wholeArchiveInputs = {} THEN all
        ELSE <<Option("--whole-archive")>> \o all \o <<Option("--no-whole-archive")>>

inputs(d, tag) ==
    LET operand(i) == IF tag = "" THEN FileOf(d.inputs[i]) ELSE inputMarker(tag, i)
        part(i) == IF d.inputs[i].name \in d.wholeArchiveInputs
                   THEN <<Option("--whole-archive"), operand(i), Option("--no-whole-archive")>>
                   ELSE <<operand(i)>>
    IN  FlattenSeq([i \in DOMAIN d.inputs |-> part(i)])

isRawLinker(d) == d.tool = "ld"

Grouped(d, operands) ==
    IF ~d.groupInputs \/ operands = <<>> THEN operands
    ELSE IF isRawLinker(d)
    THEN <<Option("--start-group")>> \o operands \o <<Option("--end-group")>>
    ELSE <<Option("-Wl,--start-group")>> \o operands \o <<Option("-Wl,--end-group")>>

IsLibraryFlag(w) == w[1] \in {"-l", "-l:"} /\ w[3] # ""
Libraries(flags) == SelectSeq(flags, IsLibraryFlag)
Others(flags) == SelectSeq(flags, LAMBDA w : ~IsLibraryFlag(w))

\* What the script does before the command: a linker script named by an
\* absolute path is written out, one named by a relative path copied in.
absFileScript(d) ==
    IF d.absFile = <<>> THEN <<>> ELSE <<Option("cat")>> \o d.absFile
inlineFilesScript(d) ==
    IF d.inlineFilesStore = "" THEN <<>> ELSE <<Option("cp $src")>>

Path(roots) == <<Option("PATH")>> \o roots
To(d) == <<Option("-o"), outPath(d)>>

compileScript(d, coreutils, compiler) ==
    Path(<<coreutils, compiler>>)
        \o <<Option("mkdir $out"), Option("cd $src"), Option(d.tool)>>
        \o d.flags \o <<Option("-c"), Option("$source"), Option("-o $out/$outName")>>

linkScript(d, tag, coreutils, compiler) ==
    LET operands == Grouped(d, inputs(d, tag))
    IN  Path(<<coreutils, compiler>>) \o <<Option("mkdir"), outDir(d)>>
            \o absFileScript(d) \o inlineFilesScript(d) \o <<Option(d.tool)>>
            \o Others(d.flags) \o operands \o Libraries(d.flags) \o To(d)

archiveScript(d, tag, coreutils, compiler) ==
    Path(<<coreutils, compiler>>) \o <<Option("mkdir"), outDir(d)>>
        \o <<Option("ar D" \o d.arFlags), outPath(d)>> \o inputs(d, tag)

partialLinkScript(d, tag, coreutils, compiler) ==
    Path(<<coreutils>>) \o <<Option("mkdir"), outDir(d), compiler>>
        \o d.flags \o To(d) \o inputs(d, tag)

transformScript(d, tag, coreutils, compiler) ==
    Path(<<coreutils>>) \o <<Option("mkdir"), outDir(d)>>
        \o (IF d.inPlace
            THEN <<Option("cp")>> \o inputs(d, tag)
                    \o <<outPath(d), Option("chmod u+w"), outPath(d), compiler>>
                    \o d.flags \o <<outPath(d)>>
            ELSE <<compiler>> \o d.flags \o inputs(d, tag) \o <<outPath(d)>>)

buildScript(d, tag, coreutils, compiler) ==
    CASE d.kind = "compile" -> compileScript(d, coreutils, compiler)
      [] d.kind = "link" -> linkScript(d, tag, coreutils, compiler)
      [] d.kind = "archive" -> archiveScript(d, tag, coreutils, compiler)
      [] d.kind = "partialLink" -> partialLinkScript(d, tag, coreutils, compiler)
      [] d.kind = "transform" -> transformScript(d, tag, coreutils, compiler)

script(d) == buildScript(d, "", StoreFile(d.coreutils, ""), compilerOrAR(d))

scriptTemplate(d) ==
    LET tag == markerTag(script(d))
    IN  [tag |-> tag,
         text |-> buildScript(d, tag, Marker(tag, "COREUTILS"), Marker(tag, "COMPILER"))]

-----------------------------------------------------------------------------
\* The thunk: the arguments of the helper the kind selects.
derivInputsList(ins) ==
    [i \in DOMAIN ins |->
        [drv |-> ins[i].ref, kind |-> ins[i].kind,
         name |-> IF ins[i].kind = "nix"
                  THEN Under(ArtifactSubdir(ins[i].name), ins[i].name) ELSE ins[i].name]]

Helper(kind) ==
    CASE kind = "compile" -> "builder.nix"
      [] kind = "link" -> "linker.nix"
      [] kind = "archive" -> "archiver.nix"
      [] kind = "partialLink" -> "partiallink.nix"
      [] kind = "transform" -> "transform.nix"

ToNix(d) ==
    LET template == scriptTemplate(d)
        linked == d.kind \in {"link", "archive"}
    IN  [helper |-> Helper(d.kind),
         name |-> IF d.kind = "compile" THEN "" ELSE d.name,
         outName |-> d.outName,
         source |-> d.source,
         srcTree |-> IF d.kind = "link" THEN d.inlineFilesStore ELSE d.srcStore,
         toolBin |-> d.toolBin,
         inputs |-> IF d.kind = "compile" THEN <<>> ELSE derivInputsList(d.inputs),
         extraInputs |-> IF linked THEN derivInputsList(d.extraInputs) ELSE <<>>,
         scriptTemplate |-> template.text,
         markerTag |-> template.tag,
         storeDeps |-> d.storeDeps,
         wrapperEnv |-> d.wrapperEnv]

-----------------------------------------------------------------------------
\* Evaluation: "${drv}/${name}", and the substitution of the markers.
Interpolated(item) ==
    IF item.kind = "nix" THEN OutputFile(item.drv, item.name) ELSE StoreFile(item.drv, item.name)

resolveScript(template, tag, coreutils, compiler, items) ==
    [i \in DOMAIN template |->
        IF template[i] = Marker(tag, "COREUTILS") THEN coreutils
        ELSE IF template[i] = Marker(tag, "COMPILER") THEN compiler
        ELSE IF \E n \in DOMAIN items : template[i] = inputMarker(tag, n)
        THEN Interpolated(items[CHOOSE n \in DOMAIN items : template[i] = inputMarker(tag, n)])
        ELSE template[i]]

Roots(deps) == [i \in DOMAIN deps |-> StoreFile(deps[i], "")]

\* A derivation, whichever way it came about.  Which outputs and sources it
\* depends on is part of it.
Drv(name, text, env, tokens) ==
    [name |-> name, builder |-> Toolchain.bash, script |-> text, env |-> env,
     drvs |-> {t[2] : t \in {x \in tokens : x[1] = "out"}},
     srcs |-> {t[2] : t \in {x \in tokens : x[1] = "/"}}]

DefaultName(helper, outName) ==
    CASE helper = "builder.nix" -> "tu-" \o outName
      [] helper = "linker.nix" -> "bin-" \o outName
      [] helper = "archiver.nix" -> "ar-" \o outName

\* What the helper makes of its arguments.  A dependency is what was
\* interpolated: text that Go wrote carries none.
Evaluate(t) ==
    LET coreutils == StoreFile(Toolchain.coreutils, "")
        compiler == IF t.helper \in {"partiallink.nix", "transform.nix"} THEN t.toolBin
                    ELSE StoreFile(Toolchain.compiler, "")
        text == resolveScript(t.scriptTemplate, t.markerTag, coreutils, compiler, t.inputs)
        substituted == {i \in DOMAIN text : text[i] # t.scriptTemplate[i]}
        extras == [i \in DOMAIN t.extraInputs |-> Interpolated(t.extraInputs[i])]
        more == IF t.helper \in {"linker.nix", "archiver.nix"}
                THEN "_extraInputs" :> extras ELSE <<>>
        tree == IF t.srcTree = "" THEN <<>> ELSE <<StoreFile(t.srcTree, "")>>
        built == "_storeDeps" :> Roots(t.storeDeps) @@ more
        env == CASE t.helper = "builder.nix" ->
                        t.wrapperEnv @@ [src |-> tree, source |-> <<Option(t.source)>>,
                                         outName |-> <<Option(t.outName)>>] @@ built
                 [] t.helper = "linker.nix" /\ tree # <<>> ->
                        [src |-> tree] @@ t.wrapperEnv @@ built
                 [] OTHER -> t.wrapperEnv @@ built
    IN  Drv(IF t.name # "" THEN t.name ELSE DefaultName(t.helper, t.outName),
            text, env,
            {StoreFile(Toolchain.bash, "")} \cup {text[i] : i \in substituted}
                \cup ToSet(Roots(t.storeDeps)) \cup ToSet(extras) \cup ToSet(tree))

-----------------------------------------------------------------------------
\* The JSON derivation, whose dependencies are listed by hand.
envDict(d) ==
    LET extras == [i \in DOMAIN d.extraInputs |-> FileOf(d.extraInputs[i])]
        deps == "_storeDeps" :> Roots(d.storeDeps)
        more == IF d.kind \in {"link", "archive"} THEN "_extraInputs" :> extras ELSE <<>>
        src == CASE d.kind = "compile" ->
                        [src |-> <<StoreFile(d.srcStore, "")>>,
                         source |-> <<Option(d.source)>>, outName |-> <<Option(d.outName)>>]
                 [] d.kind = "link" /\ d.inlineFilesStore # "" ->
                        [src |-> <<StoreFile(d.inlineFilesStore, "")>>]
                 [] OTHER -> <<>>
    IN  d.wrapperEnv @@ src @@ deps @@ more

toJSON(d, extraSrcs) ==
    Drv(d.name, script(d), envDict(d),
        {StoreFile(s, "") : s \in extraSrcs}
            \cup {FileOf(in) : in \in ToSet(d.inputs) \cup ToSet(d.extraInputs)}
            \cup ToSet(Roots(d.storeDeps)))
=============================================================================
