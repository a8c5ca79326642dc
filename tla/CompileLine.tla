----------------------------- MODULE CompileLine -----------------------------
(***************************************************************************)
(* How the compile shim reads a command line, which files and directories  *)
(* the scanner makes of it, and the options that take their place when the *)
(* compiler runs in the staging directory.  A path is the sequence of its  *)
(* names; words are those of Derivation.                                   *)
(***************************************************************************)
EXTENDS Derivation, FiniteSets

CONSTANTS
    Cwd,        \* the working directory
    Place,      \* the path that <<directory, name>> means there
    Stem,       \* a file's name without its ending
    Texts,      \* the files: path -> the includes [quoted, name] of each
    SystemDirs  \* the directories the compiler searches by itself

NoSource == <<"", "">>
IsStore(path) == path[1] = "store"

\* "a/b" for the path <<a, b>>.
Joined(path) ==
    FoldLeft(LAMBDA s, n : IF s = "" THEN n ELSE s \o "/" \o n, "", path)

-----------------------------------------------------------------------------
\* "want" is the option whose value is still to come.
CompileStart == [source |-> NoSource, output |-> "", depfile |-> "", flags |-> <<>>,
                 dashC |-> FALSE, depFlag |-> FALSE, lang |-> "", want |-> "", twice |-> FALSE]

isSource(w) ==
    w[3] # "" /\ Suffix[w[3]] \in {".c", ".cc", ".cpp", ".cxx", ".s", ".C", ".S"}

ReadCompileValue(st, w) ==
    LET next == [st EXCEPT !.want = ""]
    IN  CASE st.want = "-o" -> [next EXCEPT !.output = w[3]]
          [] st.want = "-MF" -> [next EXCEPT !.depfile = w[3]]
          [] st.want \in {"-MT", "-MQ"} -> next
          [] st.want = "-x" -> [next EXCEPT !.flags = Append(@, w), !.lang = w[3]]
          [] OTHER -> [next EXCEPT !.flags = Append(@, w)]

ReadSource(st, w) ==
    IF st.source # NoSource THEN [st EXCEPT !.twice = TRUE]
    ELSE [st EXCEPT !.source = <<w[2], w[3]>>]

\* Of what is passed on to the preprocessor only the dependency file is looked at.
NamesDepfile(w) == w[1] \in {"-Wp,-MMD,", "-Wp,-MD,"}

ReadCompileWord(st, w) ==
    CASE st.want # "" -> ReadCompileValue(st, w)
      [] w = Option("-c") -> [st EXCEPT !.dashC = TRUE]
      [] w = Option("-o") -> [st EXCEPT !.want = "-o"]
      [] w[1] = "-o" /\ w[3] # "" -> [st EXCEPT !.output = w[3]]
      [] w[1] \in {"-M", "-MM", "-MG", "-MP"} -> st
      [] w[1] \in {"-MD", "-MMD"} -> [st EXCEPT !.depFlag = TRUE]
      [] w[1] \in {"-MF", "-MT", "-MQ"} -> [st EXCEPT !.want = w[1]]
      [] NamesDepfile(w) -> [st EXCEPT !.depfile = w[3]]
      [] w[1] = "-Wp,-D" -> st
      [] w[1] \in {"-x", "-Xlinker", "-Xassembler"} ->
            [st EXCEPT !.flags = Append(@, w), !.want = w[1]]
      [] isSource(w) -> ReadSource(st, w)
      [] st.lang # "" /\ st.source = NoSource /\ w[1] = "" -> ReadSource(st, w)
      [] OTHER -> [st EXCEPT !.flags = Append(@, w)]

langOf(flags) ==
    LET asked == SelectSeq([i \in 1 .. Len(flags) - 1 |->
                    IF flags[i][1] = "-x" THEN flags[i + 1][3] ELSE ""], LAMBDA l : l # "")
    IN  IF asked = <<>> THEN "" ELSE Last(asked)

isHeaderLang(lang) == lang \in {"c-header", "c++-header"}

defaultOutputName(source, flags) ==
    IF isHeaderLang(langOf(flags)) THEN source[2] \o ".gch" ELSE Stem[source[2]] \o ".o"

depfileFromObjName(obj) == Stem[obj] \o ".d"

parseCompileArgs(args) ==
    LET st == FoldLeft(ReadCompileWord, CompileStart, args)
        ok == st.want = "" /\ ~st.twice /\ st.dashC /\ st.source # NoSource
        out == IF ok /\ st.output = "" THEN defaultOutputName(st.source, st.flags) ELSE st.output
        dep == IF ok /\ st.depfile = "" /\ st.depFlag THEN depfileFromObjName(out) ELSE st.depfile
    IN  [ok |-> ok, source |-> st.source, output |-> out, depfile |-> dep, flags |-> st.flags]

IsCompile(args) == \E w \in ToSet(args) : w = Option("-c")

-----------------------------------------------------------------------------
\* The values of some options, separated or joined, and the words without.
Values(words, alone, joined) ==
    LET Take(st, w) ==
            IF st.want THEN [values |-> Append(st.values, <<w[2], w[3]>>), want |-> FALSE]
            ELSE IF w[1] \in alone /\ w[3] = "" THEN [st EXCEPT !.want = TRUE]
            ELSE IF w[1] \in joined /\ w[3] # "" THEN [st EXCEPT !.values = Append(@, <<w[2], w[3]>>)]
            ELSE st
    IN  FoldLeft(Take, [values |-> <<>>, want |-> FALSE], words).values

Without(words, alone, joined) ==
    LET Drop(st, w) ==
            IF st.want THEN [st EXCEPT !.want = FALSE]
            ELSE IF w[1] \in alone /\ w[3] = "" THEN [st EXCEPT !.want = TRUE]
            ELSE IF w[1] \in joined /\ w[3] # "" THEN st
            ELSE [st EXCEPT !.words = Append(@, w)]
    IN  FoldLeft(Drop, [words |-> <<>>, want |-> FALSE], words).words

pathFlags == {"-I", "-isystem", "-iquote", "-idirafter"}

\* Seeded fault: only the -I options themselves are directories.
extractIncludeDirsOfI(flags) == Values(flags, {"-I"}, {"-I"})

extractIncludeDirs(flags) == Values(flags, pathFlags, {"-I"})
extractForceIncludes(flags) == Values(flags, {"-include"}, {})

-----------------------------------------------------------------------------
\* The preprocessor.  A world is the files it may open, its search path, and
\* the forced includes.  A name is found in the first directory of the search
\* that leads to a file; ".." leads nowhere from a directory that is not there.
Nowhere == <<>>

Clean(path) ==
    FoldLeft(LAMBDA p, n : IF n = ".." THEN Front(p) ELSE Append(p, n), <<>>, path)

World(texts, at, words) ==
    LET Of(option) == LET values == Values(words, {option}, {"-I"} \cap {option})
                      IN  [i \in DOMAIN values |-> at[values[i]]]
        include == Values(words, {"-include"}, {})
    IN  [texts |-> texts,
         quote |-> Of("-iquote"),
         search |-> Of("-I") \o Of("-isystem") \o SystemDirs \o Of("-idirafter"),
         forced |-> [i \in DOMAIN include |-> [path |-> at[include[i]], name |-> include[i][2]]]]

Leads(world, dir, name) ==
    /\ Clean(dir \o name) \in DOMAIN world.texts
    /\ \A k \in DOMAIN name : name[k] = ".." =>
            \E f \in DOMAIN world.texts : IsStrictPrefix(Clean(dir \o SubSeq(name, 1, k - 1)), f)

FirstHit(world, dirs, name) ==
    LET hits == SelectSeq(dirs, LAMBDA d : Leads(world, d, name))
    IN  IF hits = <<>> THEN Nowhere ELSE Clean(Head(hits) \o name)

Chain(world, quoted, from) ==
    (IF quoted THEN <<from>> \o world.quote ELSE <<>>) \o world.search

Opened(world, f, inc) == FirstHit(world, Chain(world, inc.quoted, Front(f)), inc.name)

\* A forced include is looked up from the working directory first.
Forced(world, cwd) ==
    LET file(x) == IF x.path \in DOMAIN world.texts THEN x.path
                   ELSE FirstHit(world, Chain(world, TRUE, cwd), <<x.name>>)
    IN  [i \in DOMAIN world.forced |-> file(world.forced[i])]

Included(world, f) == {Opened(world, f, inc) : inc \in ToSet(world.texts[f])} \ {Nowhere}

\* All it reads: the source, the forced includes, and what they include.
Unit(world, cwd, source) ==
    LET start == {source} \cup (ToSet(Forced(world, cwd)) \ {Nowhere})
        More(files, i) == files \cup UNION {Included(world, f) : f \in files}
    IN  FoldLeft(More, start, [i \in 1 .. Cardinality(DOMAIN world.texts) |-> i])

Caller(words) == World(Texts, Place, words)

-----------------------------------------------------------------------------
\* A name the preprocessor did not find is looked for where the project may be.
resolveDep(name, hints) ==
    LET hits == SelectSeq(hints, LAMBDA d : Clean(d \o name) \in DOMAIN Texts)
    IN  IF hits = <<>> THEN {} ELSE {Clean(Head(hits) \o name)}

Rel(root, path) == SubSeq(path, Len(root) + 1, Len(path))

stagedIFlags(root, dirs) ==
    LET rels == [i \in DOMAIN dirs |-> Rel(root, dirs[i])]
        first == [i \in DOMAIN rels |->
                    IF rels[i] = <<>> \/ (\E j \in 1 .. i - 1 : rels[j] = rels[i]) THEN <<>>
                    ELSE <<Word("-I", "", Joined(rels[i]))>>]
    IN  <<Word("-I", "", ".")>> \o FlattenSeq(first)

\* What the preprocessor read, and what it missed and the project has.
Resolved(abs, hints, caller, unit) ==
    LET missing == UNION {{inc.name : inc \in {x \in ToSet(Texts[f]) :
                                Opened(caller, f, x) = Nowhere}} : f \in unit}
    IN  {f \in unit \cup UNION {resolveDep(name, hints) : name \in missing} :
            f \notin {abs, Append(Cwd, Last(abs))} /\ ~IsStore(f)}

Result(root, headers, callerDirs, store, force) ==
    LET forced(v) == IF ~IsStore(Place[v]) /\ IsPrefix(root, Place[v])
                     THEN Word("", "", Joined(Rel(root, Place[v]))) ELSE Word("", v[1], v[2])
    IN  [Headers |-> headers,
         ProjectRoot |-> root,
         StagedIFlags |-> stagedIFlags(root, callerDirs),
         StoreIFlags |-> [i \in DOMAIN store |-> Word("-I", store[i][1], store[i][2])],
         StagedIncludeFlags |->
            FlattenSeq([i \in DOMAIN force |-> <<Option("-include"), forced(force[i])>>])]

\* The working directory and the source's are hints for the project root, not
\* directories of the search.
runScanner(source, flags) ==
    LET abs == Place[source]
        caller == Caller(flags)
        dirs == extractIncludeDirs(flags)
        own == SelectSeq(dirs, LAMBDA d : ~IsStore(Place[d]))
        store == SelectSeq(dirs, LAMBDA d : IsStore(Place[d]))
        callerDirs == [i \in DOMAIN own |-> Place[own[i]]]
        hints == <<Cwd, Front(abs)>> \o callerDirs
        headers == Resolved(abs, hints, caller, Unit(caller, Cwd, abs))
        root == LongestCommonPrefix(ToSet(hints) \cup {Front(f) : f \in headers})
    IN  Result(root, headers, callerDirs, store, extractForceIncludes(flags))

rewriteFlags(caller, staged, store, forceInc) ==
    Without(caller, pathFlags \cup {"-include"}, {"-I"}) \o staged \o store \o forceInc
=============================================================================
