------------------------------ MODULE LinkLine ------------------------------
(***************************************************************************)
(* How the link and ld shims read a command line.  A word is               *)
(* <<option, directory, name>>: an operand has no option, a lone option no *)
(* name, and an option joined to its value has both.                       *)
(***************************************************************************)
EXTENDS Derivation

Operand(dir, name) == Word("", dir, name)
IsOperand(w) == w[1] = ""
File(w) == <<w[2], w[3]>>
NoFile == <<"", "">>

isGroupBracket(w) ==
    w[1] \in {"-Wl,--start-group", "-Wl,--end-group", "--start-group", "--end-group"}
isWholeArchiveStart(w) == w[1] \in {"-Wl,--whole-archive", "--whole-archive"}
isWholeArchiveEnd(w) == w[1] \in {"-Wl,--no-whole-archive", "--no-whole-archive"}
isLinkInput(w) == IsOperand(w) /\ Suffix[w[3]] \in {".o", "-prelink.o", ".a", ".so"}
IsDepFlag(w) == w[1] \in {"-M", "-MM", "-MG", "-MP", "-MD", "-MMD"} \/ w[1] = "-Wl,--dependency-file="
TakesDepFile(w) == w[1] \in {"-MF", "-MT", "-MQ", "-Wl,--dependency-file"}

\* The file a library flag names, if it is one of the build's own: the first
\* in the order of the directories, a shared object before an archive.
resolveLibFlag(tree, w, dirs) ==
    LET names == IF w[1] = "-l:" THEN <<w[3]>>
                 ELSE <<"lib" \o w[3] \o ".so", "lib" \o w[3] \o ".a">>
        places == FlattenSeq([i \in DOMAIN dirs |->
                        [j \in DOMAIN names |-> <<dirs[i], names[j]>>]])
        own == SelectSeq(places, LAMBDA p : p \in DOMAIN tree /\ tree[p].kind \in {"nix", "store"})
    IN  IF own = <<>> THEN NoFile ELSE Head(own)

-----------------------------------------------------------------------------
\* "want" is the option whose value is still to come.
LineStart == [output |-> "", inputs |-> <<>>, flags |-> <<>>, group |-> FALSE,
              whole |-> {}, inWhole |-> FALSE, dirs |-> <<>>, want |-> ""]

AddInput(st, f) ==
    [st EXCEPT !.inputs = Append(@, f),
               !.whole = IF st.inWhole THEN @ \cup {f[2]} ELSE @]

ReadValue(st, w) ==
    LET next == [st EXCEPT !.want = ""]
    IN  CASE st.want = "-o" -> [next EXCEPT !.output = w[3]]
          [] st.want = "-soname" -> [next EXCEPT !.flags = Append(@, w)]
          [] st.want = "-L" -> [next EXCEPT !.flags = @ \o <<Option("-L"), w>>,
                                            !.dirs = Append(@, w[3])]
          [] OTHER -> next

ReadLibrary(tree, st, w) ==
    LET hit == resolveLibFlag(tree, w, st.dirs)
    IN  IF hit # NoFile THEN AddInput(st, hit) ELSE [st EXCEPT !.flags = Append(@, w)]

ReadOption(tree, st, w) ==
    CASE w[1] = "-o" /\ w[3] = "" -> [st EXCEPT !.want = "-o"]
      [] w[1] = "-o" /\ w[3] # "" -> [st EXCEPT !.output = w[3]]
      [] w[1] = "-soname" -> [st EXCEPT !.flags = Append(@, w), !.want = "-soname"]
      [] isGroupBracket(w) -> [st EXCEPT !.group = TRUE]
      [] isWholeArchiveStart(w) -> [st EXCEPT !.inWhole = TRUE]
      [] isWholeArchiveEnd(w) -> [st EXCEPT !.inWhole = FALSE]
      [] isLinkInput(w) -> AddInput(st, File(w))
      [] w[1] = "-L" /\ w[3] # "" -> [st EXCEPT !.flags = Append(@, w), !.dirs = Append(@, w[3])]
      [] w[1] = "-L" /\ w[3] = "" -> [st EXCEPT !.want = "-L"]
      [] w[1] \in {"-l", "-l:"} /\ w[3] # "" -> ReadLibrary(tree, st, w)
      [] IsDepFlag(w) -> st
      [] TakesDepFile(w) -> [st EXCEPT !.want = "drop"]
      [] OTHER -> [st EXCEPT !.flags = Append(@, w)]

ReadWord(tree, st, w) ==
    IF st.want # "" THEN ReadValue(st, w) ELSE ReadOption(tree, st, w)

\* The whole line, or the empty record when it is not one the shim models.
parseLinkArgs(tree, args) ==
    LET st == FoldLeft(LAMBDA acc, w : ReadWord(tree, acc, w), LineStart, args)
    IN  [ok |-> st.want # "-o" /\ st.inputs # <<>> /\ st.output # "",
         output |-> st.output, inputs |-> st.inputs, flags |-> st.flags,
         group |-> st.group, whole |-> st.whole]

\* The first linker script the line names.
linkerScriptPath(args) ==
    LET named == SelectSeq(args, LAMBDA w : w[1] = "-Wl,--version-script=")
    IN  IF named = <<>> THEN NoFile ELSE File(Head(named))

-----------------------------------------------------------------------------
\* `ld -r`: every option is kept as a flag, only objects and archives are
\* operands, and anything else is left to the link shim.
ldTwoArg == {"-m", "-z", "-T"}

ReadLDWord(st, w) ==
    CASE st.want = "-o" -> [st EXCEPT !.output = w[3], !.want = ""]
      [] st.want = "keep" -> [st EXCEPT !.flags = Append(@, w), !.want = ""]
      [] st.want = "" /\ w[1] \in {"-r", "--relocatable"} ->
            [st EXCEPT !.flags = Append(@, w), !.relocatable = TRUE]
      [] st.want = "" /\ w[1] = "-o" /\ w[3] = "" -> [st EXCEPT !.want = "-o"]
      [] st.want = "" /\ w[1] = "-o" /\ w[3] # "" -> [st EXCEPT !.output = w[3]]
      [] st.want = "" /\ w[1] \in ldTwoArg -> [st EXCEPT !.flags = Append(@, w), !.want = "keep"]
      [] st.want = "" /\ IsOperand(w) /\ Suffix[w[3]] \in {".o", "-prelink.o", ".a"} ->
            [st EXCEPT !.inputs = Append(@, File(w))]
      [] st.want = "" /\ IsOperand(w) /\ Suffix[w[3]] \notin {".o", "-prelink.o", ".a"} ->
            [st EXCEPT !.relocatable = FALSE, !.want = "bail"]
      [] st.want = "" /\ ~IsOperand(w) -> [st EXCEPT !.flags = Append(@, w)]
      [] st.want = "bail" -> st

parseLDArgs(args) ==
    LET st == FoldLeft(ReadLDWord, [output |-> "", inputs |-> <<>>, flags |-> <<>>,
                                    relocatable |-> FALSE, want |-> ""], args)
    IN  [ok |-> st.want = "" /\ st.relocatable /\ st.output # "" /\ st.inputs # <<>>,
         output |-> st.output, inputs |-> st.inputs, flags |-> st.flags,
         group |-> FALSE, whole |-> {}]
=============================================================================
