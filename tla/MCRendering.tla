---------------------------- MODULE MCRendering ----------------------------
(***************************************************************************)
(* Command lines of up to three parts, each an operand, a library, a       *)
(* bracketed span or a few options, among them words that spell the        *)
(* markers of the thunk template; directories come before or after.  Files *)
(* of the build are built or not yet; two archives are thin.  A file in a  *)
(* whole-archive span is never named outside one: spans are kept by name.  *)
(***************************************************************************)
EXTENDS Rendering

Tools == [bash |-> "bash", coreutils |-> "coreutils", compiler |-> "gcc"]

Endings ==
    [n \in {"a.c", "s.c", "lib.c"} |-> ".c"]
    @@ [n \in {"own.h", "conf.h", "std.h", "dep.h"} |-> ".h"]
    @@ [n \in {"build", "other", "inc", "../inc", "include", "lib", "gen", "c-header", "COREUTILS", "COMPILER", "INPUT1",
               "NDEBUG", "a.d"} |-> ""]
    @@ [n \in {"a.o", "vmlinux.o", "x.o"} |-> ".o"]
    @@ [n \in {"libt.a", "libv.a", "libfoo.a", "libbar.a", "foreign.a", "vmlinux.a", "out.a"} |-> ".a"]
    @@ [n \in {"libfoo.so", "name.so"} |-> ".so"]
    @@ [n \in {"m-prelink.o"} |-> "-prelink.o"]
    @@ [n \in {"prog", "out.d", "elf_x86_64", "sym.ver", "abs.ver"} |-> ""]

Made(kind, ref, members) == [kind |-> kind, ref |-> ref, members |-> members]
Plain(text) == Made("plain", "", text)

Member == Input("nix", "tu-x", "x.o")

Files(objects) ==
    <<"", "a.o">> :> Made(objects, "tu-a", <<>>)
    @@ <<"", "x.o">> :> Made("nix", "tu-x", <<>>)
    @@ <<"", "m-prelink.o">> :> Made("nix", "bin-m", <<>>)
    @@ <<"", "libt.a">> :> Made("nix", "ar-t", <<Member>>)
    @@ <<"", "vmlinux.a">> :> Made(objects, "ar-v", <<>>)
    @@ <<"", "foreign.a">> :> Plain(<<>>)
    @@ <<"build", "libfoo.so">> :> Made("nix", "bin-foo", <<>>)
    @@ <<"build", "libfoo.a">> :> Made("nix", "ar-foo", <<>>)
    @@ <<"build", "libv.a">> :> Made("nix", "ar-w", <<Member>>)
    @@ <<"other", "libbar.a">> :> Made("store", "ar-bar", <<>>)
    @@ <<"", "sym.ver">> :> Plain(<<>>)
    @@ <<"abs", "abs.ver">> :> Plain(<<Marker("NIXGG", "INPUT1")>>)

MCTrees == {Files("nix"), Files("store")}

-----------------------------------------------------------------------------
\* Compiles run in /p/b.  One source is beside it, one below, one in /p/src.
MCCwd == <<"p", "b">>
At(names) == MCCwd \o names

MCPlace ==
    <<"", "a.c">> :> At(<<"a.c">>)
    @@ <<"../src", "s.c">> :> <<"p", "src", "s.c">>
    @@ <<"lib", "lib.c">> :> At(<<"lib", "lib.c">>)
    @@ <<"inc", "conf.h">> :> At(<<"inc", "conf.h">>)
    @@ <<"", "inc">> :> At(<<"inc">>)
    @@ <<"", "../inc">> :> <<"p", "inc">>
    @@ <<"", "lib">> :> At(<<"lib">>)
    @@ <<"dep", "include">> :> <<"store", "dep", "include">>

Quoted(name) == [quoted |-> TRUE, name |-> name]
Angled(name) == [quoted |-> FALSE, name |-> name]

\* conf.h and own.h are there twice, and std.h is the C library's, one of the
\* project's and one that only a quoted include could mean.
MCTexts ==
    At(<<"a.c">>) :> <<Quoted(<<"own.h">>), Angled(<<"std.h">>)>>
    @@ <<"p", "src", "s.c">> :> <<Angled(<<"sub", "deep.h">>), Quoted(<<"..", "inc", "api.h">>)>>
    @@ At(<<"lib", "lib.c">>) :> <<Quoted(<<"lib.h">>), Quoted(<<"own.h">>), Angled(<<"dep.h">>)>>
    @@ At(<<"own.h">>) :> <<>>
    @@ At(<<"lib", "lib.h">>) :> <<Angled(<<"api.h">>)>>
    @@ At(<<"lib", "own.h">>) :> <<Angled(<<"conf.h">>)>>
    @@ At(<<"lib", "std.h">>) :> <<>>
    @@ At(<<"inc", "conf.h">>) :> <<Angled(<<"std.h">>)>>
    @@ At(<<"inc", "std.h">>) :> <<>>
    @@ <<"p", "inc", "conf.h">> :> <<>>
    @@ <<"p", "inc", "api.h">> :> <<Quoted(<<"sub", "deep.h">>)>>
    @@ <<"p", "inc", "sub", "deep.h">> :> <<>>
    @@ <<"store", "dep", "include", "dep.h">> :> <<Angled(<<"std.h">>)>>
    @@ <<"store", "libc", "include", "std.h">> :> <<>>

MCEnv == [NIX_LDFLAGS |-> <<Word("-L", "dep2", "lib")>>]

Op(name) == Operand("", name)
Lib(name) == Word("-l", "", name)

\* Brackets as the tool of the call spells them.
Span(tool, name, ws) ==
    LET at(b) == <<Option(IF tool = "ld" THEN b ELSE "-Wl," \o b)>>
    IN  at("--" \o (IF name = "group" THEN "start-group" ELSE "whole-archive")) \o ws
        \o at("--" \o (IF name = "group" THEN "end-group" ELSE "no-whole-archive"))

\* Whose order counts, and the others.
Loadable == {
    <<Op("a.o")>>, <<Op("libt.a")>>, <<Op("x.o")>>, <<Op("m-prelink.o")>>,
    <<Lib("foo")>>, <<Lib("m")>>, <<Word("-l:", "", "libbar.a")>>}

Parts == Loadable \cup {
    <<Op("foreign.a")>>, <<Word("-I", "dep", "include")>>, <<Marker("NIXGG", "COMPILER")>>,
    <<Marker("NIXGG1", "INPUT1")>>,
    <<Option("-soname"), Op("name.so")>>, <<Option("-MF"), Op("out.d")>>}

Spans(tool) ==
    {Span(tool, "group", <<Op("libt.a"), Op("x.o")>>),
     Span(tool, "whole", <<Op("vmlinux.a")>>), Span(tool, "whole", <<Lib("v")>>)}

Scripts == {<<Word("-Wl,--version-script=", "", "sym.ver")>>,
            <<Word("-Wl,--version-script=", "abs", "abs.ver")>>}

Dirs == <<Word("-L", "", "build"), Option("-L"), Op("other")>>

Lines(parts, n) == {FlattenSeq(s) : s \in UNION {[1 .. k -> parts] : k \in 1 .. n}}

Call(shim, tool, args, output, key, source) ==
    [shim |-> shim, tool |-> tool, args |-> args, output |-> output, key |-> key,
     source |-> source]

Ends == {<<Option("-o"), Op("prog")>>, <<Word("-o", "", "prog")>>, <<Option("-o")>>}

Links(tool) ==
    LET line(s, o, k) == Call(IF tool = "ld" THEN "ld" ELSE "driver", tool, Dirs \o s \o o, "prog", k, "")
        parts == Parts \cup Spans(tool) \cup Scripts
    IN  {line(s, o, k) : s \in Lines(parts, 2), o \in Ends, k \in {"", "build-prog"}}
        \cup {line(s, <<Option("-o"), Op("prog")>>, "") :
                s \in Lines(Loadable \cup Spans(tool) \cup {<<Marker("NIXGG", "COMPILER")>>}, 3)}
        \cup {Call(IF tool = "ld" THEN "ld" ELSE "driver", tool,
                   s \o Dirs \o <<Option("-o"), Op("prog")>>, "prog", "", "") :
                s \in Lines(Loadable \cup Spans(tool), 2)}

Relocatables == {Call("ld", "ld", <<Option("-m"), Op("elf_x86_64")>> \o r \o s
                                    \o <<Option("-o"), Op("vmlinux.o")>>, "", "", "") :
    r \in {<<Option("-r")>>, <<>>},
    s \in Lines(Parts \cup Spans("ld"), 2)}

\* A driver's compiles: three sources and a header, and up to three options.
Sources == {<<Op("a.c")>>, <<Operand("../src", "s.c")>>, <<Operand("lib", "lib.c")>>,
            <<Option("-x"), Op("c-header"), Operand("inc", "conf.h")>>}

IncludeParts == {
    <<Word("-I", "", "inc")>>, <<Option("-I"), Op("../inc")>>, <<Option("-isystem"), Op("../inc")>>,
    <<Option("-iquote"), Op("lib")>>, <<Option("-idirafter"), Op("inc")>>,
    <<Word("-I", "dep", "include")>>, <<Option("-include"), Operand("inc", "conf.h")>>}

CompileParts == IncludeParts \cup {
    <<Option("-O2")>>, <<Word("-D", "", "NDEBUG")>>, <<Option("-MD")>>,
    <<Option("-MF"), Op("out.d")>>, <<Word("-Wp,-MMD,", "", "a.d")>>,
    <<Marker("NIXGG", "COREUTILS")>>, <<Marker("NIXGG1", "COMPILER")>>}

Compiles ==
    LET line(s, f, o) == Call("driver", "cc", <<Option("-c")>> \o s \o f \o o, "", "", "")
    IN  {line(s, f, <<>>) : s \in Lines(IncludeParts, 3), f \in Sources}
        \cup {line(s, f, <<Option("-o"), Op("a.o")>>) : s \in Lines(CompileParts, 2), f \in Sources}
        \cup {line(<<Option("-O2")>>, f, <<>>) : f \in Sources \cup {<<>>, <<Op("a.c"), Op("s.c")>>}}

Archives == {Call("ar", "ar", s, "out.a", k, m) :
    s \in Lines({<<Op("a.o")>>, <<Op("x.o")>>, <<Op("libt.a")>>, <<Op("foreign.a")>>}, 3),
    k \in {"", "build-lib"}, m \in {"rcs", "rcsT"}}

Rewrites == {Call(t, t, <<Op(n)>> \o f, n, "", "") :
    t \in {"objtool", "objcopy"}, n \in {"a.o", "x.o", "foreign.a"},
    f \in {<<>>, <<Option("--orc")>>, <<Marker("NIXGG", "INPUT1")>>}}

MCCalls == Links("cc") \cup Links("ld") \cup Relocatables \cup Compiles \cup Archives \cup Rewrites

-----------------------------------------------------------------------------
MCSystemDirs == <<<<"store", "libc", "include">>>>

MCStem == [n \in {"a.c", "a.o"} |-> "a"] @@ [n \in {"s.c", "s.o"} |-> "s"]
    @@ [n \in {"lib.c", "lib.o"} |-> "lib"] @@ [n \in {"conf.h.gch"} |-> "conf.h"]

\* The recipe of Linux's vmlinux.o, as the tests of the link shim spell it.
VmlinuxCalls == {Call("ld", "ld",
    <<Option("-r")>> \o Span("ld", "whole", <<Op("vmlinux.a")>>)
        \o Span("ld", "group", <<Op("libt.a"), Op("x.o")>>)
        \o <<Option("-o"), Op("vmlinux.o")>>, "", "", "")}
    \cup {c \in MCCalls : c.shim = "ld"}
=============================================================================
