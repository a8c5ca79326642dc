------------------------------ MODULE Workspace ------------------------------
(***************************************************************************)
(* The files native mode shares between shim processes, with no lock: the  *)
(* caller's working tree and, under .nixgg/, thunks/, symlinks/ (one       *)
(* manifest per thunk id) and promoted/ (one record per path).             *)
(*                                                                         *)
(* A thunk id stands for its expression and for the store path it builds   *)
(* to: builds are deterministic and ids are content hashes.  What an       *)
(* expression refers to is given by the constants below.  thunks/ is the   *)
(* indivisible store ThunkWrite implements.                                *)
(***************************************************************************)
EXTENDS Naturals, Sequences

CONSTANTS
    Paths,      \* outputs of recipes, as absolute paths
    Ids,        \* thunk ids
    NoId,       \* no thunk: bytes nixgg did not build, a missing record
    Inputs,     \* the object operands of the recipe for a path, in argv order
    Refs,       \* what the expression of an id refers to, in argv order
    Imports,    \* the ids findThunkImports finds in the text of an id
    Outputs     \* the paths a recipe whose expression is the id may write

\* An expression names an input by importing its thunk or by its store path.
Ref == [via : {"nix", "store"}, id : Ids]

Imported(t) == {r \in {Refs[t][i] : i \in DOMAIN Refs[t]} : r.via = "nix"}

ASSUME NoIdAssumption == NoId \notin Ids
ASSUME InputsAssumption == Inputs \in [Paths -> Seq(Paths)]
ASSUME RefsAssumption == Refs \in [Ids -> Seq(Ref)]
ASSUME ImportsAssumption ==
    /\ Imports \in [Ids -> Seq(Ids)]
    /\ \A t \in Ids : {Imports[t][i] : i \in DOMAIN Imports[t]}
                          = {r.id : r \in Imported(t)}
ASSUME OutputsAssumption == Outputs \in [Ids -> SUBSET Paths]

VARIABLES
    tree,       \* the working tree
    thunks,     \* ids whose .nix file exists
    manifest,   \* symlinks/<id>: the lines of the file
    promoted,   \* promoted/<path>: the recorded id; a file still empty reads as none
    latest      \* observed: the id last published at a path by a recipe

fileVars == <<tree, thunks, manifest, promoted, latest>>

\* A symlink holds the id of the .nix it points at, a regular file the id of
\* the build its bytes came from.
Absent == [kind |-> "absent", id |-> NoId]
Symlink(t) == [kind |-> "symlink", id |-> t]
File(t) == [kind |-> "file", id |-> t]
Foreign == File(NoId)

Entry == [kind : {"symlink"}, id : Ids]
             \cup [kind : {"file"}, id : Ids \cup {NoId}] \cup {Absent}

FilesTypeOK ==
    /\ tree \in [Paths -> Entry]
    /\ thunks \subseteq Ids
    /\ manifest \in [Ids -> Seq(Paths)]
    /\ promoted \in [Paths -> Ids \cup {NoId}]
    /\ latest \in [Paths -> Ids \cup {NoId}]

FilesInit ==
    /\ tree = [o \in Paths |-> Absent]
    /\ thunks = {}
    /\ manifest = [t \in Ids |-> <<>>]
    /\ promoted = [o \in Paths |-> NoId]
    /\ latest = [o \in Paths |-> NoId]

Put(o, entry) == tree' = [tree EXCEPT ![o] = entry]

Exists(o) == tree[o] # Absent

Lines(t) == {manifest[t][i] : i \in DOMAIN manifest[t]}
=============================================================================
