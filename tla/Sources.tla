------------------------------- MODULE Sources -------------------------------
(***************************************************************************)
(* What one call of Compile is given: the targets of the request and the   *)
(* files behind the FileSystem interface.  An input is a record            *)
(*                                                                         *)
(*   targets : the sequence of URIs the request names                      *)
(*   open    : for each URI some file system can open, the set of files    *)
(*             (a directory opens to several)                              *)
(*   source  : what each file holds                                        *)
(*                                                                         *)
(* A source is abstracted to what the compiler does differently:           *)
(*                                                                         *)
(*   kind       : "none" (no known extension, skipped), "unsupported" (a   *)
(*                known format without a sub-compiler), or "idl"           *)
(*   parse      : what the sub-compiler does: "ok", "fails" (an error that *)
(*                is not reported), "reports" (an error that is), "warns"  *)
(*                (a protobuf warning, which protoReporter also reports,   *)
(*                and a module all the same), "loops" (it reports an error *)
(*                and never returns: the parser asks for a field of a      *)
(*                struct for ever) or "panics"                             *)
(*   module     : the parsed module, UIDs completed, as in SymbolTable     *)
(*   imports    : the URIs of its import statements, in order              *)
(*   unresolved : some name in it resolves to nothing when it is linked    *)
(*   unfoldable : optimize() panics on one of its constants, or overflows  *)
(*                the stack, as in Optimizer                               *)
(*   invalid    : check() reports something about it                       *)
(***************************************************************************)
EXTENDS SymbolTable, FiniteSets

CONSTANTS
  Files,      \* the paths of all files; a module's URI is its file's path
  Builtin,    \* the path of the builtin module, "/protobuf.mglot"
  URIs,       \* the strings targets and import statements are made of
  Normalize,  \* target.Normalize
  MaxTargets  \* a bound on the targets of a request and the imports of a file

ASSUME FilesAssumption == IsFiniteSet(Files) /\ Builtin \in Files
ASSUME URIsAssumption  == Files \subseteq URIs /\ Normalize \in [URIs -> URIs]
ASSUME MaxTargetsAssumption == MaxTargets \in Nat

Targets == UNION {[1..n -> URIs] : n \in 0..MaxTargets}

\* The inputs Compile can be given.  The builtin module is fixed text and its
\* path names no file of a file system.
IsInput(in) ==
    /\ in.targets \in Targets
    /\ DOMAIN in.open \subseteq URIs
    /\ \A u \in DOMAIN in.open : in.open[u] \subseteq Files \ {Builtin}
    /\ DOMAIN in.source = Files
    /\ \A f \in Files :
          /\ in.source[f].kind \in {"none", "unsupported", "idl"}
          /\ in.source[f].parse \in {"ok", "fails", "reports", "warns", "loops", "panics"}
          /\ in.source[f].imports \in Targets
          /\ in.source[f].module.uri = f
          /\ in.source[f].unresolved \in BOOLEAN
          /\ in.source[f].unfoldable \in BOOLEAN
          /\ in.source[f].invalid \in BOOLEAN
    /\ in.source[Builtin].kind = "idl"
    /\ in.source[Builtin].parse = "ok"
    /\ ~in.source[Builtin].unfoldable
    /\ in.source[Builtin].imports = << >>

-----------------------------------------------------------------------------

\* FS.Open finds a file or directory for this target.
Exists(in, uri) == Normalize[uri] \in DOMAIN in.open

\* The files a target opens, without those of FileKindNone.
Opened(in, uri) ==
    {f \in in.open[Normalize[uri]] : in.source[f].kind # "none"}

\* All the files the existing targets of ts open.
OpenedBy(in, ts) ==
    UNION {Opened(in, ts[i]) : i \in {k \in DOMAIN ts : Exists(in, ts[k])}}

Imports(in, f) == in.source[f].imports

\* The files Compile has to look at: the builtin module, the targets, and
\* whatever a reachable file imports.
IsClosed(in, S) ==
    /\ Builtin \in S
    /\ OpenedBy(in, in.targets) \subseteq S
    /\ \A f \in S : OpenedBy(in, Imports(in, f)) \subseteq S

Reachable(in) == {f \in Files : \A S \in SUBSET Files : IsClosed(in, S) => f \in S}

\* Compiling the request may never come to an end, or may end the process.
MayLoop(in)  == \E f \in Reachable(in) : in.source[f].parse = "loops"
MayPanic(in) == \E f \in Reachable(in) : in.source[f].parse = "panics" \/ in.source[f].unfoldable

-----------------------------------------------------------------------------
(* What Compile answers.                                                   *)

NoAnswer    == [error |-> "pending", image |-> {}]
Image(S)    == [error |-> "none", image |-> S]
Failed(why) == [error |-> why, image |-> {}]
Rejected(S) == [error |-> "reported", image |-> S]  \* an image check() objects to

\* Something is wrong with a reachable file or between two of them.
Faulty(in) ==
    LET R == Reachable(in)
        M == {in.source[f].module : f \in R}
    IN  \/ \E f \in R :
             \/ in.source[f].kind # "idl"
             \/ in.source[f].parse # "ok"
             \/ in.source[f].unresolved
             \/ in.source[f].unfoldable
             \/ in.source[f].invalid
             \/ UIDClash(in.source[f].module)
             \/ NameClash(in.source[f].module)
             \/ \E i \in DOMAIN Imports(in, f) :
                   \/ ~Exists(in, Imports(in, f)[i])
                   \/ Imports(in, f)[i] \notin R  \* not the path of a module
        \/ \E m, n \in M :
             /\ m # n
             /\ \/ m.uid = n.uid
                \/ m.pkg = n.pkg
                   /\ \E i \in DOMAIN m.types, j \in DOMAIN n.types :
                         m.types[i].name = n.types[j].name

TargetsExist(in) == \A i \in DOMAIN in.targets : Exists(in, in.targets[i])
=============================================================================
