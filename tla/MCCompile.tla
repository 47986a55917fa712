------------------------------ MODULE MCCompile ------------------------------
(***************************************************************************)
(* Small inputs for Compile: a builtin module and up to three files that   *)
(* import each other in a diamond or a cycle, without a fault or with one  *)
(* of each kind.                                                           *)
(***************************************************************************)
EXTENDS CompileInvariant, TLC

CONSTANTS pb, a, b, c,    \* paths of files
          relC, dir, gone \* strings that are not: a relative path to c, a
                          \* directory that holds b and c, a path to nothing

MCFiles == {pb, a, b, c}
MCURIs  == MCFiles \cup {relC, dir, gone}
MCNormalize == [u \in MCURIs |-> IF u = relC THEN c ELSE u]
MCMaxTargets == 2

Open == (a :> {a}) @@ (b :> {b}) @@ (c :> {c}) @@ (dir :> {b, c})

Type(name, uid) == [name |-> name, uid |-> uid, attributes |-> << >>]

Uid(f) == CASE f = pb -> 2 [] f = a -> 10 [] f = b -> 11 [] f = c -> 12

Module(f) == [uri |-> f, uid |-> Uid(f), pkg |-> <<f>>,
              types |-> <<Type("T", 1)>>]

Source(f, imports) ==
    [kind |-> "idl", parse |-> "ok", module |-> Module(f), imports |-> imports,
     unresolved |-> FALSE, unfoldable |-> FALSE, invalid |-> FALSE]

Given(targets, ia, ib, ic) ==
    [targets |-> targets, open |-> Open,
     source |-> (pb :> Source(pb, << >>)) @@ (a :> Source(a, ia))
                  @@ (b :> Source(b, ib)) @@ (c :> Source(c, ic))]

\* a and b both import c.
Diamond == Given(<<a, b>>, <<c>>, <<c>>, << >>)
\* a and b import each other.
Cycle == Given(<<a>>, <<b>>, <<a>>, << >>)
\* The request names the same file twice.
Twice == Given(<<a, a>>, << >>, << >>, << >>)

\* The diamond with something wrong.
With(f, field, value) ==
    CASE field = "kind"       -> [Diamond EXCEPT !.source[f].kind = value]
      [] field = "parse"      -> [Diamond EXCEPT !.source[f].parse = value]
      [] field = "unresolved" -> [Diamond EXCEPT !.source[f].unresolved = value]
      [] field = "unfoldable" -> [Diamond EXCEPT !.source[f].unfoldable = value]
      [] field = "invalid"    -> [Diamond EXCEPT !.source[f].invalid = value]
      [] field = "uid"        -> [Diamond EXCEPT !.source[f].module.uid = value]
      [] field = "pkg"        -> [Diamond EXCEPT !.source[f].module.pkg = value]
      [] field = "types"      -> [Diamond EXCEPT !.source[f].module.types = value]
      [] field = "imports"    -> [Diamond EXCEPT !.source[f].imports = value]

Healthy == {Diamond, Cycle, Twice}

Broken ==
    {With(c, "kind", "none"), With(c, "kind", "unsupported"),
     With(b, "parse", "fails"), With(b, "parse", "reports"),
     With(c, "parse", "warns"), With(b, "parse", "loops"), With(c, "parse", "panics"),
     With(c, "unfoldable", TRUE),
     With(c, "unresolved", TRUE), With(a, "invalid", TRUE),
     With(b, "uid", Uid(a)), With(c, "pkg", <<a>>),
     With(b, "types", <<Type("T", 1), Type("U", 1)>>),
     With(a, "imports", <<c, gone>>), With(a, "imports", <<relC>>),
     With(a, "imports", <<dir>>),
     [Diamond EXCEPT !.targets = <<a, gone>>]}

SerialInputs == Healthy \cup Broken

ParallelInputs ==
    {Diamond, Cycle, With(b, "parse", "reports"), With(a, "imports", <<c, gone>>),
     With(a, "invalid", TRUE), With(b, "parse", "loops"), With(c, "parse", "panics")}

RaceInputs == {Diamond}
=============================================================================
