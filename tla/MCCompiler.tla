------------------------------ MODULE MCCompiler ------------------------------
(***************************************************************************)
(* Small programs: all of a shape for each stage, and some that are long.  *)
(***************************************************************************)
EXTENDS CompilerProperties

CONSTANT Chosen    \* which programs: "small", or "chains" of templates

IntType == Base("int")
Of(name, args) == Custom(name, args)
The(name) == Of(name, <<>>)

Class(id, typenames, parents, fields, methods) ==
  [id |-> id, typenames |-> typenames, parents |-> parents,
   fields |-> [i \in DOMAIN fields |-> [names |-> <<fields[i][1]>>, type |-> fields[i][2]]],
   methods |-> methods]

Param(name, type) == [name |-> name, type |-> type]
Var(names, type)  == [names |-> names, type |-> type]
Use(name)         == [name |-> name, type |-> AnyType, literal |-> 0]
Number(n)         == [name |-> "", type |-> AnyType, literal |-> n]
Make(type)        == [name |-> "", type |-> type, literal |-> 0]

Sub(name, params, locals, exprs) ==
  [name |-> name, params |-> params, ret |-> AnyType,
   body |-> [kind |-> "block", vars |-> locals, exprs |-> exprs]]

File(classes, subs) == [found |-> TRUE, parses |-> TRUE, classes |-> classes, subs |-> subs]
Main(exprs) == Sub("main", <<>>, <<>>, exprs)

\* Two classes, with types that may or may not be declared.
Types(name) == {IntType, BuildTypeArray(The(name), 1), The("T"), Of("A", <<The("T")>>),
                Of("A", <<Of("A", <<IntType>>)>>)}
Binding ==
  {<<File(<<Class("A", ta, <<>>, <<<<"a", fa>>>>, <<>>), Class("B", tb, pb, <<<<"b", fb>>>>, <<>>)>>,
          <<Main(<<Make(Of("B", [i \in DOMAIN tb |-> IntType]))>>)>>)>> :
     ta \in {<<>>, <<"T">>, <<"B">>}, fa \in Types("B"), tb \in {<<>>, <<"T">>, <<"T", "T">>},
     pb \in {<<>>, <<The("A")>>, <<Of("A", <<IntType>>)>>, <<Of("A", <<The("T")>>)>>, <<The("T")>>, <<IntType>>},
     fb \in {The("T"), Of("B", <<The("T")>>)}}

\* Names of subroutines, methods, parameters and variables that may be the same.
Scoping ==
  {<<File(<<Class("A", <<>>, <<>>, <<<<"f", IntType>>>>, <<Sub(m, <<>>, v, <<Use(x), Use("this")>>)>>)>>,
          <<Sub(f, <<Param(p, IntType)>>, <<Var(<<q>>, IntType)>>, <<Use(x)>>), Main(<<Make(The("A"))>>)>>)>> :
     m \in {"f", "m"}, v \in {<<>>, <<Var(<<"v", "this">>, IntType)>>, <<Var(<<"m">>, IntType)>>},
     x \in {"f", "p", "v", "m"}, f \in {"g", "main", "m"}, p \in {"p", "main", "this"},
     q \in {"q", "p", "g"}}

Method(name) == Sub(name, <<>>, <<>>, <<>>)

\* A class that repeats a typename has those in front of it only.
Repeating ==
  {<<File(<<Class("B", tb, <<>>, <<>>, mb)>>, <<Main(<<>>)>>)>> :
     tb \in {<<"T", "T">>, <<"T", "T", "U">>, <<"U", "T", "T">>}, mb \in {<<>>, <<Method("m")>>}}

\* Inheritance: names of fields and methods that meet.
Layout ==
  {<<File(<<Class("A", <<>>, <<>>, <<<<"x", IntType>>>>, <<Method("m")>>),
            Class("B", <<>>, pb, <<<<fb, IntType>>>>, <<Method(mb)>>),
            Class("C", <<>>, pc, <<<<fc, IntType>>>>, <<Method(mc)>>)>>,
          <<>>)>> :
     pb \in {<<>>, <<The("A")>>}, fb \in {"x", "y", "m"}, mb \in {"m", "n"},
     pc \in {<<The("B")>>, <<The("A"), The("B")>>, <<The("B"), The("C")>>},
     fc \in {"y", "z", "n"}, mc \in {"m", "n", "o"}}

\* The command line.
Plainly == File(<<>>, <<Main(<<>>)>>)
Lines ==
  {<<[Plainly EXCEPT !.found = f, !.parses = p], File(<<>>, <<Sub("g", <<>>, <<>>, <<Number(n)>>)>>)>> :
     f \in BOOLEAN, p \in BOOLEAN, n \in 0 .. 4} \cup {<<[Plainly EXCEPT !.found = FALSE]>>}

\* Chains of templates, some without an end.
Tv == The("T")
Generic(id, parents, type) == Class(id, <<"T">>, parents, <<<<id, type>>>>, <<>>)
Templates ==
  {<<File(<<Generic("A", <<>>, fa), Generic("B", <<>>, fb), Class("C", <<>>, <<>>, <<<<"c", fc>>>>, <<>>)>>,
          <<>>), File(<<>>, <<Main(<<Make(fc), Make(The("C"))>>)>>)>> :
     fa \in {Tv, Array(Tv), Of("A", <<Tv>>), Of("B", <<Tv>>), Of("A", <<Of("B", <<Tv>>)>>)},
     fb \in {Tv, Of("A", <<Tv>>), Of("A", <<IntType>>), Of("B", <<Of("A", <<Tv>>)>>)},
     fc \in {IntType, Of("A", <<IntType>>), Of("B", <<Of("A", <<IntType>>)>>), Array(Of("B", <<The("C")>>))}}

\* Generic inheritance.
Inheriting ==
  {<<File(<<Class("A", <<"T">>, <<>>, <<<<"a", Tv>>>>, <<>>),
            Class("B", <<"T">>, <<pb>>, <<<<"b", Tv>>>>, mb),
            Class("C", <<"T">>, pc, <<<<"c", fc>>>>, <<>>),
            Class("D", <<>>, <<>>, <<<<"d", fd>>, <<"e", fe>>>>, <<>>)>>,
          <<Main(<<Make(The("D"))>>)>>)>> :
     pb \in {Of("A", <<IntType>>), Of("A", <<Tv>>), Of("A", <<Array(Tv)>>)},
     mb \in {<<>>, <<Method("m")>>},
     pc \in {<<>>, <<Of("B", <<Tv>>)>>, <<Of("B", <<IntType>>)>>},
     fc \in {IntType, Of("B", <<Tv>>)},
     fd \in {Of("B", <<IntType>>), Of("C", <<IntType>>)}, fe \in {IntType, Of("C", <<IntType>>), Of("B", <<The("D")>>)}}

\* Generic classes that name themselves with other types.
Recursive ==
  {<<File(<<Generic("A", <<>>, Tv),
            Class("B", <<"T", "U">>, pb, <<<<"b", fb>>>>, <<Sub("m", <<>>, <<Var(<<"v">>, vb)>>, <<Use("this")>>)>>),
            Class("D", <<>>, <<>>, <<<<"d", Of("B", <<The("D"), Array(IntType)>>)>>>>, <<>>)>>, <<>>)>> :
     pb \in {<<>>, <<Of("A", <<IntType>>)>>, <<Of("A", <<Tv>>)>>},
     fb \in {Tv, Of("B", <<The("U"), IntType>>)}, vb \in {IntType, Of("B", <<Tv, The("U")>>)}}

MCSources == CASE Chosen = "small"  -> Binding \cup Scoping \cup Layout \cup Lines \cup Templates \cup Inheriting
                                \cup Recursive \cup Repeating
               [] Chosen = "chains" -> Inheriting \cup Recursive
=============================================================================
