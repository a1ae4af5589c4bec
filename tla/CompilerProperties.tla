-------------------------- MODULE CompilerProperties --------------------------
(***************************************************************************)
(* The compiler does to a program what the language says.                  *)
(***************************************************************************)
EXTENDS Compiler

M == INSTANCE Meaning

\* What was read, as hir_lower_ast joins it.
Source == HirLowerAst(asts)

\* What a type of the table stands for.
RECURSIVE TypeMeaning(_)
TypeMeaning(t) ==
  LET type == tt[t]
      Meanings(ts) == [i \in DOMAIN ts |-> TypeMeaning(ts[i])]
  IN  CASE type.kind = "primitive" -> <<"prim", type.type>>
        [] type.kind = "array"     -> <<"array", TypeMeaning(type.element_ref)>>
        [] type.kind = "typename"  -> <<"var", type.id>>
        [] type.kind = "mono"      -> <<"inst", tt[type.type_ref].id, Meanings(type.types)>>

\* The typenames in a type of the table.
RECURSIVE TypenamesIn(_)
TypenamesIn(t) ==
  CASE tt[t].kind = "typename" -> {t}
    [] tt[t].kind = "array"    -> TypenamesIn(tt[t].element_ref)
    [] tt[t].kind = "mono"     -> UNION {TypenamesIn(u) : u \in ToSet(tt[t].types)}
    [] OTHER                   -> {}

\* All names with types of a class or a subroutine of the program.
SubNamed(sub) == ToSet(sub.params) \cup ToSet(sub.body.vars) \cup ToSet(sub.body.exprs)
Named(class)  == ToSet(class.fields) \cup UNION {SubNamed(m) : m \in ToSet(class.methods)}

\* No typename is named as a class without typenames.
NoCapture == \A c, d \in ToSet(Source.classes) : c.typenames = <<>> => c.id \notin ToSet(d.typenames)

\* bind_types.c gives every type that a program writes the type that it stands for
\* where it is written, with the typenames of that class and not of another that has
\* the same names, or reports the program; it reports no other program.
TypesResolved ==
  /\ stage = "templates" /\ NoCapture =>
       /\ M!WellTyped(Source)
       /\ \A c \in ToSet(hir.classes) : \A n \in Named(c) :
            LET class == tt[c.ty]
            IN  /\ TypenamesIn(n.ty) \subseteq ToSet(class.typenames)
                /\ TypeMeaning(n.ty) =
                     M!Denote(Source.classes,
                              [i \in DOMAIN class.typenames |-> tt[class.typenames[i]].id], n.type)
       /\ \A s \in ToSet(hir.subs) : \A n \in SubNamed(s) :
            TypeMeaning(n.ty) = M!Denote(Source.classes, <<>>, n.type)
  /\ stage = "done" /\ exceptions \cap {"type unresolved", "type unexpected", "type redefinition"} # {}
       => ~M!WellTyped(Source)

\* A class with a parent that depends on its typenames is only written with types
\* without typenames.
Plain ==
  LET classes == Source.classes
      Means(c, t) == M!Denote(classes, c.typenames, t)
      Generic(c) == \E p \in ToSet(c.parents) : ~M!Closed(Means(c, p))
  IN  \A c, d \in ToSet(classes) : Generic(d) =>
        \A t \in M!ClassTypes(c) : \A inst \in M!Instances(Means(c, t)) :
          inst[2] = d.id /\ Len(inst[3]) = Len(d.typenames) => M!Closed(inst)

\* The parents of the class of an instance, as the code finds them.
ParentTypes(ty) == tt[tt[ty].type_ref].parents

\* expand_templates.c makes each class that the program needs once, its members have
\* the types of the template with the instance's types for the typenames, and its
\* parents are made; it reports no error of a program that means something.
InstancesExact ==
  /\ stage = "done" /\ "template expansion" \in exceptions => ~Plain
  /\ stage = "symbols" /\ NoCapture /\ Plain /\ popped < Limit =>
       LET types == [i \in DOMAIN hir.classes |-> TypeMeaning(hir.classes[i].ty)]
       IN  /\ ToSet(types) = M!Made(Source, Limit)
           /\ M!Distinct(types)
           /\ \A c \in ToSet(hir.classes) :
                /\ \A n \in Named(c) :
                     TypeMeaning(n.ty) = M!TypeIn(Source, TypeMeaning(c.ty), n.type)
                /\ [i \in DOMAIN ParentTypes(c.ty) |-> TypeMeaning(ParentTypes(c.ty)[i])]
                     = M!Parents(Source, TypeMeaning(c.ty))
                /\ ToSet(ParentTypes(c.ty)) \subseteq {d.ty : d \in ToSet(hir.classes)}

\* bind_symbols.c gives an identifier the symbol of the parameter or variable of its
\* subroutine, else of the method or subroutine of that name, or reports the program;
\* it reports no program whose names are all declared, and once.
SymbolsResolved ==
  LET globals == ToSet(hir.subs)
      Right(subs, around) ==
        \A sub \in subs : \A e \in ToSet(sub.body.exprs) :
          LET own == {n \in ToSet(sub.params) \cup ToSet(sub.body.vars) : n.name = e.name}
          IN  e.name # "" => e.id \in {n.id : n \in IF own # {} THEN own
                                                   ELSE {s \in around : s.name = e.name}}
      Scope(class) == M!SubNames(hir.subs) \cup M!SubNames(class.methods)
      Bad == \/ M!Undefined(hir.subs, M!SubNames(hir.subs)) \/ M!Repeated(hir.subs, {})
             \/ \E c \in ToSet(hir.classes) :
                  \/ M!Undefined(c.methods, Scope(c)) \/ M!Repeated(c.methods, M!SubNames(hir.subs))
                  \/ M!SubNames(c.methods) \cap M!SubNames(hir.subs) # {}
                  \/ ~M!Distinct([i \in DOMAIN c.fields |-> c.fields[i].name])
                  \/ {f.name : f \in ToSet(c.fields)} \cap M!SubNames(hir.subs) # {}
  IN  /\ stage = "classes" =>
           /\ Right(globals, globals)
           /\ \A c \in ToSet(hir.classes) : Right(ToSet(c.methods), globals \cup ToSet(c.methods))
      /\ stage = "done" /\ exceptions \cap {"symbol undefined", "symbol redefinition"} # {} => Bad

\* The fields and the methods of a class that was laid out; a method is that of the
\* instance with its symbol.
LaidOut(ty) ==
  LET layout == mir.classes[ty]
      Of(id) == {TypeMeaning(c.ty) : c \in {d \in ToSet(hir.classes) :
                                              \E i \in DOMAIN d.methods : d.methods[i].id = id}}
  IN  [fields  |-> [i \in DOMAIN layout.fields |-> layout.fields[i].name],
       methods |-> UNION {{name} \X Of(layout.methods[name]) : name \in DOMAIN layout.methods}]

Meant(ty) == [fields  |-> M!Fields(Source, TypeMeaning(ty)),
              methods |-> M!Methods(Source, TypeMeaning(ty))]

\* lower_hir.c gives an object the fields of its parents before its own, and the
\* method of the nearest class; a program is reported if and only if one name would
\* be two of them.
LayoutInherited ==
  /\ stage = "asm" /\ Plain /\ NoCapture =>
       \A ty \in DOMAIN mir.classes : LaidOut(ty) = Meant(ty) /\ ~M!Clashes(Source, TypeMeaning(ty))
  /\ stage = "done" /\ "symbol name collision" \in exceptions =>
       \E c \in ToSet(hir.classes) : M!Clashes(Source, TypeMeaning(c.ty))

\* main.c writes the assembly file, and ends with 0, if and only if a file was found
\* and nothing was reported but files that were not: then all that was found parses,
\* and its types and names are declared without the rest.
VerdictRight ==
  stage = "done" =>
    /\ written <=> code = 0
    /\ code = 0 <=> exceptions \subseteq {"not found"} /\ files # <<>>
    /\ written => /\ \A i \in DOMAIN files : files[i].parses
                  /\ M!WellTyped(Source)
                  /\ ~M!Undefined(hir.subs, M!SubNames(hir.subs))

\* expand_templates.c:748: "doesn't create new, because other references should stay
\* valid": a class type that is written in a class is one that a class was made for,
\* not a second type of that class.
ReferencesStayValid ==
  stage = "symbols" /\ popped < Limit =>
    \A c \in ToSet(hir.classes) : \A n \in Named(c) :
      tt[n.ty].kind = "mono" => \E d \in ToSet(hir.classes) : d.ty = n.ty
=============================================================================
