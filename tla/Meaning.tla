------------------------------- MODULE Meaning -------------------------------
(***************************************************************************)
(* What a program means by the rules of the language, without the tables   *)
(* of the compiler: what a type written in a class stands for, which       *)
(* classes a program is made of, and what their objects have.              *)
(*                                                                         *)
(* A type is a tuple: a builtin <<"prim", name>>, an <<"array", type>>, an *)
(* instance <<"inst", class, types>>, or a typename <<"var", name>>.       *)
(***************************************************************************)
EXTENDS Binding

Nothing == <<"nothing">>

\* The class with a name and a number of typenames, as a set.
Declared(classes, id, size) ==
  {c \in ToSet(classes) : c.id = id /\ Len(c.typenames) = size}

\* The type that hir_type stands for in the scope of some typenames.
RECURSIVE Denote(_, _, _)
Denote(classes, typenames, hir_type) ==
  LET IsTypename == hir_type.templates = <<>> /\ hir_type.name \in ToSet(typenames)
      args == [i \in DOMAIN hir_type.templates |-> Denote(classes, typenames, hir_type.templates[i])]
      elem == Denote(classes, typenames, hir_type.elem_type)
  IN  CASE hir_type.type = "custom" ->
             IF IsTypename THEN <<"var", hir_type.name>>
             ELSE IF Declared(classes, hir_type.name, Len(args)) = {} \/ Nothing \in ToSet(args)
                  THEN Nothing ELSE <<"inst", hir_type.name, args>>
        [] hir_type.type = "array" -> IF elem = Nothing THEN Nothing ELSE <<"array", elem>>
        [] OTHER -> <<"prim", hir_type.type>>

\* The type with types for typenames.
RECURSIVE Substitute(_, _)
Substitute(map, type) ==
  CASE type[1] = "var"   -> map[type[2]]
    [] type[1] = "array" -> <<"array", Substitute(map, type[2])>>
    [] type[1] = "inst"  -> <<"inst", type[2], [i \in DOMAIN type[3] |-> Substitute(map, type[3][i])]>>
    [] OTHER             -> type

\* The instances in a type, and if it is without typenames.
RECURSIVE Instances(_)
Instances(type) ==
  CASE type[1] = "array" -> Instances(type[2])
    [] type[1] = "inst"  -> {type} \cup UNION {Instances(t) : t \in ToSet(type[3])}
    [] OTHER             -> {}

RECURSIVE Closed(_)
Closed(type) ==
  CASE type[1] = "var"   -> FALSE
    [] type[1] = "array" -> Closed(type[2])
    [] type[1] = "inst"  -> \A i \in DOMAIN type[3] : Closed(type[3][i])
    [] OTHER             -> TRUE

\* All types written in subroutines and in a class.
SubTypes(subs) ==
  UNION {{sub.ret} \cup {n.type : n \in ToSet(sub.params)} \cup {n.type : n \in ToSet(sub.body.vars)}
         \cup {n.type : n \in ToSet(sub.body.exprs)} : sub \in ToSet(subs)}

ClassTypes(class) == ToSet(class.parents) \cup {f.type : f \in ToSet(class.fields)}
                     \cup SubTypes(class.methods)

Distinct(seq) == \A i, j \in DOMAIN seq : seq[i] = seq[j] => i = j

\* Every type stands for something, and no name stands for two.
WellTyped(program) ==
  LET classes == program.classes
      Names(named) == [i \in DOMAIN named |-> <<named[i].id, Len(named[i].typenames)>>]
  IN  /\ Distinct(Names(classes))
      /\ \A t \in SubTypes(program.subs) : Denote(classes, <<>>, t) # Nothing
      /\ \A class \in ToSet(classes) :
           /\ Distinct(class.typenames)
           /\ \A t \in ClassTypes(class) : Denote(classes, class.typenames, t) # Nothing
           /\ \A p \in ToSet(class.parents) : Denote(classes, class.typenames, p)[1] = "inst"

-------------------------------------------------------------------------------
\* The rest is about programs that are well typed.

ClassOf(program, inst) ==
  CHOOSE c \in Declared(program.classes, inst[2], Len(inst[3])) : TRUE

\* What a type written in the class of an instance is there.
TypeIn(program, inst, hir_type) ==
  LET class == ClassOf(program, inst)
      types == inst[3]
  IN  Substitute([n \in ToSet(class.typenames) |->
                    types[CHOOSE i \in DOMAIN types : class.typenames[i] = n]],
                 Denote(program.classes, class.typenames, hir_type))

\* The instances that the text names without typenames, and those that they need.
Roots(program) ==
  LET Written(typenames, types) ==
        UNION {Instances(Denote(program.classes, typenames, t)) : t \in types}
      all == Written(<<>>, SubTypes(program.subs))
             \cup UNION {Written(c.typenames, ClassTypes(c)) : c \in ToSet(program.classes)}
  IN  {inst \in all : Closed(inst)}

Needed(program, inst) ==
  UNION {Instances(TypeIn(program, inst, t)) : t \in ClassTypes(ClassOf(program, inst))}

\* The classes of a program, if they are found in so many rounds.
Made(program, rounds) ==
  LET made[n \in 0 .. rounds] ==
        IF n = 0 THEN Roots(program)
        ELSE made[n - 1] \cup UNION {Needed(program, inst) : inst \in made[n - 1]}
  IN  made[rounds]

Parents(program, inst) ==
  LET parents == ClassOf(program, inst).parents
  IN  [i \in DOMAIN parents |-> TypeIn(program, inst, parents[i])]

\* The names of the fields of an object, its parents' first.
RECURSIVE Fields(_, _)
Fields(program, inst) ==
  LET parents == Parents(program, inst)
      own     == ClassOf(program, inst).fields
  IN  FlattenSeq([i \in DOMAIN parents |-> Fields(program, parents[i])])
      \o [i \in DOMAIN own |-> own[i].name]

OwnMethods(program, inst) == {m.name : m \in ToSet(ClassOf(program, inst).methods)}

\* The methods of an object, each with the instance whose class has it.
RECURSIVE Methods(_, _)
Methods(program, inst) ==
  LET inherited == UNION {Methods(program, p) : p \in ToSet(Parents(program, inst))}
      own       == OwnMethods(program, inst)
  IN  {m \in inherited : m[1] \notin own} \cup {<<name, inst>> : name \in own}

\* Two parents, or a parent and the class, give one name to different things.
RECURSIVE Clashes(_, _)
Clashes(program, inst) ==
  LET parents == Parents(program, inst)
      Names(p) == {m[1] : m \in Methods(program, p)}
      methods == UNION {Names(p) : p \in ToSet(parents)} \cup OwnMethods(program, inst)
  IN  \/ ~Distinct(Fields(program, inst))
      \/ \E i, j \in DOMAIN parents : i # j /\ Names(parents[i]) \cap Names(parents[j]) # {}
      \/ methods \cap ToSet(Fields(program, inst)) # {}
      \/ \E p \in ToSet(parents) : Clashes(program, p)

-------------------------------------------------------------------------------
\* Names of the subroutines of one scope, seen together with some others.

VisibleIn(sub, scope) ==
  {n.name : n \in ToSet(sub.params)} \cup {n.name : n \in ToSet(sub.body.vars)} \cup scope

Used(sub) == {e.name : e \in ToSet(sub.body.exprs)} \ {""}

Undefined(subs, scope) == \E sub \in ToSet(subs) : ~(Used(sub) \subseteq VisibleIn(sub, scope))

\* A name is declared twice among the names of a subroutine and those around it.
Local(sub) == [i \in DOMAIN sub.params |-> sub.params[i].name]
              \o [i \in DOMAIN sub.body.vars |-> sub.body.vars[i].name]

Repeated(subs, scope) ==
  LET names == [i \in DOMAIN subs |-> subs[i].name]
  IN  ~Distinct(names) \/ \E sub \in ToSet(subs) :
        ~Distinct(Local(sub)) \/ ToSet(Local(sub)) \cap (scope \cup ToSet(names)) # {}

SubNames(subs) == {s.name : s \in ToSet(subs)}
=============================================================================
