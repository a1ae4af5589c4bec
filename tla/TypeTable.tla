------------------------------ MODULE TypeTable ------------------------------
(***************************************************************************)
(* The types of a program: compiler/type_table.  A table is a sequence of  *)
(* types; a type refers to others by their place in it, as the code does   *)
(* by pointers, so two entries may be equal without being the same.        *)
(***************************************************************************)
EXTENDS Integers, Sequences, SequencesExt

\* An operation on each element of a list, in its order: the context that the last
\* one left, and what became of each.
Added(r, x) == [ctx |-> x.ctx, out |-> Append(r.out, x.out)]
Each(Op(_, _), ctx, list) ==
  FoldLeft(LAMBDA r, element : Added(r, Op(r.ctx, element)), [ctx |-> ctx, out |-> <<>>], list)

\* The subroutine r.out with new parameters, variables or expressions.
WithParams(r, x) == [ctx |-> x.ctx, out |-> [r.out EXCEPT !.params = x.out]]
WithVars(r, x)   == [ctx |-> x.ctx, out |-> [r.out EXCEPT !.body.vars = x.out]]
WithExprs(r, x)  == [ctx |-> x.ctx, out |-> [r.out EXCEPT !.body.exprs = x.out]]

Primitive(type)               == [kind |-> "primitive", type |-> type]
ArrayOf(element)              == [kind |-> "array", element_ref |-> element]
Callable(ret, params)         == [kind |-> "callable", ret_ref |-> ret, params |-> params]
ClassT(id, typenames, parents) ==
  [kind |-> "class_t", id |-> id, typenames |-> typenames, parents |-> parents]
Typename(id, source)          == [kind |-> "typename", id |-> id, source_ref |-> source]
Mono(type, types)             == [kind |-> "mono", type_ref |-> type, types |-> types]

\* type_table_emplace: the new type is the last one.
Emplace(tt, type) == Append(tt, type)

\* Two types are equal for type_cmp, and have the same type_hash, if they have the
\* same shape.  Typenames are equal if they are of the same class.
RECURSIVE Shape(_, _)
Shape(tt, t) ==
  LET type == tt[t]
      Shapes(ts) == [i \in DOMAIN ts |-> Shape(tt, ts[i])]
  IN  CASE type.kind = "primitive" -> <<"primitive", type.type>>
        [] type.kind = "array"     -> <<"array", Shape(tt, type.element_ref)>>
        [] type.kind = "callable"  -> <<"callable", Shapes(type.params), Shape(tt, type.ret_ref)>>
        [] type.kind = "class_t"   -> <<"class_t", type.id, Shapes(type.parents),
                                        Shapes(type.typenames)>>
        [] type.kind = "typename"  -> <<"typename", type.id, type.source_ref>>
        [] type.kind = "mono"      -> <<"mono", Shape(tt, type.type_ref), Shapes(type.types)>>

\* type_fetch_mono: no typename is left in the type.  A class alone is a template.
RECURSIVE IsFull(_, _)
IsFull(tt, t) ==
  LET type == tt[t]
      AllFull(ts) == \A i \in DOMAIN ts : IsFull(tt, ts[i])
  IN  CASE type.kind = "primitive" -> TRUE
        [] type.kind = "array"     -> IsFull(tt, type.element_ref)
        [] type.kind = "callable"  -> IsFull(tt, type.ret_ref) /\ AllFull(type.params)
        [] type.kind = "class_t"   -> FALSE
        [] type.kind = "typename"  -> FALSE
        [] type.kind = "mono"      -> AllFull(type.types)

\* The classes whose parents lead from a class to itself: type_hash of them does
\* not return.
ParentsIn(tt, t) ==
  LET RECURSIVE Classes(_)
      Classes(u) == CASE tt[u].kind = "mono" ->
                           {tt[u].type_ref} \cup UNION {Classes(v) : v \in ToSet(tt[u].types)}
                      [] tt[u].kind = "array" -> Classes(tt[u].element_ref)
                      [] OTHER -> {}
  IN  UNION {Classes(p) : p \in ToSet(tt[t].parents)}

HashOverflows(tt) ==
  LET classes == {t \in DOMAIN tt : tt[t].kind = "class_t"}
      reach[n \in 0 .. Len(tt)] ==
        [c \in classes |-> IF n = 0 THEN ParentsIn(tt, c)
                           ELSE reach[n - 1][c] \cup UNION {reach[n - 1][d] : d \in reach[n - 1][c]}]
      steps == Len(SetToSeq(classes))
  IN  \E c \in classes : c \in reach[steps][c]
=============================================================================
