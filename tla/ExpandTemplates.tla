--------------------------- MODULE ExpandTemplates ---------------------------
(***************************************************************************)
(* hir_build/expand_templates.c: a class is made from its template for     *)
(* each way the program uses it.                                           *)
(*                                                                         *)
(* ctx is hir_ctx.  The indices registered_types and insted_types are      *)
(* hashsets: an element lies where its hash put it when it was entered,    *)
(* and is found by the hash of today.  An element is therefore the type    *)
(* with the shape it had.  If the shape has changed since, the two hashes  *)
(* may or may not lead to the same place: ctx.lucky says if they do.       *)
(***************************************************************************)
EXTENDS TypeTable

Indexed(tt, t) == [ty |-> t, shape |-> Shape(tt, t)]

\* hashset_type_ref_find: the types found in an index for a type of this shape.
FoundIn(ctx, index, shape) ==
  {i \in index : Shape(ctx.tt, i.ty) = shape /\ (i.shape = shape \/ ctx.lucky)}

\* One of them: an element that lies where it does not belong, if there is one.
FirstOf(found, shape) ==
  LET misplaced == {i \in found : i.shape # shape}
      some == IF misplaced # {} THEN misplaced ELSE found
  IN  (CHOOSE i \in some : \A j \in some : i.ty <= j.ty).ty

\* hashset_type_ref_insert replaces the element that it finds.
InsertIndex(ctx, index, t) ==
  LET shape == Shape(ctx.tt, t)
      found == FoundIn(ctx, index, shape)
  IN  (IF found = {} THEN index
       ELSE {i \in index : i.ty # FirstOf(found, shape)}) \cup {Indexed(ctx.tt, t)}

\* hir_ctx_type_register: the equal type that is there, or the new one.
Register(ctx, type) ==
  LET tt    == Emplace(ctx.tt, type)
      shape == Shape(tt, Len(tt))
      found == FoundIn(ctx, ctx.registered_types, shape)
  IN  IF found # {} THEN [ctx |-> ctx, ty |-> FirstOf(found, shape)]
      ELSE [ctx |-> [ctx EXCEPT !.tt = tt, !.registered_types = @ \cup {Indexed(tt, Len(tt))}],
            ty  |-> Len(tt)]

\* hir_filter_templated_hir_classes: every class is a template, also one without
\* typenames, which is a class alone.
FilterTemplated(hir, tt) == SelectSeq(hir.classes, LAMBDA class : ~IsFull(tt, class.ty))

\* hir_get_mono_full_class_types: every class type without typenames is to be made.
MonoFull(tt) == SelectSeq([t \in DOMAIN tt |-> t], LAMBDA t : tt[t].kind = "mono" /\ IsFull(tt, t))

\* hir_setup_ctx
SetupExpansion(hir, tt) ==
  LET empty == [tt |-> tt, registered_types |-> {}, insted_types |-> {}, map_type_tmpl |-> <<>>,
                templates |-> FilterTemplated(hir, tt), classes |-> <<>>, exceptions |-> {},
                lucky |-> FALSE, instto_types |-> MonoFull(tt)]
  IN  FoldLeft(LAMBDA ctx, t : [ctx EXCEPT !.registered_types = InsertIndex(ctx, @, t)],
               empty, [t \in DOMAIN tt |-> t])

-------------------------------------------------------------------------------
\* hir_expand_type, in ctx.map_type_tmpl for the typenames.

RECURSIVE ExpandType(_, _)
ExpandTypes(ctx, ts) ==
  FoldLeft(LAMBDA r, t : LET x == ExpandType(r.ctx, t)
                         IN  [ctx |-> x.ctx, types |-> Append(r.types, x.ty)],
           [ctx |-> ctx, types |-> <<>>], ts)

ExpandType(ctx, t) ==
  LET type == ctx.tt[t]
      Same(c) == [ctx |-> c, ty |-> t]
      Array(elem) == IF elem.ty = type.element_ref THEN Same(elem.ctx)
                     ELSE Register(elem.ctx, ArrayOf(elem.ty))
      Function(ret) ==
        LET params == ExpandTypes(ret.ctx, type.params)
        IN  IF ret.ty = type.ret_ref /\ params.types = type.params THEN Same(params.ctx)
            ELSE Register(params.ctx, Callable(ret.ty, params.types))
      Class(parents) == IF parents.types = type.parents THEN Same(parents.ctx)
                        ELSE Register(parents.ctx, ClassT(type.id, type.typenames, parents.types))
      \* a class and its instance are never the same type: there is always a change
      Instance(class) ==
        LET types == ExpandTypes(class.ctx, type.types)
            new   == Register(types.ctx, Mono(class.ty, types.types))
        IN  [new EXCEPT !.ctx.instto_types = Append(@, new.ty)]
  IN  CASE IsFull(ctx.tt, t)      -> Same(ctx)
        [] ~IsFull(ctx.tt, t) /\ type.kind = "array"    -> Array(ExpandType(ctx, type.element_ref))
        [] ~IsFull(ctx.tt, t) /\ type.kind = "callable" -> Function(ExpandType(ctx, type.ret_ref))
        [] ~IsFull(ctx.tt, t) /\ type.kind = "class_t"  -> Class(ExpandTypes(ctx, type.parents))
        [] ~IsFull(ctx.tt, t) /\ type.kind = "typename" ->
             IF t \in DOMAIN ctx.map_type_tmpl THEN [ctx |-> ctx, ty |-> ctx.map_type_tmpl[t]]
                                               ELSE Same(ctx)
        [] ~IsFull(ctx.tt, t) /\ type.kind = "mono"     -> Instance(ExpandType(ctx, type.type_ref))

\* hir_expand_templates_var, _param, _expr
WithType(named, x) == [ctx |-> x.ctx, out |-> [named EXCEPT !.ty = x.ty]]
ExpandVar(ctx, var) == WithType(var, ExpandType(ctx, var.ty))
ExpandVars(ctx, vars) == Each(ExpandVar, ctx, vars)

\* hir_expand_templates_subroutine: the type after the parameters and the body.
ExpandParams(r)    == WithParams(r, ExpandVars(r.ctx, r.out.params))
ExpandBodyVars(r)  == WithVars(r, ExpandVars(r.ctx, r.out.body.vars))
ExpandBodyExprs(r) == WithExprs(r, ExpandVars(r.ctx, r.out.body.exprs))
ExpandSubType(r)   == ExpandVar(r.ctx, r.out)
ExpandSubroutine(ctx, sub) ==
  ExpandSubType(ExpandBodyExprs(ExpandBodyVars(ExpandParams([ctx |-> ctx, out |-> sub]))))

\* hir_expand_templates_class: the class of the instance changes with its parents.
ClassMade(mono, fields, methods) ==
  [ctx |-> methods.ctx, out |-> [ty |-> mono, fields |-> fields, methods |-> methods.out]]
ExpandMethods(mono, class_t, fields) ==
  ClassMade(mono, fields.out, Each(ExpandSubroutine, fields.ctx, class_t.methods))
ExpandFields(mono, class_t, class) ==
  ExpandMethods(mono, class_t, ExpandVars([class.ctx EXCEPT !.tt[mono].type_ref = class.ty],
                                          class_t.fields))
Replacing(ctx, typenames, to) ==
  [ctx EXCEPT !.map_type_tmpl =
     [t \in ToSet(typenames) |-> to[CHOOSE i \in DOMAIN to : typenames[i] = t]]]
ExpandClass(ctx, mono, class_t) ==
  ExpandFields(mono, class_t, ExpandType(Replacing(ctx, ctx.tt[class_t.ty].typenames, ctx.tt[mono].types),
                                         class_t.ty))

\* hir_expand_templates_all: one type that is to be made.
MadeAgain(ctx, mono) == FALSE
AlreadyMade(ctx, mono) == FoundIn(ctx, ctx.insted_types, Shape(ctx.tt, mono)) # {}

Enter(mono, made) ==
  [made.ctx EXCEPT !.insted_types = InsertIndex(made.ctx, @, mono),
                   !.classes = Append(@, made.out)]
Expand(ctx, mono) ==
  LET templates == {class_t \in ToSet(ctx.templates) : class_t.ty = ctx.tt[mono].type_ref}
  IN  IF AlreadyMade(ctx, mono) THEN ctx
      ELSE IF templates = {} THEN [ctx EXCEPT !.exceptions = @ \cup {"template expansion"}]
      ELSE Enter(mono, ExpandClass(ctx, mono, CHOOSE class_t \in templates : TRUE))
=============================================================================
