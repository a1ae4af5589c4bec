------------------------------- MODULE Binding -------------------------------
(***************************************************************************)
(* hir_build/bind_types.c: the types that a program writes are looked up   *)
(* in scopes and entered in the type table; hir_build/bind_symbols.c:      *)
(* names become symbols of the symbol table.                               *)
(*                                                                         *)
(* ctx is hir_ctx: scopes with the innermost first, the table, the kinds   *)
(* of the errors, and whether a pointer to nothing was followed.  A scope  *)
(* maps keys to types.  A type of the source (hir_type) that is left out   *)
(* is any.                                                                 *)
(***************************************************************************)
EXTENDS TypeTable

Builtins == <<"bool", "byte", "int", "uint", "long", "ulong", "char", "string", "void", "any">>

\* hir_type; equal when hir_type_cmp says so.
Base(type)              == [type |-> type]
Custom(name, templates) == [type |-> "custom", name |-> name, templates |-> templates]
Array(elem)             == [type |-> "array", elem_type |-> elem]

AnyType == Base("any")

Usage(hir_type)         == <<"usage", hir_type>>
Declaration(name, size) == <<"declaration", name, size>>

NoType   == 0
NoSymbol == 0

Error(ctx, kind) == [ctx EXCEPT !.exceptions = @ \cup {kind}]

PushScope(ctx) == [ctx EXCEPT !.scopes = <<<<>>>> \o @]
PopScope(ctx)  == [ctx EXCEPT !.scopes = Tail(@)]

InsertInto(ctx, at, key, t) == [ctx EXCEPT !.scopes[at] = (key :> t) @@ @]

\* The innermost scope that has the key, 0 if none has.
FindScope(ctx, key) ==
  LET with == {i \in DOMAIN ctx.scopes : key \in DOMAIN ctx.scopes[i]}
  IN  IF with = {} THEN 0 ELSE CHOOSE i \in with : \A j \in with : i <= j

Emplaced(ctx, type) == [ctx EXCEPT !.tt = Emplace(@, type)]

\* Inner scopes come first.
DeeperAny(i, j) == j
Deeper(i, j) == IF i < j THEN i ELSE j

\* hir_ctx_scopes_resolve: the type, NoType if there is none, and the scope it was
\* found in or entered in, which is the deepest that it needs.
RECURSIVE Resolve(_, _)
Resolve(ctx, base) ==
  LET at == FindScope(ctx, Usage(base))
      Entered(c, type, scope) ==
        [ctx |-> InsertInto(Emplaced(c, type), scope, Usage(base), Len(c.tt) + 1),
         ty |-> Len(c.tt) + 1, at |-> scope]
      Failed(c) == [ctx |-> c, ty |-> NoType, at |-> 0]
  IN  CASE at # 0 -> [ctx |-> ctx, ty |-> ctx.scopes[at][Usage(base)], at |-> at]
        [] at = 0 /\ base.type = "custom" ->
             LET decl == FindScope(ctx, Declaration(base.name, Len(base.templates)))
                 Argument(r, hir_type) ==
                   LET sub == Resolve(r.ctx, hir_type)
                   IN  IF ~r.ok \/ sub.ty = NoType THEN [r EXCEPT !.ok = FALSE]
                       ELSE [ctx |-> sub.ctx, types |-> Append(r.types, sub.ty),
                             at |-> Deeper(sub.at, r.at), ok |-> TRUE]
                 args == FoldLeft(Argument, [ctx |-> ctx, types |-> <<>>, at |-> decl, ok |-> TRUE],
                                  base.templates)
             IN  IF decl = 0 THEN Failed(ctx)
                 ELSE IF ~args.ok THEN Failed(args.ctx)
                 ELSE Entered(args.ctx,
                              Mono(ctx.scopes[decl][Declaration(base.name, Len(base.templates))],
                                   args.types), args.at)
        [] at = 0 /\ base.type = "array" ->
             LET elem == Resolve(ctx, base.elem_type)
             IN  IF elem.ty = NoType THEN Failed(elem.ctx)
                                     ELSE Entered(elem.ctx, ArrayOf(elem.ty), elem.at)
        [] OTHER -> Failed(ctx)

\* hir_bind_builtin
BindBuiltin(ctx) ==
  FoldLeft(LAMBDA c, name : InsertInto(Emplaced(c, Primitive(name)), Len(c.scopes),
                                       Usage(Base(name)), Len(c.tt) + 1),
           ctx, Builtins)

-------------------------------------------------------------------------------
\* Names with types: fields, parameters and variables, and the expressions of a
\* body, whose name is that of an identifier or empty.  A name has no symbol yet.

Bound(named, t) == [ty |-> t, id |-> NoSymbol] @@ named

FoundType(found) ==
  IF found.ty = NoType THEN Error(found.ctx, "type unresolved") ELSE found.ctx

BindFound(named, found) == [ctx |-> FoundType(found), out |-> Bound(named, found.ty)]
BindOne(ctx, var) == BindFound(var, Resolve(ctx, var.type))

BindVars(ctx, vars) == Each(BindOne, ctx, vars)

\* hir_bind_expr of the expressions of a body, in their order.
BindExprs(ctx, exprs) == Each(BindOne, ctx, exprs)

\* hir_bind_subroutine_signature; it ends at a type that is not found.
ParamFound(r, param, found) ==
  IF found.ty = NoType THEN [r EXCEPT !.ctx = FoundType(found), !.ok = FALSE]
  ELSE [r EXCEPT !.ctx = found.ctx, !.out = Append(@, Bound(param, found.ty))]
BindParam(r, param) == IF ~r.ok THEN r ELSE ParamFound(r, param, Resolve(r.ctx, param.type))

Signed(sub, ret, r) ==
  LET types == [i \in DOMAIN r.out |-> r.out[i].ty]
      ty    == IF r.ok THEN Len(r.ctx.tt) + 1 ELSE NoType
  IN  [ctx |-> IF r.ok THEN Emplaced(r.ctx, Callable(ret, types)) ELSE r.ctx,
       out |-> [Bound(sub, ty) EXCEPT !.params = r.out]]

SignParams(sub, ret) ==
  Signed(sub, ret.ty, FoldLeft(BindParam, [ctx |-> FoundType(ret), out |-> <<>>, ok |-> ret.ty # NoType],
                               sub.params))
BindSignature(ctx, sub) == SignParams(sub, Resolve(ctx, sub.ret))

\* hir_bind_subroutine_body: literals, as those of an import, have builtin types,
\* which are always found.
BindBodyExprs(r) == WithExprs(r, BindExprs(r.ctx, r.out.body.exprs))
BindBody(r) ==
  IF r.out.body.kind = "block" THEN BindBodyExprs(WithVars(r, BindVars(r.ctx, r.out.body.vars))) ELSE r

BindSubroutine(ctx, sub) == BindBody(BindSignature(ctx, sub))

-------------------------------------------------------------------------------
\* Classes.  The first pass enters names, so that classes may use each other.

\* hir_bind_class_id
BindClassId(ctx, class) ==
  LET key == Declaration(class.id, Len(class.typenames))
  IN  IF FindScope(ctx, key) # 0
      THEN [ctx |-> Error(ctx, "type redefinition"), out |-> NoType]
      ELSE [ctx |-> InsertInto(Emplaced(ctx, ClassT(class.id, <<>>, <<>>)), 1, key,
                               Len(ctx.tt) + 1),
            out |-> Len(ctx.tt) + 1]

\* hir_bind_class_typenames; it ends at a name that is taken.
BindTypename(r, id) ==
  LET key == Usage(Custom(id, <<>>))
      new == Len(r.ctx.tt) + 1
      c   == InsertInto(Emplaced(r.ctx, Typename(id, r.class)), 1, key, new)
  IN  IF ~r.ok THEN r
      ELSE IF FindScope(r.ctx, key) # 0
           THEN [r EXCEPT !.ctx = Error(@, "type redefinition"), !.ok = FALSE]
           ELSE [r EXCEPT !.ctx = [c EXCEPT !.tt[r.class].typenames = Append(@, new)]]

BindTypenames(ctx, class, t) ==
  FoldLeft(BindTypename, [ctx |-> ctx, class |-> t, ok |-> TRUE], class.typenames).ctx

\* The first pass over one class.
ClassDeclared(class, named) ==
  IF named.out = NoType THEN named
  ELSE [named EXCEPT !.ctx = PopScope(BindTypenames(PushScope(@), class, named.out))]
BindClassName(ctx, class) == ClassDeclared(class, BindClassId(ctx, class))

\* hir_bind_class_parents; it ends at the first that cannot be a parent.
ParentFound(r, found) ==
  IF found.ty = NoType THEN [r EXCEPT !.ctx = FoundType(found), !.ok = FALSE]
  ELSE IF found.ctx.tt[found.ty].kind \notin {"class_t", "mono"}
       THEN [r EXCEPT !.ctx = Error(found.ctx, "type unexpected"), !.ok = FALSE]
  ELSE [r EXCEPT !.ctx = [found.ctx EXCEPT !.tt[r.class].parents = Append(@, found.ty)]]
BindParent(r, hir_type) ==
  IF ~r.ok THEN r
  ELSE IF hir_type.type # "custom"
       THEN [r EXCEPT !.ctx = Error(@, "type unexpected"), !.ok = FALSE]
  ELSE ParentFound(r, Resolve(r.ctx, hir_type))

BindParents(ctx, class, t) ==
  FoldLeft(BindParent, [ctx |-> ctx, class |-> t, ok |-> TRUE], class.parents).ctx

\* hir_bind_class_methods: the type of this first, then as any subroutine.  Here a
\* type that is not found is not expected.
ThisFound(this) ==
  IF this.ty = NoType THEN [this.ctx EXCEPT !.crashed = TRUE] ELSE this.ctx
BindMethod(ctx, method) ==
  BindSubroutine(ThisFound(Resolve(ctx, method.params[1].type)), method)

BindMethods(ctx, methods) == Each(BindMethod, ctx, methods)

\* The second pass over one class: its typenames are in scope again.
InClass(ctx, t) ==
  FoldLeft(LAMBDA c, typename : InsertInto(c, 1, Usage(Custom(c.tt[typename].id, <<>>)), typename),
           PushScope(ctx), ctx.tt[t].typenames)

BoundClass(t, fields, methods) ==
  [ctx |-> PopScope(methods.ctx), out |-> [ty |-> t, fields |-> fields, methods |-> methods.out]]
BindMembers(class, t, fields) == BoundClass(t, fields.out, BindMethods(fields.ctx, class.methods))
BindClass(ctx, class, t) ==
  BindMembers(class, t, BindVars(BindParents(InClass(ctx, t), class, t), class.fields))

\* hir_bind_types: all names of classes come before any use of one.
BoundTypes(classes, subs) ==
  [hir |-> [classes |-> classes, subs |-> subs.out],
   tt |-> subs.ctx.tt, exceptions |-> subs.ctx.exceptions, crashed |-> subs.ctx.crashed]
BindAllSubs(hir, classes) == BoundTypes(classes.out, Each(BindSubroutine, classes.ctx, hir.subs))
BindClasses(hir, named) ==
  BindAllSubs(hir, Each(LAMBDA ctx, i : BindClass(ctx, hir.classes[i], named.out[i]), named.ctx,
                     SelectSeq([i \in DOMAIN named.out |-> i], LAMBDA i : named.out[i] # NoType)))
HirBindTypes(hir) ==
  BindClasses(hir, Each(BindClassName,
                        BindBuiltin([scopes |-> <<<<>>>>, tt |-> <<>>, exceptions |-> {},
                                     crashed |-> FALSE]),
                        hir.classes))

-----------------------------------------------------------------------------
\* bind_symbols.c.  Here ctx has scopes of names, the table of symbols, the kinds of the
\* errors, and whether an error was about a name without a place in a file, which is the
\* parameter this.

SymbolError(ctx, kind) == [ctx EXCEPT !.exceptions = @ \cup {kind}]

PushNames(ctx) == [ctx EXCEPT !.scopes = <<<<>>>> \o @]
KeepNames(ctx) == ctx
PopNames(ctx)  == [ctx EXCEPT !.scopes = Tail(@)]

InsertName(ctx, name, symbol) == [ctx EXCEPT !.scopes[1] = (name :> symbol) @@ @]

\* hir_ctx_scopes_find: the symbol in the innermost scope that has the name.
FindName(ctx, name) ==
  LET with == {i \in DOMAIN ctx.scopes : name \in DOMAIN ctx.scopes[i]}
  IN  IF with = {} THEN NoSymbol
      ELSE ctx.scopes[CHOOSE i \in with : \A j \in with : i <= j][name]

\* hir_bind_var, hir_bind_param: a name that any scope has is not bound again.  The
\* message says where both names are.
BindName(ctx, named) ==
  LET found == FindName(ctx, named.name)
      entry == [name |-> named.name, ty |-> named.ty, span |-> named.span]
      new   == Len(ctx.table) + 1
  IN  IF found # NoSymbol
      THEN [ctx |-> [SymbolError(ctx, "symbol redefinition") EXCEPT
                       !.crashed = @ \/ ~named.span \/ ~ctx.table[found].span],
            out |-> [named EXCEPT !.id = NoSymbol]]
      ELSE [ctx |-> InsertName([ctx EXCEPT !.table = Append(@, entry)], named.name, new),
            out |-> [named EXCEPT !.id = new]]

\* The variables or parameters of a list, in its order.
BindNames(ctx, names) == Each(BindName, ctx, names)

Leave(r) == [r EXCEPT !.ctx = PopNames(@)]

\* hir_bind_subroutine_signature: the parameters are in a scope of their own.
SignatureNames(named) ==
  IF named.out.id = NoSymbol THEN named
  ELSE Leave(WithParams(named, BindNames(PushNames(named.ctx), named.out.params)))
BindSubSignature(ctx, sub) == SignatureNames(BindName(ctx, sub))

\* hir_bind_subroutine_body_expr of an identifier.
BindIdentifier(ctx, expr) ==
  LET found == FindName(ctx, expr.name)
  IN  IF expr.name = "" THEN [ctx |-> ctx, out |-> [expr EXCEPT !.id = NoSymbol]]
      ELSE [ctx |-> IF found = NoSymbol THEN SymbolError(ctx, "symbol undefined") ELSE ctx,
            out |-> [expr EXCEPT !.id = found]]

\* hir_bind_subroutine_body: the parameters that were bound are in scope again.
AgainInScope(ctx, params) ==
  FoldLeft(LAMBDA c, param : IF param.id = NoSymbol THEN c ELSE InsertName(c, param.name, param.id),
           PushNames(ctx), params)

BodyVars(r)  == WithVars(r, BindNames(r.ctx, r.out.body.vars))
BodyExprs(r) == WithExprs(r, Each(BindIdentifier, r.ctx, r.out.body.exprs))
BindSubBody(ctx, sub) ==
  IF sub.body.kind # "block" THEN [ctx |-> ctx, out |-> sub]
  ELSE Leave(BodyExprs(BodyVars([ctx |-> AgainInScope(ctx, sub.params), out |-> sub])))

\* All signatures, then all bodies.
BindBodies(signed) == Each(BindSubBody, signed.ctx, signed.out)
BindSubs(ctx, subs) == BindBodies(Each(BindSubSignature, ctx, subs))

\* hir_bind_class: fields are only reached through an object, so their names are
\* in a scope that ends with them.
WithMethods(class, methods) == [ctx |-> methods.ctx, out |-> [class EXCEPT !.methods = methods.out]]
ClassMethods(class, fields) ==
  WithMethods([class EXCEPT !.fields = fields.out], BindSubs(PopNames(fields.ctx), class.methods))
BindClassSymbols(ctx, class) ==
  Leave(ClassMethods(class, BindNames(PushNames(PushNames(ctx)), class.fields)))

\* hir_bind_symbols
BoundSymbols(subs, classes) ==
  [hir |-> [classes |-> classes.out, subs |-> subs],
   symbols |-> classes.ctx.table, exceptions |-> classes.ctx.exceptions,
   crashed |-> classes.ctx.crashed]
BindAllClasses(hir, subs) == BoundSymbols(subs.out, Each(BindClassSymbols, subs.ctx, hir.classes))
HirBindSymbols(hir) ==
  BindAllClasses(hir, BindSubs([scopes |-> <<<<>>>>, table |-> <<>>, exceptions |-> {},
                                crashed |-> FALSE], hir.subs))
=============================================================================
