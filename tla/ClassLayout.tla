----------------------------- MODULE ClassLayout -----------------------------
(***************************************************************************)
(* mir_build/lower_hir.c, the classes: an instance has the fields and the  *)
(* methods of its parents and its own.                                     *)
(*                                                                         *)
(* mir is the part of mir_ctx about classes: the classes of the program by *)
(* type, those laid out by type, and the kinds of the errors.  A name is   *)
(* that of a symbol; a method is the symbol of its subroutine.             *)
(***************************************************************************)
EXTENDS TypeTable

MirError(mir) == [mir EXCEPT !.exceptions = @ \cup {"symbol name collision"}]

Has(fields, name) == \E i \in DOMAIN fields : fields[i].name = name

\* A field of a parent or an own one: a name has one field.
AddField(r, field) ==
  IF Has(r.fields, field.name) THEN [r EXCEPT !.mir = MirError(@)]
  ELSE [r EXCEPT !.fields = Append(@, [name |-> field.name, ty |-> field.ty])]

\* A method of a parent: the name must be new.
AddInherited(r, method) ==
  IF Has(r.fields, method.name) \/ method.name \in DOMAIN r.methods
  THEN [r EXCEPT !.mir = MirError(@)]
  ELSE [r EXCEPT !.methods = (method.name :> method.id) @@ @]

\* An own method: a parent's method of the same name is overridden, a field is not.
AddUnlessInherited(r, method) ==
  IF Has(r.fields, method.name) THEN [r EXCEPT !.mir = MirError(@)]
  ELSE [r EXCEPT !.methods = @ @@ (method.name :> method.id)]
AddMethod(r, method) ==
  IF Has(r.fields, method.name) THEN [r EXCEPT !.mir = MirError(@)]
  ELSE [r EXCEPT !.methods = (method.name :> method.id) @@ @]

\* mir_define_class: once for a type, its parents first; a type without a class
\* of the program is left out.
RECURSIVE DefineClass(_, _)
DefineClass(mir, ty) ==
  LET parents == mir.tt[mir.tt[ty].type_ref].parents
      class   == mir.hir[ty]
      Fields(r, parent) ==
        LET m == DefineClass(r.mir, parent)
        IN  IF parent \notin DOMAIN m.classes THEN [r EXCEPT !.mir = m]
            ELSE FoldLeft(AddField, [r EXCEPT !.mir = m], m.classes[parent].fields)
      Methods(r, parent) ==
        IF parent \notin DOMAIN r.mir.classes THEN r
        ELSE LET methods == r.mir.classes[parent].methods
             IN  FoldLeft(AddInherited, r,
                          SetToSeq({[name |-> n, id |-> methods[n]] : n \in DOMAIN methods}))
      inherited == FoldLeft(Fields, [mir |-> mir, fields |-> <<>>, methods |-> <<>>], parents)
      fields    == FoldLeft(AddField, inherited, class.fields)
      all       == FoldLeft(AddMethod, FoldLeft(Methods, fields, parents), class.methods)
  IN  IF ty \in DOMAIN mir.classes \/ ty \notin DOMAIN mir.hir THEN mir
      ELSE [all.mir EXCEPT !.classes = (ty :> [fields |-> all.fields, methods |-> all.methods]) @@ @]

\* mir_ctx_setup
SetupMir(hir, tt) ==
  [tt |-> tt, classes |-> <<>>, exceptions |-> {},
   hir |-> [ty \in {c.ty : c \in ToSet(hir.classes)} |->
              hir.classes[CHOOSE i \in DOMAIN hir.classes :
                            /\ hir.classes[i].ty = ty
                            /\ \A j \in DOMAIN hir.classes : hir.classes[j].ty = ty => j <= i]]]

\* mir_lower_classes
LowerClass(mir, class) == DefineClass(mir, class.ty)
=============================================================================
