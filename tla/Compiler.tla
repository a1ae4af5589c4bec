------------------------------ MODULE Compiler -------------------------------
(***************************************************************************)
(* compiler/main.c and hir_build.c: the files of a command line become     *)
(* assembly code, stage by stage.  A stage runs only if none before it had *)
(* errors; --ignore-errors, the dumps and the dot files are left out.      *)
(*                                                                         *)
(* What only expressions and statements decide, which modules MirBuild and *)
(* Codegen are about, is a choice here: whether lowering a body or         *)
(* generating code finds an error.                                         *)
(***************************************************************************)
EXTENDS Binding, ExpandTemplates, ClassLayout

CONSTANTS MaxLong, MaxUlong    \* the largest literals of type long and ulong

-------------------------------------------------------------------------------
\* hir_build/lower_ast.c and lower_ast_funcs.c: the trees of the files become one
\* program.  A file has found and parses, and the classes and subroutines written in it;
\* a name of the program is a string.

This == "this"

\* hir_build_hex, hir_build_bits, hir_build_dec: the type of a number, none if it
\* fits no type.
LiteralType(value) == CASE value <= MaxLong -> "long"
                        [] value > MaxLong /\ value <= MaxUlong -> "ulong"
                        [] OTHER -> "none"

\* hir_build_type_array: a comma is one more dimension.
BuildTypeArray(elem, commas) ==
  FoldLeft(LAMBDA type, i : Array(type), Array(elem), [i \in 1 .. commas |-> i])

\* A name with its place in a file.
Spanned(named) == [span |-> TRUE] @@ named

\* hir_build_var_entry: one variable for each name.
BuildVarEntry(entry) ==
  [i \in DOMAIN entry.names |-> Spanned([name |-> entry.names[i], type |-> entry.type])]

BuildVars(entries) == FlattenSeq([i \in DOMAIN entries |-> BuildVarEntry(entries[i])])

\* hir_build_signature, hir_build_func
BuildFunc(sub) ==
  [Spanned(sub) EXCEPT !.params = [i \in DOMAIN @ |-> Spanned(@[i])], !.body.vars = BuildVars(@)]

\* hir_build_method: the first parameter is the object, of the class's type, with no
\* place in the file.
BuildMethod(class, method) ==
  LET typenames == [i \in DOMAIN class.typenames |-> Custom(class.typenames[i], <<>>)]
      this == [name |-> This, type |-> Custom(class.id, typenames), span |-> FALSE]
  IN  [BuildFunc(method) EXCEPT !.params = <<this>> \o @]

BuildClass(class) ==
  [class EXCEPT !.fields = BuildVars(@),
                !.methods = [i \in DOMAIN @ |-> BuildMethod(class, @[i])]]

\* hir_lower_ast: the items of the files in their order.
HirLowerAst(asts) ==
  [classes |-> FlattenSeq([i \in DOMAIN asts |->
                             [j \in DOMAIN asts[i].classes |-> BuildClass(asts[i].classes[j])]]),
   subs    |-> FlattenSeq([i \in DOMAIN asts |->
                             [j \in DOMAIN asts[i].subs |-> BuildFunc(asts[i].subs[j])]])]

\* hir_build_expr_lit follows the literal that hir_build_dec could not make.
LiteralLost(asts) ==
  LET Exprs(sub) == ToSet(sub.body.exprs)
      Subs(ast) == ToSet(ast.subs) \cup UNION {ToSet(c.methods) : c \in ToSet(ast.classes)}
  IN  \E ast \in ToSet(asts) : \E sub \in Subs(ast) : \E e \in Exprs(sub) :
        LiteralType(e.literal) = "none"

-------------------------------------------------------------------------------
CONSTANTS Limit,       \* what ends hir_expand_templates_all; 100 in the code
          Sources      \* the command lines: sequences of files

VARIABLES stage,       \* what is next; "done" and "crashed" are the ends
          code,        \* args.code
          files,       \* the files of the command line that were found
          asts,
          hir, tt,     \* the program and its types
          ctx,         \* hir_ctx of expand_templates.c
          popped,      \* i of hir_expand_templates_all
          mir,         \* the classes of mir_ctx
          exceptions,  \* the kinds of the errors reported
          written      \* is the assembly file written?

vars == <<stage, code, files, asts, hir, tt, ctx, popped, mir, exceptions, written>>

Init == /\ files \in Sources
        /\ stage = "parse" /\ code = 0 /\ asts = <<>>
        /\ hir = [classes |-> <<>>, subs |-> <<>>] /\ tt = <<>>
        /\ ctx = SetupExpansion(hir, tt) /\ popped = 0
        /\ mir = SetupMir(hir, tt)
        /\ exceptions = {} /\ written = FALSE

\* The end of a stage: it goes on if there are no errors.
Reported(kinds, next) ==
  /\ exceptions' = exceptions \cup kinds
  /\ code' = IF kinds = {} THEN code ELSE 1
  /\ stage' = IF kinds = {} THEN next ELSE "done"

Crash == stage' = "crashed" /\ UNCHANGED <<code, exceptions>>

\* parse, main: a file that is not found is reported as an error and left out; neither
\* the code nor what follows knows.
Parse ==
  /\ stage = "parse"
  /\ exceptions' = {"not found" : file \in {f \in ToSet(files) : ~f.found}}
  /\ files' = SelectSeq(files, LAMBDA file : file.found)
  /\ IF files' = <<>> THEN code' = -1 /\ stage' = "done"
                      ELSE stage' = "ast" /\ UNCHANGED code
  /\ UNCHANGED <<asts, hir, tt, ctx, popped, mir, written>>

\* execute: one file is read; an error in it does not keep the next from being read.
AstBuildLast ==
  /\ stage = "ast" /\ Len(asts) < Len(files)
  /\ LET file == files[Len(asts) + 1]
     IN  /\ asts' = Append(asts, file)
         /\ code' = IF file.parses THEN 0 ELSE 1
         /\ exceptions' = IF file.parses THEN exceptions ELSE exceptions \cup {"syntax"}
  /\ UNCHANGED <<stage, files, hir, tt, ctx, popped, mir, written>>
AstBuild ==
  /\ stage = "ast" /\ Len(asts) < Len(files)
  /\ LET file == files[Len(asts) + 1]
     IN  /\ asts' = Append(asts, file)
         /\ code' = IF file.parses THEN code ELSE 1
         /\ exceptions' = IF file.parses THEN exceptions ELSE exceptions \cup {"syntax"}
  /\ UNCHANGED <<stage, files, hir, tt, ctx, popped, mir, written>>

LowerAst ==
  /\ stage = "ast" /\ Len(asts) = Len(files)
  /\ CASE code # 0 -> stage' = "done" /\ UNCHANGED <<code, exceptions, hir>>
       [] code = 0 /\ LiteralLost(asts) -> Crash /\ UNCHANGED hir
       [] OTHER -> hir' = HirLowerAst(asts) /\ Reported({}, "types")
  /\ UNCHANGED <<files, asts, tt, ctx, popped, mir, written>>

BindAllTypes ==
  /\ stage = "types"
  /\ \E result \in {HirBindTypes(hir)} :
       IF result.crashed THEN Crash /\ UNCHANGED <<hir, tt>>
       ELSE /\ hir' = result.hir
            /\ tt' = result.tt
            /\ Reported(result.exceptions, "templates")
  /\ UNCHANGED <<files, asts, ctx, popped, mir, written>>

\* hir_expand_templates up to the loop: the table is hashed.
FindTemplates ==
  /\ stage = "templates"
  /\ IF HashOverflows(tt) THEN Crash /\ UNCHANGED ctx
     ELSE ctx' = SetupExpansion(hir, tt) /\ Reported({}, "expand")
  /\ UNCHANGED <<files, asts, hir, tt, popped, mir, written>>

PopInstto(c) == [c EXCEPT !.instto_types = Tail(@)]

\* One turn of the loop of hir_expand_templates_all.
ExpandNext ==
  /\ stage = "expand" /\ ctx.instto_types # <<>> /\ popped + 1 # Limit
  /\ \E lucky \in BOOLEAN :
       ctx' = [Expand([PopInstto(ctx) EXCEPT !.lucky = lucky], Head(ctx.instto_types))
                 EXCEPT !.lucky = FALSE]
  /\ popped' = popped + 1
  /\ UNCHANGED <<stage, code, files, asts, hir, tt, mir, exceptions, written>>

\* Its end: nothing is left, or the limit, at which one more type is taken and dropped.
ExpandEnd ==
  /\ stage = "expand"
  /\ \/ ctx.instto_types = <<>> /\ UNCHANGED <<ctx, popped>>
     \/ ctx.instto_types # <<>> /\ popped + 1 = Limit /\ ctx' = PopInstto(ctx) /\ popped' = Limit
  /\ hir' = [hir EXCEPT !.classes = ctx.classes]
  /\ tt' = ctx.tt
  /\ Reported(ctx.exceptions, "symbols")
  /\ UNCHANGED <<files, asts, mir, written>>

BindAllSymbols ==
  /\ stage = "symbols"
  /\ \E result \in {HirBindSymbols(hir)} :
       IF result.crashed THEN Crash /\ UNCHANGED <<hir, mir>>
       ELSE /\ hir' = result.hir
            /\ mir' = SetupMir(result.hir, tt)
            /\ Reported(result.exceptions, "classes")
  /\ UNCHANGED <<files, asts, tt, ctx, popped, written>>

\* mir_lower_classes: the next class that is not laid out yet.
LowerNext ==
  LET waiting == SelectSeq(hir.classes, LAMBDA class : class.ty \notin DOMAIN mir.classes)
  IN  /\ stage = "classes"
      /\ IF waiting # <<>>
         THEN mir' = LowerClass(mir, Head(waiting)) /\ UNCHANGED <<stage, code, exceptions>>
         ELSE /\ \E bodies \in SUBSET {"statement"} : Reported(mir.exceptions \cup bodies, "asm")
              /\ UNCHANGED mir
      /\ UNCHANGED <<files, asts, hir, tt, ctx, popped, written>>

\* cg_x86_64_build, cg_x86_64_emit: the file is only written without errors.
Emit ==
  /\ stage = "asm"
  /\ \E generating \in SUBSET {"code generation"} :
       /\ written' = (generating = {})
       /\ Reported(generating, "done")
  /\ UNCHANGED <<files, asts, hir, tt, ctx, popped, mir>>

Next == Parse \/ AstBuild \/ LowerAst \/ BindAllTypes \/ FindTemplates \/ ExpandNext
        \/ ExpandEnd \/ BindAllSymbols \/ LowerNext \/ Emit

Spec == Init /\ [][Next]_vars /\ WF_vars(Next)
=============================================================================
