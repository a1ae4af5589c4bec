------------------------------ MODULE DebugInfo ------------------------------
(***************************************************************************)
(* Debug information: what the compiler writes into three sections of an   *)
(* executable (codegen/x86_64_build/debug_emit), and what the debugger     *)
(* reads there (debugger/ctx/ctx_debug.c).  A section is a sequence of     *)
(* words of 8 bytes, that of strings a count and the strings.              *)
(***************************************************************************)
EXTENDS Codegen

\* Labels are resolved by assembler and linker: an address is the position in the text
\* of the instruction that follows.
IsLabel(instr) == instr[1] = "label"
AddressOf(text, label) ==
  LET at == CHOOSE i \in DOMAIN text : IsLabel(text[i]) /\ text[i][2] = label
      behind == {i \in at..Len(text) : ~IsLabel(text[i])}
  IN  IF behind = {} THEN Len(text) + 1 ELSE CHOOSE i \in behind : \A j \in behind : i <= j

-------------------------------------------------------------------------------
\* cg_debug_emit: files and strs have names in the order in which they first occur.

Entered(names, name) == IF name \in ToSet(names) THEN names ELSE Append(names, name)
Idx(names, name)     == (CHOOSE i \in DOMAIN names : names[i] = name) - 1

EmitLine(e, l) ==
  LET files == Entered(e.files, l.file)
  IN  [e EXCEPT !.files = files,
                !.strs = Entered(@, l.file),
                !.line = @ \o <<AddressOf(e.text, l.label), Idx(files, l.file), l.line>>]

EmitValue(e, v) ==
  LET strs == Entered(e.strs, v.name)
  IN  [e EXCEPT !.strs = strs, !.info = @ \o <<v.offset, Idx(strs, v.name)>>]
EmitSub(e, s) ==
  LET strs == Entered(e.strs, s.name)
  IN  Through(EmitValue,
              [e EXCEPT !.strs = strs,
                        !.info = @ \o <<AddressOf(e.text, s.start), AddressOf(e.text, s.end),
                                        Idx(strs, s.name), Len(s.params), Len(s.vars)>>],
              s.params \o s.vars)

EmitLines(code) ==
  Through(EmitLine, [text |-> code.text, files |-> <<>>, strs |-> <<>>, line |-> <<Len(code.lines)>>,
                     info |-> <<>>], code.lines)
EmitSubs(e, subs) == Through(EmitSub, [e EXCEPT !.info = <<Len(subs), Len(e.files)>>], subs)

\* A file is written with its index among files; it is read as one among strings.
\* A mutant: the index is the count behind it.
FilesFromOne(e) == [e EXCEPT !.info = @ \o [i \in DOMAIN e.files |-> i]]
EmitFiles(e) == [e EXCEPT !.info = @ \o [i \in DOMAIN e.files |-> i - 1]]

DebugEmit(code) ==
  LET e == EmitFiles(EmitSubs(EmitLines(code), code.subs))
  IN  [info |-> e.info, line |-> e.line, str |-> <<Len(e.strs)>> \o e.strs]

-------------------------------------------------------------------------------
\* ctx_dbg_init: the sections are read with a cursor.

ReadValues(info, cur, count) ==
  [j \in 1..count |-> [offset |-> info[cur + 2 * (j - 1)], debug_str_id |-> info[cur + 2 * (j - 1) + 1]]]
ReadSub(info, cur) ==
  [address_start |-> info[cur], address_end |-> info[cur + 1], debug_str_id |-> info[cur + 2],
   params |-> ReadValues(info, cur + 5, info[cur + 3]),
   vars   |-> ReadValues(info, cur + 5 + 2 * info[cur + 3], info[cur + 4])]
BehindSub(info, cur) == cur + 5 + 2 * (info[cur + 3] + info[cur + 4])

\* The words of str behind the count are strings already.
CtxDbgInit(sections) ==
  LET info == sections.info
      line == sections.line
      cur[i \in 1..(info[1] + 1)] == IF i = 1 THEN 3 ELSE BehindSub(info, cur[i - 1])
  IN  [subroutines |-> [i \in 1..info[1] |-> ReadSub(info, cur[i])],
       files |-> [i \in 1..info[2] |-> info[cur[info[1] + 1] + i - 1]],
       lines |-> [i \in 1..line[1] |-> [address |-> line[3 * i - 1], file_id |-> line[3 * i],
                                        line |-> line[3 * i + 1]]],
       strs  |-> Tail(sections.str)]

StrById(dbg, id)       == dbg.strs[id + 1]
FileById(dbg, file_id) == StrById(dbg, dbg.files[file_id + 1])

\* ctx_dbg_line_by_source, ctx_dbg_line_by_address, ctx_dbg_sub_by_address: the first
\* that fits.
Firsts(seq, Test(_)) == LET i == SelectInSeq(seq, Test) IN IF i = 0 THEN <<>> ELSE <<seq[i]>>

LineBySource(dbg, file_id, line) == Firsts(dbg.lines, LAMBDA l : l.file_id = file_id /\ l.line = line)
LineByAddress(dbg, address)      == Firsts(dbg.lines, LAMBDA l : l.address = address)
SubByAddress(dbg, address) ==
  Firsts(dbg.subroutines, LAMBDA s : s.address_start <= address /\ s.address_end > address)
===============================================================================
