---------------------------- MODULE ProjectUpdate ----------------------------
(***************************************************************************)
(* The project builder: "construct" compiles the sources of a project and  *)
(* writes its database, "update" brings both up to date (cproj_proj.cpp,   *)
(* controller.cpp).  Every row is a transaction of its own, and the        *)
(* libraries are files beside the database: a run that fails or is killed  *)
(* leaves what it has written, and the user edits sources and descriptions *)
(* (.cpt files) at any time.                                               *)
(***************************************************************************)
EXTENDS Naturals, SequencesExt

CONSTANTS
  Funcs,        \* entry functions
  Home,         \* the source file of each (funcs_src)
  Names,        \* names of arguments
  Descriptions, \* what the .cpt files may say: arguments of each function, or None
  MaxVer,       \* bound: versions of a source file
  Bad,          \* versions that do not compile
  MaxEdits,     \* bound: changes of the description
  MaxCrashes,   \* bound: runs killed
  None

\* A row of a function's table of arguments.
ArgRow == [io : {"in", "out"}, idx : Nat, arg : Names]

Srcs == {Home[f] : f \in Funcs}
Versions == 1 .. MaxVer

ASSUME ProjectAssumption ==
  /\ MaxVer \in Nat \ {0} /\ MaxEdits \in Nat /\ MaxCrashes \in Nat
  /\ Bad \subseteq Srcs \X Versions
  /\ None \notin Versions /\ None \notin Descriptions
  /\ Descriptions \subseteq [Funcs -> {None} \union [in : Seq(Names), out : Seq(Names)]]
  /\ None \notin Seq(ArgRow)

VARIABLES
  ver,      \* version of each source file now
  desc,     \* description now
  built,    \* version each library file was compiled from
  tables,   \* the fixed tables: "none", "some" or "all" of them
  src,      \* table srcfiles: version whose MD5 is recorded
  libs,     \* table libfiles, by source
  funcs,    \* table functions
  rows,     \* table fargs_f of each function
  cptrow,   \* table cptfiles
  projrow,  \* table projfile has its row
  pc, mode, \* of the running command
  plan,     \* the description it has read
  todo,     \* items its loop still has to visit
  cur,      \* the item it is at
  md5,      \* MD5s it has computed
  lib_index,\* sources it has compiled
  edits, crashes,
  edited,   \* history: something was edited since the command was started
  slipped   \* history: sources edited between their compilation and their MD5

files == <<ver, desc, built>>
db == <<tables, src, libs, funcs, rows, cptrow, projrow>>
run == <<pc, mode, plan, todo, cur, md5, lib_index>>
history == <<edits, crashes, edited, slipped>>
vars == <<files, db, run, history>>

Ended == {"idle", "done", "failed", "killed"}
Described(d) == {f \in Funcs : d[f] # None}
Used(d) == {Home[f] : f \in Described(d)}

Init ==
  /\ ver = [s \in Srcs |-> 1] /\ desc \in Descriptions
  /\ built = [s \in Srcs |-> None]
  /\ tables = "none" /\ src = [s \in Srcs |-> None] /\ libs = {} /\ funcs = {}
  /\ rows = [f \in Funcs |-> None] /\ cptrow = None /\ projrow = FALSE
  /\ pc = "idle" /\ mode = "none" /\ plan = desc
  /\ todo = {} /\ cur = None /\ md5 = [s \in Srcs |-> None] /\ lib_index = {}
  /\ edits = 0 /\ crashes = 0 /\ edited = FALSE /\ slipped = {}

-----------------------------------------------------------------------------
(* The user.                                                               *)

EditSource(s) ==
  /\ ver[s] < MaxVer
  /\ ver' = [ver EXCEPT ![s] = @ + 1]
  /\ edited' = TRUE
  /\ UNCHANGED <<desc, built, db, run, edits, crashes, slipped>>

EditDescription ==
  /\ edits < MaxEdits
  /\ edits' = edits + 1
  /\ desc' \in Descriptions \ {desc}
  /\ edited' = TRUE
  /\ UNCHANGED <<ver, built, db, run, crashes, slipped>>

Crash ==
  /\ pc \notin Ended /\ crashes < MaxCrashes
  /\ crashes' = crashes + 1
  /\ pc' = "killed"
  /\ UNCHANGED <<files, db, mode, plan, todo, cur, md5, lib_index, edits, edited, slipped>>

-----------------------------------------------------------------------------
(* Commands and their phases.                                              *)

\* The items the loop of a phase visits, for a description d and what was compiled.
Work(phase, d, compiled) ==
  IF phase \in {"build", "srcs", "add", "check"} THEN Used(d)
  ELSE IF phase \in {"funcs", "ftables", "args"} THEN Described(d)
  ELSE IF phase = "libs" THEN compiled ELSE {}

Go(phase) == pc' = phase /\ todo' = Work(phase, plan, lib_index)

Following ==
  IF mode = "construct"
  THEN [build |-> "tables", srcs |-> "libs", libs |-> "funcs", funcs |-> "ftables",
        ftables |-> "cptwrite", cptwrite |-> "projwrite", projwrite |-> "done"]
  ELSE [add |-> "libs", libs |-> "check", check |-> "funcs", funcs |-> "args", args |-> "cpt",
        cpt |-> "cptwrite", cptwrite |-> "proj", proj |-> "projwrite", projwrite |-> "done"]

\* The description is read and the MD5s of its sources are computed (check_cpt).
Read(command, phase) ==
  /\ mode' = command /\ plan' = desc /\ lib_index' = {} /\ cur' = None
  /\ md5' = [s \in Srcs |-> IF command = "construct" /\ s \in Used(desc) THEN ver[s] ELSE None]
  /\ pc' = phase /\ todo' = Work(phase, desc, {})
  /\ edited' = FALSE

\* construct, where there is no database, or -f has removed it.
Construct ==
  /\ pc \in Ended
  /\ tables' = "none" /\ src' = [s \in Srcs |-> None] /\ libs' = {} /\ funcs' = {}
  /\ rows' = [f \in Funcs |-> None] /\ cptrow' = None /\ projrow' = FALSE
  /\ Read("construct", "build")
  /\ slipped' = {}
  /\ UNCHANGED <<files, edits, crashes>>

\* update, after check_database has found the tables and the name of the project.
Update ==
  /\ pc \in Ended /\ tables = "all" /\ projrow
  /\ Read("update", "add")
  /\ UNCHANGED <<files, db, edits, crashes, slipped>>

\* An error is thrown, or a null pointer made into a string.
Fail ==
  /\ pc' = "failed"
  /\ UNCHANGED <<files, db, mode, plan, todo, cur, md5, lib_index, history>>

UpdateRefused == pc \in Ended /\ ~(tables = "all" /\ projrow) /\ Fail

\* The loop of a phase is over.
Phase ==
  /\ pc \in {"build", "srcs", "add", "libs", "check", "funcs", "ftables", "args"} /\ todo = {}
  /\ Go(Following[pc])
  /\ UNCHANGED <<files, db, mode, plan, cur, md5, lib_index, history>>

-----------------------------------------------------------------------------
(* Sources and libraries.                                                  *)

\* A source is compiled into its library file.
Compiled(s) ==
  /\ <<s, ver[s]>> \notin Bad
  /\ built' = [built EXCEPT ![s] = ver[s]]
  /\ lib_index' = lib_index \union {s}

\* CompileUsedSrcFiles.
Build(s) ==
  /\ pc = "build" /\ s \in todo /\ Compiled(s)
  /\ todo' = todo \ {s}
  /\ UNCHANGED <<ver, desc, db, pc, mode, plan, cur, md5, history>>

\* UpdateProcess, first loop: what is not in srcfiles yet is compiled ...
Add(s) ==
  /\ pc = "add" /\ s \in todo /\ src[s] = None /\ Compiled(s)
  /\ pc' = "added" /\ cur' = s /\ todo' = todo \ {s}
  /\ md5' = [md5 EXCEPT ![s] = ver[s]]
  /\ UNCHANGED <<ver, desc, db, mode, plan, history>>

\* ... and then recorded with the MD5 it has by then (md5 keeps what was compiled).
Added ==
  /\ pc = "added"
  /\ src' = [src EXCEPT ![cur] = ver[cur]]
  /\ slipped' = IF ver[cur] = md5[cur] THEN slipped \ {cur} ELSE slipped \union {cur}
  /\ pc' = "add" /\ cur' = None
  /\ UNCHANGED <<files, tables, libs, funcs, rows, cptrow, projrow, mode, plan, todo, md5,
                 lib_index, edits, crashes, edited>>

\* Third loop: a source whose MD5 has changed is compiled ...
Check(s) ==
  /\ pc = "check" /\ s \in todo /\ src[s] # ver[s] /\ <<s, ver[s]>> \notin Bad
  /\ pc' = "recompile" /\ cur' = s /\ todo' = todo \ {s}
  /\ md5' = [md5 EXCEPT ![s] = ver[s]]
  /\ UNCHANGED <<files, db, mode, plan, lib_index, history>>

\* Fault: the new MD5 is recorded without compiling.
RecompileSkipped ==
  /\ pc = "recompile"
  /\ pc' = "record"
  /\ lib_index' = lib_index \union {cur}
  /\ UNCHANGED <<files, db, mode, plan, todo, cur, md5, history>>

Recompile ==
  /\ pc = "recompile" /\ Compiled(cur)
  /\ pc' = "record"
  /\ UNCHANGED <<ver, desc, db, mode, plan, todo, cur, md5, history>>

\* ... and its row updated with the MD5 taken before.
Record ==
  /\ pc = "record"
  /\ src' = [src EXCEPT ![cur] = md5[cur]]
  /\ slipped' = slipped \ {cur}
  /\ pc' = "check" /\ cur' = None
  /\ UNCHANGED <<files, tables, libs, funcs, rows, cptrow, projrow, mode, plan, todo, md5,
                 lib_index, edits, crashes, edited>>

\* What is compiled before it is looked at next does not compile.
CompileFails ==
  /\ \/ pc = "recompile" /\ <<cur, ver[cur]>> \in Bad
     \/ \E s \in todo \intersect Srcs :
          /\ \/ pc = "build"
             \/ pc = "add" /\ src[s] = None
             \/ pc = "check" /\ src[s] # ver[s]
          /\ <<s, ver[s]>> \in Bad
  /\ Fail

\* A source that is recorded, or recorded with the MD5 it has.
Known(s) ==
  /\ s \in todo
  /\ \/ pc = "add" /\ src[s] # None
     \/ pc = "check" /\ src[s] = ver[s]
  /\ todo' = todo \ {s}
  /\ UNCHANGED <<files, db, pc, mode, plan, cur, md5, lib_index, history>>

\* CheckFuncInfo: a library does not define what the description says.
FunctionUnresolved == pc = "tables" /\ tables = "none" /\ Fail

\* build_new_db.
Tables ==
  /\ pc = "tables"
  /\ \/ tables = "none" /\ tables' = "some" /\ UNCHANGED <<pc, todo>>
     \/ tables = "some" /\ tables' = "all" /\ Go("srcs")
  /\ UNCHANGED <<files, src, libs, funcs, rows, cptrow, projrow, mode, plan, cur, md5, lib_index,
                 history>>

\* write_src_info: the MD5s taken before the compilation.
WriteSource(s) ==
  /\ pc = "srcs" /\ s \in todo
  /\ src' = [src EXCEPT ![s] = md5[s]]
  /\ todo' = todo \ {s}
  /\ UNCHANGED <<files, tables, libs, funcs, rows, cptrow, projrow, pc, mode, plan, cur, md5,
                 lib_index, history>>

\* write_lib_info, and the second loop of UpdateProcess: only what was just compiled.
Library(s) ==
  /\ pc = "libs" /\ s \in todo
  /\ libs' = libs \union {s}
  /\ todo' = todo \ {s}
  /\ UNCHANGED <<files, tables, src, funcs, rows, cptrow, projrow, pc, mode, plan, cur, md5,
                 lib_index, history>>

-----------------------------------------------------------------------------
(* Functions and their arguments.                                          *)

\* Fault: the row of the library is not looked up.
InsertableAlways(f) == Home[f] \in lib_index

\* write_func_info finds the library in lib_index (what this run has compiled), and
\* one row for the source and one for the library.
Insertable(f) == Home[f] \in lib_index /\ src[Home[f]] # None /\ Home[f] \in libs

Function(f) ==
  /\ pc = "funcs" /\ f \in todo /\ f \notin funcs /\ Insertable(f)
  /\ funcs' = funcs \union {f}
  /\ todo' = todo \ {f}
  /\ \/ mode = "construct" /\ UNCHANGED <<pc, cur>>
     \/ mode = "update" /\ pc' = "table" /\ cur' = f
  /\ UNCHANGED <<files, tables, src, libs, rows, cptrow, projrow, mode, plan, md5, lib_index,
                 history>>

FunctionKnown(f) ==
  /\ pc = "funcs" /\ f \in todo /\ f \in funcs
  /\ todo' = todo \ {f}
  /\ UNCHANGED <<files, db, pc, mode, plan, cur, md5, lib_index, history>>

FunctionFails ==
  /\ pc = "funcs" /\ \E f \in todo : f \notin funcs /\ ~Insertable(f)
  /\ Fail

\* write_args_info: a table for the function; in "construct", for each in turn.
Table(f) ==
  /\ \/ pc = "table" /\ cur = f /\ pc' = "rows" /\ UNCHANGED todo
     \/ pc = "ftables" /\ f \in todo /\ pc' = "frows" /\ todo' = todo \ {f}
  /\ rows' = [rows EXCEPT ![f] = <<>>]
  /\ cur' = f
  /\ UNCHANGED <<files, tables, src, libs, funcs, cptrow, projrow, mode, plan, md5, lib_index,
                 history>>

Row(io, i, arg) == [io |-> io, idx |-> i, arg |-> arg]
RowsIn(d) == [i \in DOMAIN d.in |-> Row("in", i - 1, d.in[i])]
RowsOut(d) == [i \in DOMAIN d.out |-> Row("out", i - 1, d.out[i])]
RowsOf(d) == RowsIn(d) \o RowsOut(d)
Stored(f) == IF rows[f] = None THEN <<>> ELSE rows[f]

\* Fault: a new function's table is created once more.
AfterTable == [frows |-> "ftables", rows |-> "table", argrows |-> "args"]

\* The loops that write rows of arguments, and where each goes on afterwards.
After == [frows |-> "ftables", rows |-> "funcs", argrows |-> "args"]

\* write_args_info_no_create_table, a transaction for each row.
WriteRow ==
  LET wanted == RowsOf(plan[cur])  n == Len(rows[cur]) IN
  /\ pc \in DOMAIN After
  /\ \/ /\ n < Len(wanted)
        /\ rows' = [rows EXCEPT ![cur] = Append(@, wanted[n + 1])]
        /\ UNCHANGED <<pc, cur>>
     \/ /\ n = Len(wanted)
        /\ pc' = After[pc] /\ cur' = None
        /\ UNCHANGED rows
  /\ UNCHANGED <<files, tables, src, libs, funcs, cptrow, projrow, mode, plan, todo, md5,
                 lib_index, history>>

\* How many of the wanted rows follow one another in the list from a place on, and
\* whether the comparison then reads a row that is not there.
Agreeing(list, from, wanted) ==
  LET wrong == {k \in DOMAIN wanted : from + k > Len(list) \/ list[from + k] # wanted[k]}
  IN IF wrong = {} THEN Len(wanted) ELSE Min(wrong) - 1

Missing(list, from, wanted) ==
  LET n == Agreeing(list, from, wanted) IN n < Len(wanted) /\ from + n = Len(list)

\* Fault: the outcome of the first loop is forgotten.
ArgsChangedOut(f) ==
  LET same == Agreeing(Stored(f), 0, RowsIn(plan[f]))
  IN Agreeing(Stored(f), same, RowsOut(plan[f])) < Len(plan[f].out)

\* The stored rows are compared with the input arguments up to the first difference,
\* and from there on with the output arguments; rows beyond them are not looked at.
ArgsChanged(f) ==
  LET same == Agreeing(Stored(f), 0, RowsIn(plan[f]))
  IN \/ same < Len(plan[f].in)
     \/ Agreeing(Stored(f), same, RowsOut(plan[f])) < Len(plan[f].out)

ArgsMissing(f) ==
  \/ Missing(Stored(f), 0, RowsIn(plan[f]))
  \/ Missing(Stored(f), Agreeing(Stored(f), 0, RowsIn(plan[f])), RowsOut(plan[f]))

CompareArgs(f) ==
  /\ pc = "args" /\ f \in todo /\ ~ArgsMissing(f)
  /\ \/ ArgsChanged(f) /\ rows' = [rows EXCEPT ![f] = <<>>] /\ pc' = "argrows" /\ cur' = f
     \/ ~ArgsChanged(f) /\ UNCHANGED <<rows, pc, cur>>
  /\ todo' = todo \ {f}
  /\ UNCHANGED <<files, tables, src, libs, funcs, cptrow, projrow, mode, plan, md5, lib_index,
                 history>>

ArgsFail == pc = "args" /\ (\E f \in todo : ArgsMissing(f)) /\ Fail

-----------------------------------------------------------------------------
(* The rows of the description and of the project, deleted first in "update". *)

DeleteRow ==
  /\ \/ pc = "cpt" /\ cptrow' = None /\ UNCHANGED projrow
     \/ pc = "proj" /\ projrow' = FALSE /\ UNCHANGED cptrow
  /\ Go(Following[pc])
  /\ UNCHANGED <<files, tables, src, libs, funcs, rows, mode, plan, cur, md5, lib_index, history>>

\* write_cpt_info takes the files as they are now; write_proj_info.
InsertRow ==
  /\ \/ pc = "cptwrite" /\ cptrow' = desc /\ UNCHANGED projrow
     \/ pc = "projwrite" /\ projrow' = TRUE /\ UNCHANGED cptrow
  /\ Go(Following[pc])
  /\ UNCHANGED <<files, tables, src, libs, funcs, rows, mode, plan, cur, md5, lib_index, history>>

-----------------------------------------------------------------------------
Next ==
  \/ EditDescription \/ Crash
  \/ Construct \/ Update \/ UpdateRefused \/ Phase
  \/ Added \/ Recompile \/ Record \/ CompileFails \/ FunctionUnresolved \/ Tables
  \/ FunctionFails \/ WriteRow \/ ArgsFail \/ DeleteRow \/ InsertRow
  \/ \E s \in Srcs :
       \/ EditSource(s) \/ Build(s) \/ Add(s) \/ Check(s) \/ Known(s)
       \/ WriteSource(s) \/ Library(s)
  \/ \E f \in Funcs : Function(f) \/ FunctionKnown(f) \/ Table(f) \/ CompareArgs(f)

Spec == Init /\ [][Next]_vars

-----------------------------------------------------------------------------
Recorded == Versions \union {None}
\* The files, the database and the running command keep their types.
TypeOK ==
  /\ ver \in [Srcs -> Versions] /\ desc \in Descriptions /\ built \in [Srcs -> Recorded]
  /\ tables \in {"none", "some", "all"}
  /\ src \in [Srcs -> Recorded] /\ libs \subseteq Srcs /\ funcs \subseteq Funcs
  /\ rows \in [Funcs -> {None} \union Seq(ArgRow)]
  /\ cptrow \in Descriptions \union {None} /\ projrow \in BOOLEAN
  /\ pc \in Ended \union DOMAIN After \union
       {"build", "tables", "srcs", "add", "added", "libs", "check", "recompile", "record", "funcs",
        "table", "ftables", "args", "cpt", "cptwrite", "proj", "projwrite"}
  /\ mode \in {"none", "construct", "update"} /\ plan \in Descriptions
  /\ todo \subseteq Srcs \union Funcs /\ cur \in Srcs \union Funcs \union {None}
  /\ pc \in {"added", "recompile", "record"} => cur \in Srcs
  /\ pc \in DOMAIN After \union {"table"} => cur \in Funcs
  /\ md5 \in [Srcs -> Recorded] /\ lib_index \subseteq Srcs
  /\ edits \in 0 .. MaxEdits /\ crashes \in 0 .. MaxCrashes
  /\ edited \in BOOLEAN /\ slipped \subseteq Srcs

\* Wherever a run failed or was killed: a function in the database has the rows of
\* its source and of its library, whose ids it holds; and in a project that was once
\* complete it has its table of arguments, unless a run was killed before it.
FunctionsResolve ==
  \A f \in funcs :
    /\ src[Home[f]] # None /\ Home[f] \in libs
    /\ projrow => rows[f] # None \/ (pc = "table" /\ cur = f) \/ crashes > 0

\* What the database says of a source is what its library was built from, or older
\* (then "update" compiles again), but for a source edited while it was added.
RecordedIsBuilt ==
  \A s \in Srcs : src[s] # None => built[s] # None /\ (built[s] >= src[s] \/ s \in slipped)

\* A command that has come to its end, with nothing edited since it was started,
\* leaves libraries and a database that agree with the project: sources (but those
\* edited while they were added), libraries, every described function with its
\* arguments (rows dropped at the end of its list stay: nobody looks at them),
\* description and project.
CompletedAgrees ==
  (pc = "done" /\ ~edited) =>
    /\ \A s \in Used(desc) :
         s \in libs /\ src[s] = ver[s] /\ (built[s] = ver[s] \/ s \in slipped)
    /\ \A f \in Described(desc) : f \in funcs /\ IsPrefix(RowsOf(desc[f]), Stored(f))
    /\ cptrow = desc /\ projrow
=============================================================================
