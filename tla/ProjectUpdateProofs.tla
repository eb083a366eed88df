------------------------ MODULE ProjectUpdateProofs -------------------------
(***************************************************************************)
(* Proofs about ProjectUpdate, for any functions, sources, descriptions,   *)
(* edits and crashes.                                                      *)
(***************************************************************************)
EXTENDS ProjectUpdate, SequenceTheorems, WellFoundedInduction, TLAPS

-----------------------------------------------------------------------------
(* The steps that give up change nothing but pc.                           *)

Fails == Fail /\ pc # "table"

\* Next, action by action.
LEMMA Steps ==
  ASSUME [Next]_vars
  PROVE  \/ EditDescription \/ Crash \/ Construct \/ Update \/ Phase
         \/ Added \/ Recompile \/ Record \/ Tables \/ WriteRow \/ DeleteRow \/ InsertRow
         \/ Fails
         \/ \E s \in Srcs :
              \/ EditSource(s) \/ Build(s) \/ Add(s) \/ Check(s) \/ Known(s)
              \/ WriteSource(s) \/ Library(s)
         \/ \E f \in Funcs : Function(f) \/ FunctionKnown(f) \/ Table(f) \/ CompareArgs(f)
         \/ UNCHANGED vars
BY DEF Next, Fails, Ended, UpdateRefused, CompileFails, FunctionUnresolved, FunctionFails, ArgsFail

-----------------------------------------------------------------------------
(* Type correctness, by groups of variables.                               *)

TypeFiles ==
  /\ ver \in [Srcs -> Versions] /\ desc \in Descriptions /\ built \in [Srcs -> Recorded]
  /\ md5 \in [Srcs -> Recorded] /\ plan \in Descriptions
TypeTables ==
  /\ tables \in {"none", "some", "all"}
  /\ src \in [Srcs -> Recorded] /\ libs \subseteq Srcs /\ funcs \subseteq Funcs
  /\ cptrow \in Descriptions \union {None}
  /\ lib_index \subseteq Srcs /\ slipped \subseteq Srcs
TypeRows == rows \in [Funcs -> {None} \union Seq(ArgRow)]
TypeRun ==
  /\ pc \in Ended \union DOMAIN After \union
       {"build", "tables", "srcs", "add", "added", "libs", "check", "recompile", "record", "funcs",
        "table", "ftables", "args", "cpt", "cptwrite", "proj", "projwrite"}
  /\ mode \in {"none", "construct", "update"}
  /\ todo \subseteq Srcs \union Funcs /\ cur \in Srcs \union Funcs \union {None}
  /\ pc \in {"added", "recompile", "record"} => cur \in Srcs
  /\ pc \in DOMAIN After \union {"table"} => cur \in Funcs
TypeCounts == edits \in 0 .. MaxEdits /\ crashes \in 0 .. MaxCrashes
TypeSwitches == projrow \in BOOLEAN /\ edited \in BOOLEAN

\* Which phases belong to which command.
ModeFits ==
  /\ mode = "none" => pc \in {"idle", "failed"}
  /\ pc \in {"build", "tables", "srcs", "ftables", "frows"} => mode = "construct"
  /\ pc \in {"add", "added", "check", "recompile", "record", "table", "rows", "args", "argrows",
             "cpt", "proj"} => mode = "update"

\* What follows each phase.
LEMMA Successors ==
  /\ mode = "construct" =>
       /\ pc = "build" => Following[pc] = "tables"
       /\ pc = "srcs" => Following[pc] = "libs"
       /\ pc = "libs" => Following[pc] = "funcs"
       /\ pc = "funcs" => Following[pc] = "ftables"
       /\ pc = "ftables" => Following[pc] = "cptwrite"
       /\ pc = "cptwrite" => Following[pc] = "projwrite"
  /\ mode = "update" =>
       /\ pc = "add" => Following[pc] = "libs"
       /\ pc = "libs" => Following[pc] = "check"
       /\ pc = "check" => Following[pc] = "funcs"
       /\ pc = "funcs" => Following[pc] = "args"
       /\ pc = "args" => Following[pc] = "cpt"
       /\ pc = "cpt" => Following[pc] = "cptwrite"
       /\ pc = "cptwrite" => Following[pc] = "proj"
       /\ pc = "proj" => Following[pc] = "projwrite"
  /\ pc = "projwrite" => Following[pc] = "done"
BY DEF Following

\* The wanted rows are rows.
LEMMA RowsAreRows ==
  ASSUME NEW d \in [in : Seq(Names), out : Seq(Names)]
  PROVE  /\ RowsOf(d) \in Seq(ArgRow)
         /\ RowsIn(d) \in Seq(ArgRow) /\ Len(RowsIn(d)) = Len(d.in)
         /\ RowsOut(d) \in Seq(ArgRow) /\ Len(RowsOut(d)) = Len(d.out)
<1>1. RowsIn(d) \in Seq(ArgRow) /\ Len(RowsIn(d)) = Len(d.in)
  <2>1. d.in \in Seq(Names)
    OBVIOUS
  <2>2. Len(d.in) \in Nat /\ DOMAIN d.in = 1 .. Len(d.in) /\ \A i \in 1 .. Len(d.in) : d.in[i] \in Names
    BY <2>1, LenProperties, ElementOfSeq
  <2>3. \A i \in 1 .. Len(d.in) : Row("in", i - 1, d.in[i]) \in ArgRow
    BY <2>2 DEF Row, ArgRow
  <2>4. RowsIn(d) \in [1 .. Len(d.in) -> ArgRow]
    BY <2>2, <2>3 DEF RowsIn
  <2> QED BY <2>2, <2>4
<1>2. RowsOut(d) \in Seq(ArgRow) /\ Len(RowsOut(d)) = Len(d.out)
  <2>1. d.out \in Seq(Names)
    OBVIOUS
  <2>2. Len(d.out) \in Nat /\ DOMAIN d.out = 1 .. Len(d.out) /\ \A i \in 1 .. Len(d.out) : d.out[i] \in Names
    BY <2>1, LenProperties, ElementOfSeq
  <2>3. \A i \in 1 .. Len(d.out) : Row("out", i - 1, d.out[i]) \in ArgRow
    BY <2>2 DEF Row, ArgRow
  <2>4. RowsOut(d) \in [1 .. Len(d.out) -> ArgRow]
    BY <2>2, <2>3 DEF RowsOut
  <2> QED BY <2>2, <2>4
<1> QED BY <1>1, <1>2 DEF RowsOf

\* The type invariant in groups, each with a proof of its own.
LEMMA TypeGroups ==
  TypeOK <=> TypeFiles /\ TypeTables /\ TypeRows /\ TypeRun /\ TypeCounts /\ TypeSwitches
BY DEF TypeOK, TypeFiles, TypeTables, TypeRows, TypeRun, TypeCounts, TypeSwitches

\* Every step keeps the types of the files ...
LEMMA FilesType == TypeFiles /\ TypeRun /\ [Next]_vars => TypeFiles'
<1> SUFFICES ASSUME TypeFiles /\ TypeRun, [Next]_vars PROVE TypeFiles'
  OBVIOUS
<1> USE ProjectAssumption DEF TypeFiles, TypeRun, Recorded, Versions, files, run, history
<1>1. CASE EditDescription
  BY <1>1 DEF EditDescription
<1>2. CASE Crash
  BY <1>2 DEF Crash
<1>3. CASE Construct
  BY <1>3 DEF Construct, Read
<1>4. CASE Update
  BY <1>4 DEF Update, Read
<1>5. CASE Phase
  BY <1>5 DEF Phase, Go
<1>6. CASE Added
  BY <1>6 DEF Added
<1>7. CASE Recompile
  BY <1>7 DEF Recompile, Compiled
<1>8. CASE Record
  BY <1>8 DEF Record
<1>9. CASE Tables
  BY <1>9 DEF Tables, Go
<1>10. CASE WriteRow
  BY <1>10 DEF WriteRow
<1>11. CASE DeleteRow
  BY <1>11 DEF DeleteRow, Go
<1>12. CASE InsertRow
  BY <1>12 DEF InsertRow, Go
<1>13. CASE Fails
  BY <1>13 DEF Fails, Fail
<1>14. ASSUME NEW s \in Srcs, EditSource(s) PROVE TypeFiles'
  BY <1>14 DEF EditSource
<1>15. ASSUME NEW s \in Srcs, Build(s) PROVE TypeFiles'
  BY <1>15 DEF Build, Compiled
<1>16. ASSUME NEW s \in Srcs, Add(s) PROVE TypeFiles'
  BY <1>16 DEF Add, Compiled
<1>17. ASSUME NEW s \in Srcs, Check(s) PROVE TypeFiles'
  BY <1>17 DEF Check
<1>18. ASSUME NEW s \in Srcs, Known(s) PROVE TypeFiles'
  BY <1>18 DEF Known
<1>19. ASSUME NEW s \in Srcs, WriteSource(s) PROVE TypeFiles'
  BY <1>19 DEF WriteSource
<1>20. ASSUME NEW s \in Srcs, Library(s) PROVE TypeFiles'
  BY <1>20 DEF Library
<1>21. ASSUME NEW f \in Funcs, Function(f) PROVE TypeFiles'
  BY <1>21 DEF Function
<1>22. ASSUME NEW f \in Funcs, FunctionKnown(f) PROVE TypeFiles'
  BY <1>22 DEF FunctionKnown
<1>23. ASSUME NEW f \in Funcs, Table(f) PROVE TypeFiles'
  BY <1>23 DEF Table
<1>24. ASSUME NEW f \in Funcs, CompareArgs(f) PROVE TypeFiles'
  BY <1>24 DEF CompareArgs
<1>25. CASE UNCHANGED vars
  BY <1>25 DEF vars
<1> QED BY <1>1, <1>2, <1>3, <1>4, <1>5, <1>6, <1>7, <1>8, <1>9, <1>10, <1>11, <1>12, <1>13, <1>14, <1>15, <1>16, <1>17, <1>18, <1>19, <1>20, <1>21, <1>22, <1>23, <1>24, <1>25, Steps

\* ... of the tables ...
LEMMA TablesType == TypeOK /\ [Next]_vars => TypeTables'
<1> SUFFICES ASSUME TypeOK, [Next]_vars PROVE TypeTables'
  OBVIOUS
<1> USE TypeGroups DEF TypeTables, TypeFiles, TypeRun, Recorded, files, db, run, history
<1>1. CASE EditDescription
  BY <1>1 DEF EditDescription
<1>2. CASE Crash
  BY <1>2 DEF Crash
<1>3. CASE Construct
  BY <1>3 DEF Construct, Read
<1>4. CASE Update
  BY <1>4 DEF Update, Read
<1>5. CASE Phase
  BY <1>5 DEF Phase, Go
<1>6. CASE Added
  BY <1>6 DEF Added
<1>7. CASE Recompile
  BY <1>7 DEF Recompile, Compiled
<1>8. CASE Record
  BY <1>8 DEF Record
<1>9. CASE Tables
  BY <1>9 DEF Tables, Go
<1>10. CASE WriteRow
  BY <1>10 DEF WriteRow
<1>11. CASE DeleteRow
  BY <1>11 DEF DeleteRow, Go
<1>12. CASE InsertRow
  BY <1>12 DEF InsertRow, Go
<1>13. CASE Fails
  BY <1>13 DEF Fails, Fail
<1>14. ASSUME NEW s \in Srcs, EditSource(s) PROVE TypeTables'
  BY <1>14 DEF EditSource
<1>15. ASSUME NEW s \in Srcs, Build(s) PROVE TypeTables'
  BY <1>15 DEF Build, Compiled
<1>16. ASSUME NEW s \in Srcs, Add(s) PROVE TypeTables'
  BY <1>16 DEF Add, Compiled
<1>17. ASSUME NEW s \in Srcs, Check(s) PROVE TypeTables'
  BY <1>17 DEF Check
<1>18. ASSUME NEW s \in Srcs, Known(s) PROVE TypeTables'
  BY <1>18 DEF Known
<1>19. ASSUME NEW s \in Srcs, WriteSource(s) PROVE TypeTables'
  BY <1>19 DEF WriteSource
<1>20. ASSUME NEW s \in Srcs, Library(s) PROVE TypeTables'
  BY <1>20 DEF Library
<1>21. ASSUME NEW f \in Funcs, Function(f) PROVE TypeTables'
  BY <1>21 DEF Function
<1>22. ASSUME NEW f \in Funcs, FunctionKnown(f) PROVE TypeTables'
  BY <1>22 DEF FunctionKnown
<1>23. ASSUME NEW f \in Funcs, Table(f) PROVE TypeTables'
  BY <1>23 DEF Table
<1>24. ASSUME NEW f \in Funcs, CompareArgs(f) PROVE TypeTables'
  BY <1>24 DEF CompareArgs
<1>25. CASE UNCHANGED vars
  BY <1>25 DEF vars
<1> QED BY <1>1, <1>2, <1>3, <1>4, <1>5, <1>6, <1>7, <1>8, <1>9, <1>10, <1>11, <1>12, <1>13, <1>14, <1>15, <1>16, <1>17, <1>18, <1>19, <1>20, <1>21, <1>22, <1>23, <1>24, <1>25, Steps

\* ... of the running command, and its phases those of its mode ...
LEMMA RunType == TypeOK /\ ModeFits /\ [Next]_vars => (TypeRun /\ ModeFits)'
<1> SUFFICES ASSUME TypeOK /\ ModeFits, [Next]_vars PROVE (TypeRun /\ ModeFits)'
  OBVIOUS
<1> USE TypeGroups, Successors DEF TypeRun, TypeTables, TypeFiles, Ended, After, files, db, run, history, ModeFits, Work, Used, Described, Srcs
<1>1. CASE EditDescription
  BY <1>1 DEF EditDescription
<1>2. CASE Crash
  BY <1>2 DEF Crash
<1>3. CASE Construct
  BY <1>3 DEF Construct, Read
<1>4. CASE Update
  BY <1>4 DEF Update, Read
<1>5. CASE Phase
  BY <1>5 DEF Phase, Go
<1>6. CASE Added
  BY <1>6 DEF Added
<1>7. CASE Recompile
  BY <1>7 DEF Recompile, Compiled
<1>8. CASE Record
  BY <1>8 DEF Record
<1>9. CASE Tables
  BY <1>9 DEF Tables, Go
<1>10. CASE WriteRow
  BY <1>10 DEF WriteRow
<1>11. CASE DeleteRow
  BY <1>11 DEF DeleteRow, Go
<1>12. CASE InsertRow
  BY <1>12 DEF InsertRow, Go
<1>13. CASE Fails
  BY <1>13 DEF Fails, Fail
<1>14. ASSUME NEW s \in Srcs, EditSource(s) PROVE (TypeRun /\ ModeFits)'
  BY <1>14 DEF EditSource
<1>15. ASSUME NEW s \in Srcs, Build(s) PROVE (TypeRun /\ ModeFits)'
  BY <1>15 DEF Build, Compiled
<1>16. ASSUME NEW s \in Srcs, Add(s) PROVE (TypeRun /\ ModeFits)'
  BY <1>16 DEF Add, Compiled
<1>17. ASSUME NEW s \in Srcs, Check(s) PROVE (TypeRun /\ ModeFits)'
  BY <1>17 DEF Check
<1>18. ASSUME NEW s \in Srcs, Known(s) PROVE (TypeRun /\ ModeFits)'
  BY <1>18 DEF Known
<1>19. ASSUME NEW s \in Srcs, WriteSource(s) PROVE (TypeRun /\ ModeFits)'
  BY <1>19 DEF WriteSource
<1>20. ASSUME NEW s \in Srcs, Library(s) PROVE (TypeRun /\ ModeFits)'
  BY <1>20 DEF Library
<1>21. ASSUME NEW f \in Funcs, Function(f) PROVE (TypeRun /\ ModeFits)'
  BY <1>21 DEF Function
<1>22. ASSUME NEW f \in Funcs, FunctionKnown(f) PROVE (TypeRun /\ ModeFits)'
  BY <1>22 DEF FunctionKnown
<1>23. ASSUME NEW f \in Funcs, Table(f) PROVE (TypeRun /\ ModeFits)'
  BY <1>23 DEF Table
<1>24. ASSUME NEW f \in Funcs, CompareArgs(f) PROVE (TypeRun /\ ModeFits)'
  BY <1>24 DEF CompareArgs
<1>25. CASE UNCHANGED vars
  BY <1>25 DEF vars
<1> QED BY <1>1, <1>2, <1>3, <1>4, <1>5, <1>6, <1>7, <1>8, <1>9, <1>10, <1>11, <1>12, <1>13, <1>14, <1>15, <1>16, <1>17, <1>18, <1>19, <1>20, <1>21, <1>22, <1>23, <1>24, <1>25, Steps

\* ... of the flags ...
LEMMA SwitchesType == TypeSwitches /\ [Next]_vars => TypeSwitches'
<1> SUFFICES ASSUME TypeSwitches, [Next]_vars PROVE TypeSwitches'
  OBVIOUS
<1> USE DEF TypeSwitches, files, db, run, history
<1>1. CASE EditDescription
  BY <1>1 DEF EditDescription
<1>2. CASE Crash
  BY <1>2 DEF Crash
<1>3. CASE Construct
  BY <1>3 DEF Construct, Read
<1>4. CASE Update
  BY <1>4 DEF Update, Read
<1>5. CASE Phase
  BY <1>5 DEF Phase, Go
<1>6. CASE Added
  BY <1>6 DEF Added
<1>7. CASE Recompile
  BY <1>7 DEF Recompile, Compiled
<1>8. CASE Record
  BY <1>8 DEF Record
<1>9. CASE Tables
  BY <1>9 DEF Tables, Go
<1>10. CASE WriteRow
  BY <1>10 DEF WriteRow
<1>11. CASE DeleteRow
  BY <1>11 DEF DeleteRow, Go
<1>12. CASE InsertRow
  BY <1>12 DEF InsertRow, Go
<1>13. CASE Fails
  BY <1>13 DEF Fails, Fail
<1>14. ASSUME NEW s \in Srcs, EditSource(s) PROVE TypeSwitches'
  BY <1>14 DEF EditSource
<1>15. ASSUME NEW s \in Srcs, Build(s) PROVE TypeSwitches'
  BY <1>15 DEF Build, Compiled
<1>16. ASSUME NEW s \in Srcs, Add(s) PROVE TypeSwitches'
  BY <1>16 DEF Add, Compiled
<1>17. ASSUME NEW s \in Srcs, Check(s) PROVE TypeSwitches'
  BY <1>17 DEF Check
<1>18. ASSUME NEW s \in Srcs, Known(s) PROVE TypeSwitches'
  BY <1>18 DEF Known
<1>19. ASSUME NEW s \in Srcs, WriteSource(s) PROVE TypeSwitches'
  BY <1>19 DEF WriteSource
<1>20. ASSUME NEW s \in Srcs, Library(s) PROVE TypeSwitches'
  BY <1>20 DEF Library
<1>21. ASSUME NEW f \in Funcs, Function(f) PROVE TypeSwitches'
  BY <1>21 DEF Function
<1>22. ASSUME NEW f \in Funcs, FunctionKnown(f) PROVE TypeSwitches'
  BY <1>22 DEF FunctionKnown
<1>23. ASSUME NEW f \in Funcs, Table(f) PROVE TypeSwitches'
  BY <1>23 DEF Table
<1>24. ASSUME NEW f \in Funcs, CompareArgs(f) PROVE TypeSwitches'
  BY <1>24 DEF CompareArgs
<1>25. CASE UNCHANGED vars
  BY <1>25 DEF vars
<1> QED BY <1>1, <1>2, <1>3, <1>4, <1>5, <1>6, <1>7, <1>8, <1>9, <1>10, <1>11, <1>12, <1>13, <1>14, <1>15, <1>16, <1>17, <1>18, <1>19, <1>20, <1>21, <1>22, <1>23, <1>24, <1>25, Steps

\* ... and of the counters.
LEMMA CountsType == TypeCounts /\ [Next]_vars => TypeCounts'
<1> SUFFICES ASSUME TypeCounts, [Next]_vars PROVE TypeCounts'
  OBVIOUS
<1> USE ProjectAssumption DEF TypeCounts, files, db, run, history
<1>1. CASE EditDescription
  BY <1>1 DEF EditDescription
<1>2. CASE Crash
  BY <1>2 DEF Crash
<1>3. CASE Construct
  BY <1>3 DEF Construct, Read
<1>4. CASE Update
  BY <1>4 DEF Update, Read
<1>5. CASE Phase
  BY <1>5 DEF Phase, Go
<1>6. CASE Added
  BY <1>6 DEF Added
<1>7. CASE Recompile
  BY <1>7 DEF Recompile, Compiled
<1>8. CASE Record
  BY <1>8 DEF Record
<1>9. CASE Tables
  BY <1>9 DEF Tables, Go
<1>10. CASE WriteRow
  BY <1>10 DEF WriteRow
<1>11. CASE DeleteRow
  BY <1>11 DEF DeleteRow, Go
<1>12. CASE InsertRow
  BY <1>12 DEF InsertRow, Go
<1>13. CASE Fails
  BY <1>13 DEF Fails, Fail
<1>14. ASSUME NEW s \in Srcs, EditSource(s) PROVE TypeCounts'
  BY <1>14 DEF EditSource
<1>15. ASSUME NEW s \in Srcs, Build(s) PROVE TypeCounts'
  BY <1>15 DEF Build, Compiled
<1>16. ASSUME NEW s \in Srcs, Add(s) PROVE TypeCounts'
  BY <1>16 DEF Add, Compiled
<1>17. ASSUME NEW s \in Srcs, Check(s) PROVE TypeCounts'
  BY <1>17 DEF Check
<1>18. ASSUME NEW s \in Srcs, Known(s) PROVE TypeCounts'
  BY <1>18 DEF Known
<1>19. ASSUME NEW s \in Srcs, WriteSource(s) PROVE TypeCounts'
  BY <1>19 DEF WriteSource
<1>20. ASSUME NEW s \in Srcs, Library(s) PROVE TypeCounts'
  BY <1>20 DEF Library
<1>21. ASSUME NEW f \in Funcs, Function(f) PROVE TypeCounts'
  BY <1>21 DEF Function
<1>22. ASSUME NEW f \in Funcs, FunctionKnown(f) PROVE TypeCounts'
  BY <1>22 DEF FunctionKnown
<1>23. ASSUME NEW f \in Funcs, Table(f) PROVE TypeCounts'
  BY <1>23 DEF Table
<1>24. ASSUME NEW f \in Funcs, CompareArgs(f) PROVE TypeCounts'
  BY <1>24 DEF CompareArgs
<1>25. CASE UNCHANGED vars
  BY <1>25 DEF vars
<1> QED BY <1>1, <1>2, <1>3, <1>4, <1>5, <1>6, <1>7, <1>8, <1>9, <1>10, <1>11, <1>12, <1>13, <1>14, <1>15, <1>16, <1>17, <1>18, <1>19, <1>20, <1>21, <1>22, <1>23, <1>24, <1>25, Steps

-----------------------------------------------------------------------------
(* Rows of arguments.                                                      *)

\* What the loops over functions visit, and the one being written.
Written ==
  /\ pc \in {"funcs", "ftables", "args", "table"} \union DOMAIN After => todo \subseteq Described(plan)
  /\ pc \in {"table"} \union DOMAIN After => cur \in Described(plan)
  /\ pc \in DOMAIN After => rows[cur] \in Seq(ArgRow)

\* What a described function's rows should be.
LEMMA PlanRows ==
  ASSUME TypeOK, NEW f \in Described(plan)
  PROVE  f \in Funcs /\ plan[f] \in [in : Seq(Names), out : Seq(Names)] /\ RowsOf(plan[f]) \in Seq(ArgRow)
<1>1. plan \in [Funcs -> {None} \union [in : Seq(Names), out : Seq(Names)]]
  BY ProjectAssumption, TypeGroups DEF TypeFiles
<1>2. f \in Funcs /\ plan[f] \in [in : Seq(Names), out : Seq(Names)]
  BY <1>1 DEF Described
<1> QED BY <1>2, RowsAreRows

\* A step of WriteRow ends the loop or appends the next row.
LEMMA NextRow ==
  ASSUME TypeOK, Written, WriteRow
  PROVE  /\ cur \in Described(plan) /\ rows[cur] \in Seq(ArgRow) /\ RowsOf(plan[cur]) \in Seq(ArgRow)
         /\ \/ /\ UNCHANGED rows /\ Len(rows[cur]) = Len(RowsOf(plan[cur]))
               /\ pc' = After[pc] /\ cur' = None
            \/ \E row \in ArgRow :
                 /\ Len(rows[cur]) < Len(RowsOf(plan[cur])) /\ row = RowsOf(plan[cur])[Len(rows[cur]) + 1]
                 /\ rows' = [rows EXCEPT ![cur] = Append(rows[cur], row)]
                 /\ Append(rows[cur], row) \in Seq(ArgRow)
                 /\ UNCHANGED <<pc, cur>>
<1>1. cur \in Described(plan) /\ rows[cur] \in Seq(ArgRow)
  BY DEF Written, WriteRow
<1>2. RowsOf(plan[cur]) \in Seq(ArgRow)
  BY <1>1, PlanRows
<1>3. ASSUME Len(rows[cur]) < Len(RowsOf(plan[cur]))
      PROVE  RowsOf(plan[cur])[Len(rows[cur]) + 1] \in ArgRow
  <2>1. Len(rows[cur]) + 1 \in 1 .. Len(RowsOf(plan[cur]))
    BY <1>1, <1>2, <1>3, LenProperties
  <2> QED BY <1>2, <2>1, ElementOfSeq
<1>4. ASSUME NEW row \in ArgRow PROVE Append(rows[cur], row) \in Seq(ArgRow)
  BY <1>1
<1> QED BY <1>1, <1>2, <1>3, <1>4 DEF WriteRow

\* Every step writes argument rows of described functions only.
LEMMA RowsType == TypeOK /\ ModeFits /\ Written /\ [Next]_vars => (TypeRows /\ Written)'
<1> SUFFICES ASSUME TypeOK /\ ModeFits /\ Written, [Next]_vars PROVE (TypeRows /\ Written)'
  OBVIOUS
<1> USE TypeGroups, Successors, EmptySeq DEF TypeRows, TypeFiles, TypeRun, Written, ModeFits, Work, Ended, After, files, db, run, history
<1>1. CASE EditDescription
  BY <1>1 DEF EditDescription
<1>2. CASE Crash
  BY <1>2 DEF Crash
<1>3. CASE Construct
  BY <1>3 DEF Construct, Read
<1>4. CASE Update
  BY <1>4 DEF Update, Read
<1>5. CASE Phase
  BY <1>5 DEF Phase, Go
<1>6. CASE Added
  BY <1>6 DEF Added
<1>7. CASE Recompile
  BY <1>7 DEF Recompile, Compiled
<1>8. CASE Record
  BY <1>8 DEF Record
<1>9. CASE Tables
  BY <1>9 DEF Tables, Go
<1>10. CASE WriteRow
  <2>1. UNCHANGED <<todo, plan, mode>> /\ pc \in DOMAIN After
    BY <1>10 DEF WriteRow
  <2>2. CASE UNCHANGED rows /\ pc' = After[pc] /\ cur' = None
    BY <2>1, <2>2
  <2>3. ASSUME NEW row \in ArgRow, Append(rows[cur], row) \in Seq(ArgRow), UNCHANGED <<pc, cur>>,
               rows' = [rows EXCEPT ![cur] = Append(rows[cur], row)]
        PROVE  TypeRows' /\ Written'
    BY <2>1, <2>3
  <2> QED BY <1>10, <2>2, <2>3, NextRow
<1>11. CASE DeleteRow
  BY <1>11 DEF DeleteRow, Go
<1>12. CASE InsertRow
  BY <1>12 DEF InsertRow, Go
<1>13. CASE Fails
  BY <1>13 DEF Fails, Fail
<1>14. ASSUME NEW s \in Srcs, EditSource(s) PROVE (TypeRows /\ Written)'
  BY <1>14 DEF EditSource
<1>15. ASSUME NEW s \in Srcs, Build(s) PROVE (TypeRows /\ Written)'
  BY <1>15 DEF Build, Compiled
<1>16. ASSUME NEW s \in Srcs, Add(s) PROVE (TypeRows /\ Written)'
  BY <1>16 DEF Add, Compiled
<1>17. ASSUME NEW s \in Srcs, Check(s) PROVE (TypeRows /\ Written)'
  BY <1>17 DEF Check
<1>18. ASSUME NEW s \in Srcs, Known(s) PROVE (TypeRows /\ Written)'
  BY <1>18 DEF Known
<1>19. ASSUME NEW s \in Srcs, WriteSource(s) PROVE (TypeRows /\ Written)'
  BY <1>19 DEF WriteSource
<1>20. ASSUME NEW s \in Srcs, Library(s) PROVE (TypeRows /\ Written)'
  BY <1>20 DEF Library
<1>21. ASSUME NEW f \in Funcs, Function(f) PROVE (TypeRows /\ Written)'
  BY <1>21 DEF Function
<1>22. ASSUME NEW f \in Funcs, FunctionKnown(f) PROVE (TypeRows /\ Written)'
  BY <1>22 DEF FunctionKnown
<1>23. ASSUME NEW f \in Funcs, Table(f) PROVE (TypeRows /\ Written)'
  BY <1>23 DEF Table
<1>24. ASSUME NEW f \in Funcs, CompareArgs(f) PROVE (TypeRows /\ Written)'
  BY <1>24, ZenonT(60) DEF CompareArgs
<1>25. CASE UNCHANGED vars
  BY <1>25 DEF vars
<1> QED BY <1>1, <1>2, <1>3, <1>4, <1>5, <1>6, <1>7, <1>8, <1>9, <1>10, <1>11, <1>12, <1>13, <1>14, <1>15, <1>16, <1>17, <1>18, <1>19, <1>20, <1>21, <1>22, <1>23, <1>24, <1>25, Steps

\* The types hold at first.
LEMMA InitTyped == Init => TypeOK /\ ModeFits /\ Written
<1> SUFFICES ASSUME Init PROVE TypeOK /\ ModeFits /\ Written
  OBVIOUS
<1>1. TypeFiles
  BY ProjectAssumption DEF Init, TypeFiles, Versions, Recorded
<1>2. TypeTables /\ TypeRows /\ TypeRun
  BY DEF Init, TypeTables, TypeRows, TypeRun, Recorded, Ended, After
<1>3. TypeCounts
  <2>1. 0 \in 0 .. MaxEdits /\ 0 \in 0 .. MaxCrashes
    BY ProjectAssumption
  <2> QED BY <2>1, Zenon DEF Init, TypeCounts
<1>4. TypeSwitches
  BY Zenon DEF Init, TypeSwitches
<1>5. ModeFits /\ Written
  BY DEF Init, ModeFits, Written, Ended, After
<1> QED BY <1>1, <1>2, <1>3, <1>4, <1>5, TypeGroups

-----------------------------------------------------------------------------
(* Sources and libraries.                                                  *)

\* s has a library, built from the version whose MD5 was taken, or a later one.
BuiltFor(s) == built[s] # None /\ md5[s] # None /\ built[s] >= md5[s]

SourceInv ==
  /\ \A s \in Srcs : (built[s] # None => built[s] <= ver[s]) /\ (md5[s] # None => md5[s] <= ver[s])
  /\ mode = "construct" => \A s \in Used(plan) : md5[s] # None
  /\ pc = "build" => \A s \in Used(plan) \ todo : BuiltFor(s)
  /\ pc \in {"tables", "srcs"} => \A s \in Used(plan) : BuiltFor(s)
  /\ pc = "srcs" => todo \subseteq Used(plan)
  /\ pc = "added" => built[cur] # None /\ built[cur] = md5[cur]
  /\ pc \in {"recompile", "record"} => md5[cur] # None
  /\ pc = "record" => BuiltFor(cur)
  /\ RecordedIsBuilt

\* The sources a description uses are sources.
LEMMA UsedAreSources == TypeOK => Used(plan) \subseteq Srcs /\ Used(desc) \subseteq Srcs
BY DEF TypeOK, Used, Described, Srcs

\* A source is compiled before its MD5 is recorded, in every phase of both commands.
LEMMA SourceStep == TypeOK /\ ModeFits /\ SourceInv /\ [Next]_vars => SourceInv'
<1> SUFFICES ASSUME TypeOK /\ ModeFits /\ SourceInv, [Next]_vars PROVE SourceInv'
  OBVIOUS
<1> USE TypeGroups, Successors, UsedAreSources, ProjectAssumption DEF TypeFiles, TypeTables, TypeRun, SourceInv, BuiltFor, RecordedIsBuilt, ModeFits, Recorded, Versions, Work, Ended, After, files, db, run, history
<1>1. CASE EditDescription
  BY <1>1 DEF EditDescription
<1>2. CASE Crash
  BY <1>2 DEF Crash
<1>3. CASE Construct
  BY <1>3 DEF Construct, Read
<1>4. CASE Update
  BY <1>4 DEF Update, Read
<1>5. CASE Phase
  BY <1>5 DEF Phase, Go
<1>6. CASE Added
  BY <1>6 DEF Added
<1>7. CASE Recompile
  BY <1>7 DEF Recompile, Compiled
<1>8. CASE Record
  BY <1>8 DEF Record
<1>9. CASE Tables
  BY <1>9 DEF Tables, Go
<1>10. CASE WriteRow
  BY <1>10 DEF WriteRow
<1>11. CASE DeleteRow
  BY <1>11 DEF DeleteRow, Go
<1>12. CASE InsertRow
  BY <1>12 DEF InsertRow, Go
<1>13. CASE Fails
  BY <1>13 DEF Fails, Fail
<1>14. ASSUME NEW s \in Srcs, EditSource(s) PROVE SourceInv'
  BY <1>14 DEF EditSource
<1>15. ASSUME NEW s \in Srcs, Build(s) PROVE SourceInv'
  BY <1>15 DEF Build, Compiled
<1>16. ASSUME NEW s \in Srcs, Add(s) PROVE SourceInv'
  BY <1>16 DEF Add, Compiled
<1>17. ASSUME NEW s \in Srcs, Check(s) PROVE SourceInv'
  BY <1>17 DEF Check
<1>18. ASSUME NEW s \in Srcs, Known(s) PROVE SourceInv'
  BY <1>18 DEF Known
<1>19. ASSUME NEW s \in Srcs, WriteSource(s) PROVE SourceInv'
  BY <1>19 DEF WriteSource
<1>20. ASSUME NEW s \in Srcs, Library(s) PROVE SourceInv'
  BY <1>20 DEF Library
<1>21. ASSUME NEW f \in Funcs, Function(f) PROVE SourceInv'
  BY <1>21 DEF Function
<1>22. ASSUME NEW f \in Funcs, FunctionKnown(f) PROVE SourceInv'
  BY <1>22 DEF FunctionKnown
<1>23. ASSUME NEW f \in Funcs, Table(f) PROVE SourceInv'
  BY <1>23 DEF Table
<1>24. ASSUME NEW f \in Funcs, CompareArgs(f) PROVE SourceInv'
  BY <1>24 DEF CompareArgs
<1>25. CASE UNCHANGED vars
  BY <1>25 DEF vars
<1> QED BY <1>1, <1>2, <1>3, <1>4, <1>5, <1>6, <1>7, <1>8, <1>9, <1>10, <1>11, <1>12, <1>13, <1>14, <1>15, <1>16, <1>17, <1>18, <1>19, <1>20, <1>21, <1>22, <1>23, <1>24, <1>25, Steps

-----------------------------------------------------------------------------
(* Functions.                                                              *)

Tabled(f) == rows[f] # None \/ (pc = "table" /\ cur = f) \/ crashes > 0

FunctionInv ==
  /\ FunctionsResolve
  /\ projrow \/ mode = "update" \/ (mode = "construct" /\ pc \in {"cptwrite", "projwrite", "done"})
       => \A f \in funcs : Tabled(f)
  /\ mode = "construct" => funcs \subseteq Described(plan)
  /\ pc \in {"build", "tables", "srcs"} \/ (pc = "libs" /\ mode = "construct") => funcs = {}
  /\ pc \in {"ftables", "frows"} => \A f \in funcs \ todo : rows[f] # None
  /\ mode = "construct" /\ pc \in {"build", "tables", "srcs", "libs", "funcs", "ftables", "frows", "cptwrite"}
       => ~projrow

\* No table of arguments is something else than an empty one.
LEMMA NothingIsNoRows == None \notin Seq(ArgRow) /\ <<>> # None
BY ProjectAssumption, EmptySeq

\* A function is filed after its source and library, and its table made next.
LEMMA FunctionStep == TypeOK /\ ModeFits /\ Written /\ SourceInv /\ FunctionInv /\ [Next]_vars => FunctionInv'
<1> SUFFICES ASSUME TypeOK /\ ModeFits /\ Written /\ SourceInv /\ FunctionInv, [Next]_vars PROVE FunctionInv'
  OBVIOUS
<1> USE TypeGroups, Successors, NothingIsNoRows, ProjectAssumption DEF TypeFiles, TypeTables, TypeRun, TypeRows, TypeCounts, Written, SourceInv, BuiltFor, FunctionInv, FunctionsResolve, Tabled, ModeFits, Recorded, Versions, Work, Ended, After, Srcs, files, db, run, history
<1>1. CASE EditDescription
  BY <1>1 DEF EditDescription
<1>2. CASE Crash
  BY <1>2 DEF Crash
<1>3. CASE Construct
  BY <1>3 DEF Construct, Read
<1>4. CASE Update
  BY <1>4 DEF Update, Read
<1>5. CASE Phase
  BY <1>5 DEF Phase, Go
<1>6. CASE Added
  BY <1>6 DEF Added
<1>7. CASE Recompile
  BY <1>7 DEF Recompile, Compiled
<1>8. CASE Record
  BY <1>8 DEF Record
<1>9. CASE Tables
  BY <1>9 DEF Tables, Go
<1>10. CASE WriteRow
  <2>1. UNCHANGED <<todo, plan, mode, funcs, src, libs, projrow, crashes>> /\ pc \in DOMAIN After
    BY <1>10 DEF WriteRow
  <2>2. CASE UNCHANGED rows /\ pc' = After[pc] /\ cur' = None
    BY <2>1, <2>2
  <2>3. ASSUME NEW row \in ArgRow, Append(rows[cur], row) \in Seq(ArgRow), UNCHANGED <<pc, cur>>,
               rows' = [rows EXCEPT ![cur] = Append(rows[cur], row)]
        PROVE  FunctionInv'
    <3>1. \A f \in Funcs : rows[f] # None => rows'[f] # None
      BY <2>3
    <3> QED BY <2>1, <2>3, <3>1
  <2> QED BY <1>10, <2>2, <2>3, NextRow
<1>11. CASE DeleteRow
  BY <1>11 DEF DeleteRow, Go
<1>12. CASE InsertRow
  BY <1>12 DEF InsertRow, Go
<1>13. CASE Fails
  BY <1>13 DEF Fails, Fail
<1>14. ASSUME NEW s \in Srcs, EditSource(s) PROVE FunctionInv'
  BY <1>14 DEF EditSource
<1>15. ASSUME NEW s \in Srcs, Build(s) PROVE FunctionInv'
  BY <1>15 DEF Build, Compiled
<1>16. ASSUME NEW s \in Srcs, Add(s) PROVE FunctionInv'
  BY <1>16 DEF Add, Compiled
<1>17. ASSUME NEW s \in Srcs, Check(s) PROVE FunctionInv'
  BY <1>17 DEF Check
<1>18. ASSUME NEW s \in Srcs, Known(s) PROVE FunctionInv'
  BY <1>18 DEF Known
<1>19. ASSUME NEW s \in Srcs, WriteSource(s) PROVE FunctionInv'
  BY <1>19 DEF WriteSource
<1>20. ASSUME NEW s \in Srcs, Library(s) PROVE FunctionInv'
  BY <1>20 DEF Library
<1>21. ASSUME NEW f \in Funcs, Function(f) PROVE FunctionInv'
  <2>1. /\ pc = "funcs" /\ f \in Described(plan) /\ funcs' = funcs \union {f}
        /\ src[Home[f]] # None /\ Home[f] \in libs
        /\ UNCHANGED <<src, libs, rows, projrow, mode, plan, crashes>>
    BY <1>21 DEF Function, Insertable
  <2>2. CASE mode = "construct" /\ UNCHANGED <<pc, cur>>
    BY <2>1, <2>2
  <2>3. CASE mode = "update" /\ pc' = "table" /\ cur' = f
    BY <2>1, <2>3
  <2> QED BY <1>21, <2>2, <2>3 DEF Function
<1>22. ASSUME NEW f \in Funcs, FunctionKnown(f) PROVE FunctionInv'
  BY <1>22 DEF FunctionKnown
<1>23. ASSUME NEW f \in Funcs, Table(f) PROVE FunctionInv'
  BY <1>23 DEF Table
<1>24. ASSUME NEW f \in Funcs, CompareArgs(f) PROVE FunctionInv'
  BY <1>24 DEF CompareArgs
<1>25. CASE UNCHANGED vars
  BY <1>25 DEF vars
<1> QED BY <1>1, <1>2, <1>3, <1>4, <1>5, <1>6, <1>7, <1>8, <1>9, <1>10, <1>11, <1>12, <1>13, <1>14, <1>15, <1>16, <1>17, <1>18, <1>19, <1>20, <1>21, <1>22, <1>23, <1>24, <1>25, Steps

-----------------------------------------------------------------------------
(* A command that ends.                                                    *)

Ending == {"cpt", "cptwrite", "proj", "projwrite", "done"}

\* With nothing edited since the command was started: the sources looked at so far are
\* recorded as they are.
FreshInv ==
  ~edited =>
    /\ mode # "none" => plan = desc
    /\ mode = "construct" => \A s \in Used(plan) : md5[s] = ver[s]
    /\ pc \in {"srcs", "check"} => \A s \in Used(plan) \ todo : src[s] = ver[s]
    /\ pc \in {"recompile", "record"} =>
         md5[cur] = ver[cur] /\ \A s \in Used(plan) \ (todo \union {cur}) : src[s] = ver[s]
    /\ pc \in DOMAIN After \union {"funcs", "table", "ftables", "args"} \union Ending
         \/ (pc = "libs" /\ mode = "construct")
         => \A s \in Used(plan) : src[s] = ver[s]
    /\ pc \in {"proj", "projwrite", "done"} => cptrow = desc

\* Every function described is filed in the end.
FiledInv ==
  /\ pc \in {"funcs", "table", "rows"} => Described(plan) \ todo \subseteq funcs
  /\ pc \in {"ftables", "args", "frows", "argrows"} \union Ending => Described(plan) \subseteq funcs
  /\ pc = "done" => projrow

\* An undisturbed run records each source as it is.
LEMMA FreshStep == TypeOK /\ ModeFits /\ SourceInv /\ FreshInv /\ [Next]_vars => FreshInv'
<1> SUFFICES ASSUME TypeOK /\ ModeFits /\ SourceInv /\ FreshInv, [Next]_vars PROVE FreshInv'
  OBVIOUS
<1> USE TypeGroups, Successors, UsedAreSources, ProjectAssumption DEF TypeFiles, TypeTables, TypeRun, FreshInv, Ending, ModeFits, Recorded, Versions, Work, Ended, After, files, db, run, history, SourceInv
<1>1. CASE EditDescription
  BY <1>1 DEF EditDescription
<1>2. CASE Crash
  BY <1>2 DEF Crash
<1>3. CASE Construct
  BY <1>3 DEF Construct, Read
<1>4. CASE Update
  BY <1>4 DEF Update, Read
<1>5. CASE Phase
  BY <1>5 DEF Phase, Go
<1>6. CASE Added
  BY <1>6 DEF Added
<1>7. CASE Recompile
  BY <1>7 DEF Recompile, Compiled
<1>8. CASE Record
  BY <1>8 DEF Record
<1>9. CASE Tables
  BY <1>9 DEF Tables, Go
<1>10. CASE WriteRow
  BY <1>10 DEF WriteRow
<1>11. CASE DeleteRow
  BY <1>11 DEF DeleteRow, Go
<1>12. CASE InsertRow
  BY <1>12 DEF InsertRow, Go
<1>13. CASE Fails
  BY <1>13 DEF Fails, Fail
<1>14. ASSUME NEW s \in Srcs, EditSource(s) PROVE FreshInv'
  BY <1>14 DEF EditSource
<1>15. ASSUME NEW s \in Srcs, Build(s) PROVE FreshInv'
  BY <1>15 DEF Build, Compiled
<1>16. ASSUME NEW s \in Srcs, Add(s) PROVE FreshInv'
  BY <1>16 DEF Add, Compiled
<1>17. ASSUME NEW s \in Srcs, Check(s) PROVE FreshInv'
  BY <1>17 DEF Check
<1>18. ASSUME NEW s \in Srcs, Known(s) PROVE FreshInv'
  BY <1>18 DEF Known
<1>19. ASSUME NEW s \in Srcs, WriteSource(s) PROVE FreshInv'
  BY <1>19 DEF WriteSource
<1>20. ASSUME NEW s \in Srcs, Library(s) PROVE FreshInv'
  BY <1>20 DEF Library
<1>21. ASSUME NEW f \in Funcs, Function(f) PROVE FreshInv'
  BY <1>21 DEF Function
<1>22. ASSUME NEW f \in Funcs, FunctionKnown(f) PROVE FreshInv'
  BY <1>22 DEF FunctionKnown
<1>23. ASSUME NEW f \in Funcs, Table(f) PROVE FreshInv'
  BY <1>23 DEF Table
<1>24. ASSUME NEW f \in Funcs, CompareArgs(f) PROVE FreshInv'
  BY <1>24 DEF CompareArgs
<1>25. CASE UNCHANGED vars
  BY <1>25 DEF vars
<1> QED BY <1>1, <1>2, <1>3, <1>4, <1>5, <1>6, <1>7, <1>8, <1>9, <1>10, <1>11, <1>12, <1>13, <1>14, <1>15, <1>16, <1>17, <1>18, <1>19, <1>20, <1>21, <1>22, <1>23, <1>24, <1>25, Steps

\* No loop ends before every described function is filed.
LEMMA FiledStep == TypeOK /\ ModeFits /\ FiledInv /\ [Next]_vars => FiledInv'
<1> SUFFICES ASSUME TypeOK /\ ModeFits /\ FiledInv, [Next]_vars PROVE FiledInv'
  OBVIOUS
<1> USE TypeGroups, Successors, ProjectAssumption DEF TypeRun, FiledInv, Ending, ModeFits, Work, Ended, After, files, db, run, history
<1>1. CASE EditDescription
  BY <1>1 DEF EditDescription
<1>2. CASE Crash
  BY <1>2 DEF Crash
<1>3. CASE Construct
  BY <1>3 DEF Construct, Read
<1>4. CASE Update
  BY <1>4 DEF Update, Read
<1>5. CASE Phase
  BY <1>5 DEF Phase, Go
<1>6. CASE Added
  BY <1>6 DEF Added
<1>7. CASE Recompile
  BY <1>7 DEF Recompile, Compiled
<1>8. CASE Record
  BY <1>8 DEF Record
<1>9. CASE Tables
  BY <1>9 DEF Tables, Go
<1>10. CASE WriteRow
  BY <1>10 DEF WriteRow
<1>11. CASE DeleteRow
  BY <1>11 DEF DeleteRow, Go
<1>12. CASE InsertRow
  BY <1>12 DEF InsertRow, Go
<1>13. CASE Fails
  BY <1>13 DEF Fails, Fail
<1>14. ASSUME NEW s \in Srcs, EditSource(s) PROVE FiledInv'
  BY <1>14 DEF EditSource
<1>15. ASSUME NEW s \in Srcs, Build(s) PROVE FiledInv'
  BY <1>15 DEF Build, Compiled
<1>16. ASSUME NEW s \in Srcs, Add(s) PROVE FiledInv'
  BY <1>16 DEF Add, Compiled
<1>17. ASSUME NEW s \in Srcs, Check(s) PROVE FiledInv'
  BY <1>17 DEF Check
<1>18. ASSUME NEW s \in Srcs, Known(s) PROVE FiledInv'
  BY <1>18 DEF Known
<1>19. ASSUME NEW s \in Srcs, WriteSource(s) PROVE FiledInv'
  BY <1>19 DEF WriteSource
<1>20. ASSUME NEW s \in Srcs, Library(s) PROVE FiledInv'
  BY <1>20 DEF Library
<1>21. ASSUME NEW f \in Funcs, Function(f) PROVE FiledInv'
  BY <1>21 DEF Function
<1>22. ASSUME NEW f \in Funcs, FunctionKnown(f) PROVE FiledInv'
  BY <1>22 DEF FunctionKnown
<1>23. ASSUME NEW f \in Funcs, Table(f) PROVE FiledInv'
  BY <1>23 DEF Table
<1>24. ASSUME NEW f \in Funcs, CompareArgs(f) PROVE FiledInv'
  BY <1>24 DEF CompareArgs
<1>25. CASE UNCHANGED vars
  BY <1>25 DEF vars
<1> QED BY <1>1, <1>2, <1>3, <1>4, <1>5, <1>6, <1>7, <1>8, <1>9, <1>10, <1>11, <1>12, <1>13, <1>14, <1>15, <1>16, <1>17, <1>18, <1>19, <1>20, <1>21, <1>22, <1>23, <1>24, <1>25, Steps

-----------------------------------------------------------------------------
(* The comparison of arguments.                                            *)

\* A prefix is told by its elements.
LEMMA PrefixByElements ==
  ASSUME NEW S, NEW s \in Seq(S), NEW t \in Seq(S)
  PROVE  IsPrefix(s, t) <=> Len(s) <= Len(t) /\ \A i \in 1 .. Len(s) : s[i] = t[i]
<1>1. Len(s) \in Nat /\ Len(t) \in Nat
  BY LenProperties
<1>2. SubSeq(s, 1, Len(s)) = s
  BY SubSeqFull
<1>3. ASSUME Len(s) <= Len(t)
      PROVE  SubSeq(s, 1, Len(s)) = SubSeq(t, 1, Len(s)) <=> \A i \in 1 .. Len(s) : s[i] = t[i]
  <2>1. \A i \in 1 .. Len(s) : t[i] \in S
    BY <1>1, <1>3, ElementOfSeq
  <2>2. /\ SubSeq(t, 1, Len(s)) \in Seq(S) /\ Len(SubSeq(t, 1, Len(s))) = Len(s)
        /\ \A i \in 1 .. Len(s) : SubSeq(t, 1, Len(s))[i] = t[i]
    BY <1>1, <2>1
  <2>3. (\A i \in 1 .. Len(s) : s[i] = t[i]) => s = SubSeq(t, 1, Len(s))
    BY <2>2, SeqEqual
  <2> QED BY <1>2, <2>2, <2>3
<1> QED BY <1>3 DEF IsPrefix

\* Writing the next wanted row keeps a prefix.
LEMMA PrefixSteps ==
  ASSUME NEW S, NEW s \in Seq(S), NEW t \in Seq(S)
  PROVE  /\ IsPrefix(<<>>, t)
         /\ IsPrefix(s, t) /\ Len(s) = Len(t) => IsPrefix(t, s)
         /\ IsPrefix(s, t) /\ Len(s) < Len(t) => IsPrefix(Append(s, t[Len(s) + 1]), t)
<1>1. Len(s) \in Nat /\ Len(t) \in Nat /\ <<>> \in Seq(S) /\ Len(<<>>) = 0
  BY LenProperties, EmptySeq
<1>2. IsPrefix(<<>>, t)
  <2>1. Len(<<>>) <= Len(t) /\ 1 .. Len(<<>>) = {}
    BY <1>1
  <2> QED BY <1>1, <2>1, PrefixByElements, Zenon
<1>3. IsPrefix(s, t) /\ Len(s) = Len(t) => IsPrefix(t, s)
  BY <1>1, PrefixByElements
<1>4. ASSUME IsPrefix(s, t), Len(s) < Len(t) PROVE IsPrefix(Append(s, t[Len(s) + 1]), t)
  <2> DEFINE x == t[Len(s) + 1]
  <2>1. x \in S
    BY <1>1, <1>4, ElementOfSeq
  <2> HIDE DEF x
  <2>2. /\ Append(s, x) \in Seq(S) /\ Len(Append(s, x)) = Len(s) + 1
        /\ \A i \in 1 .. Len(s) + 1 : Append(s, x)[i] = IF i <= Len(s) THEN s[i] ELSE x
    BY <1>1, <2>1
  <2>3. \A i \in 1 .. Len(s) : s[i] = t[i]
    BY <1>4, PrefixByElements
  <2>4. ASSUME NEW i \in 1 .. Len(Append(s, x)) PROVE Append(s, x)[i] = t[i]
    BY <1>1, <2>2, <2>3 DEF x
  <2>5. Len(Append(s, x)) <= Len(t)
    BY <1>1, <1>4, <2>2
  <2>6. IsPrefix(Append(s, x), t)
    BY <2>2, <2>4, <2>5, PrefixByElements
  <2> QED BY <2>6 DEF x
<1> QED BY <1>2, <1>3, <1>4

\* The least difference is one.
LEMMA LeastIsIn ==
  ASSUME NEW T \in SUBSET Nat, T # {}
  PROVE  Min(T) \in T
<1> DEFINE less == {ss \in Nat \X Nat : ss[1] < ss[2]}
<1>1. IsWellFoundedOn(less, Nat)
  BY NatLessThanWellFounded DEF OpToRel
<1>2. PICK x \in T : \A y \in T : <<y, x>> \notin less
  BY <1>1, WFMin
<1>3. ASSUME NEW y \in T PROVE x <= y
  <2>1. x \in Nat /\ y \in Nat /\ <<y, x>> \notin less
    BY <1>2
  <2>2. ~(y < x)
    BY <2>1
  <2> QED BY <2>1, <2>2
<1> QED BY <1>3 DEF Min

\* A comparison that has found no difference has found the wanted rows in their places.
LEMMA AllAgree ==
  ASSUME NEW list \in Seq(ArgRow), NEW from \in Nat, NEW wanted \in Seq(ArgRow)
  PROVE  /\ Agreeing(list, from, wanted) \in Nat
         /\ Agreeing(list, from, wanted) >= Len(wanted) =>
              /\ Agreeing(list, from, wanted) = Len(wanted)
              /\ \A k \in 1 .. Len(wanted) : from + k <= Len(list) /\ list[from + k] = wanted[k]
<1> DEFINE wrong == {k \in DOMAIN wanted : from + k > Len(list) \/ list[from + k] # wanted[k]}
<1>1. Len(wanted) \in Nat /\ Len(list) \in Nat /\ DOMAIN wanted = 1 .. Len(wanted)
  BY LenProperties
<1>2. CASE wrong = {}
  <2>1. Agreeing(list, from, wanted) = Len(wanted)
    BY <1>2 DEF Agreeing
  <2>2. \A k \in 1 .. Len(wanted) : from + k <= Len(list) /\ list[from + k] = wanted[k]
    BY <1>1, <1>2
  <2> QED BY <1>1, <2>1, <2>2
<1>3. CASE wrong # {}
  <2>0. wrong \in SUBSET Nat
    BY <1>1
  <2>1. Min(wrong) \in wrong
    BY <2>0, <1>3, LeastIsIn
  <2>2. Agreeing(list, from, wanted) = Min(wrong) - 1
    BY <1>3 DEF Agreeing
  <2>3. Min(wrong) \in 1 .. Len(wanted)
    BY <1>1, <2>1
  <2> HIDE DEF wrong
  <2> QED BY <1>1, <2>2, <2>3
<1> QED BY <1>2, <1>3

\* What CompareArgs leaves alone agrees with the description.
Agrees(f) == IsPrefix(RowsOf(plan[f]), Stored(f))

\* If neither loop of the comparison finds a difference, the stored rows begin with the
\* wanted ones.
LEMMA UnchangedAgrees ==
  ASSUME TypeOK, NEW f \in Described(plan), ~ArgsChanged(f)
  PROVE  Agrees(f)
<1> DEFINE d == plan[f]  list == Stored(f)
<1>1. f \in Funcs /\ d \in [in : Seq(Names), out : Seq(Names)]
  BY PlanRows
<1>2. list \in Seq(ArgRow)
  BY <1>1, EmptySeq, TypeGroups DEF Stored, TypeRows
<1>3. /\ RowsIn(d) \in Seq(ArgRow) /\ Len(RowsIn(d)) = Len(d.in)
      /\ RowsOut(d) \in Seq(ArgRow) /\ Len(RowsOut(d)) = Len(d.out)
      /\ RowsOf(d) \in Seq(ArgRow)
  BY <1>1, RowsAreRows
<1>4. Len(RowsIn(d)) \in Nat /\ Len(RowsOut(d)) \in Nat /\ Len(list) \in Nat
  BY <1>2, <1>3, LenProperties
<1> DEFINE same == Agreeing(list, 0, RowsIn(d))
<1>5. same = Len(RowsIn(d)) /\ \A k \in 1 .. Len(RowsIn(d)) : k <= Len(list) /\ list[k] = RowsIn(d)[k]
  <2>1. same \in Nat /\ ~(same < Len(RowsIn(d)))
    BY <1>2, <1>3, AllAgree DEF ArgsChanged
  <2>2. same >= Len(RowsIn(d))
    BY <2>1, <1>4
  <2>3. /\ same = Len(RowsIn(d))
        /\ \A k \in 1 .. Len(RowsIn(d)) : 0 + k <= Len(list) /\ list[0 + k] = RowsIn(d)[k]
    BY <1>2, <1>3, <2>2, AllAgree, ZenonT(60)
  <2> QED BY <2>3
<1>6. \A k \in 1 .. Len(RowsOut(d)) :
        Len(RowsIn(d)) + k <= Len(list) /\ list[Len(RowsIn(d)) + k] = RowsOut(d)[k]
  <2> DEFINE rest == Agreeing(list, Len(RowsIn(d)), RowsOut(d))
  <2>1. rest \in Nat /\ ~(rest < Len(RowsOut(d)))
    BY <1>2, <1>3, <1>4, <1>5, AllAgree DEF ArgsChanged
  <2>2. rest >= Len(RowsOut(d))
    BY <2>1, <1>4
  <2> QED BY <1>2, <1>3, <1>4, <2>2, AllAgree
<1>7. /\ Len(RowsOf(d)) = Len(RowsIn(d)) + Len(RowsOut(d))
      /\ \A i \in 1 .. Len(RowsIn(d)) + Len(RowsOut(d)) : RowsOf(d)[i] =
           IF i <= Len(RowsIn(d)) THEN RowsIn(d)[i] ELSE RowsOut(d)[i - Len(RowsIn(d))]
  BY <1>3, ConcatProperties, Zenon DEF RowsOf
<1> HIDE DEF d, list, same
<1>8. Len(RowsOf(d)) <= Len(list)
  <2>1. CASE Len(RowsOut(d)) = 0
    <3>1. CASE Len(RowsIn(d)) = 0
      BY <1>4, <1>7, <2>1, <3>1
    <3>2. CASE Len(RowsIn(d)) # 0
      BY <1>4, <1>5, <1>7, <2>1, <3>2
    <3> QED BY <3>1, <3>2
  <2>2. CASE Len(RowsOut(d)) # 0
    BY <1>4, <1>6, <1>7, <2>2
  <2> QED BY <2>1, <2>2
<1>9. ASSUME NEW i \in 1 .. Len(RowsOf(d)) PROVE RowsOf(d)[i] = list[i]
  <2>1. CASE i <= Len(RowsIn(d))
    BY <1>4, <1>5, <1>7, <2>1
  <2>2. CASE ~(i <= Len(RowsIn(d)))
    <3>1. i - Len(RowsIn(d)) \in 1 .. Len(RowsOut(d))
      BY <1>4, <1>7, <2>2
    <3>2. list[Len(RowsIn(d)) + (i - Len(RowsIn(d)))] = RowsOut(d)[i - Len(RowsIn(d))]
      BY <1>6, <3>1
    <3>3. Len(RowsIn(d)) + (i - Len(RowsIn(d))) = i
      BY <1>4, <1>7
    <3> QED BY <1>7, <2>2, <3>2, <3>3
  <2> QED BY <2>1, <2>2
<1>10. IsPrefix(RowsOf(d), list)
  BY <1>2, <1>3, <1>8, <1>9, PrefixByElements
<1> QED BY <1>10 DEF Agrees, d, list

-----------------------------------------------------------------------------
ArgsInv ==
  /\ pc \in {"ftables", "args"} => \A f \in Described(plan) \ todo : Agrees(f)
  /\ pc \in {"frows", "argrows"} => \A f \in Described(plan) \ (todo \union {cur}) : Agrees(f)
  /\ pc \in DOMAIN After => IsPrefix(rows[cur], RowsOf(plan[cur]))
  /\ pc \in Ending => \A f \in Described(plan) : Agrees(f)

\* What the argument loops have visited agrees with the description.
LEMMA ArgsStep == TypeOK /\ ModeFits /\ Written /\ ArgsInv /\ [Next]_vars => ArgsInv'
<1> SUFFICES ASSUME TypeOK /\ ModeFits /\ Written /\ ArgsInv, [Next]_vars PROVE ArgsInv'
  OBVIOUS
<1> USE TypeGroups, Successors, NothingIsNoRows DEF TypeRun, ArgsInv, Agrees, Stored, Written, Ending, ModeFits, Work, Ended, After, files, db, run, history
<1>1. CASE EditDescription
  BY <1>1 DEF EditDescription
<1>2. CASE Crash
  BY <1>2 DEF Crash
<1>3. CASE Construct
  BY <1>3 DEF Construct, Read
<1>4. CASE Update
  BY <1>4 DEF Update, Read
<1>5. CASE Phase
  BY <1>5 DEF Phase, Go
<1>6. CASE Added
  BY <1>6 DEF Added
<1>7. CASE Recompile
  BY <1>7 DEF Recompile, Compiled
<1>8. CASE Record
  BY <1>8 DEF Record
<1>9. CASE Tables
  BY <1>9 DEF Tables, Go
<1>10. CASE WriteRow
  <2>1. UNCHANGED <<todo, plan, mode>> /\ pc \in DOMAIN After
    BY <1>10 DEF WriteRow
  <2>2. /\ cur \in Funcs /\ rows[cur] \in Seq(ArgRow) /\ RowsOf(plan[cur]) \in Seq(ArgRow)
        /\ IsPrefix(rows[cur], RowsOf(plan[cur]))
    BY <1>10, <2>1, NextRow, PlanRows
  <2>3. CASE UNCHANGED rows /\ Len(rows[cur]) = Len(RowsOf(plan[cur])) /\ pc' = After[pc] /\ cur' = None
    <3>1. Agrees(cur)
      BY <2>2, <2>3, PrefixSteps
    <3> QED BY <2>1, <2>3, <3>1
  <2>4. ASSUME NEW row \in ArgRow, UNCHANGED <<pc, cur>>,
               Len(rows[cur]) < Len(RowsOf(plan[cur])), row = RowsOf(plan[cur])[Len(rows[cur]) + 1],
               rows' = [rows EXCEPT ![cur] = Append(rows[cur], row)]
        PROVE  ArgsInv'
    <3>1. IsPrefix(Append(rows[cur], row), RowsOf(plan[cur]))
      BY <2>2, <2>4, PrefixSteps
    <3>2. rows'[cur] = Append(rows[cur], row) /\ \A f \in Funcs \ {cur} : rows'[f] = rows[f]
      BY <2>2, <2>4 DEF TypeRows
    <3> QED BY <2>1, <2>4, <3>1, <3>2 DEF Described
  <2> QED BY <1>10, <2>3, <2>4, NextRow
<1>11. CASE DeleteRow
  BY <1>11 DEF DeleteRow, Go
<1>12. CASE InsertRow
  BY <1>12 DEF InsertRow, Go
<1>13. CASE Fails
  BY <1>13 DEF Fails, Fail
<1>14. ASSUME NEW s \in Srcs, EditSource(s) PROVE ArgsInv'
  BY <1>14 DEF EditSource
<1>15. ASSUME NEW s \in Srcs, Build(s) PROVE ArgsInv'
  BY <1>15 DEF Build, Compiled
<1>16. ASSUME NEW s \in Srcs, Add(s) PROVE ArgsInv'
  BY <1>16 DEF Add, Compiled
<1>17. ASSUME NEW s \in Srcs, Check(s) PROVE ArgsInv'
  BY <1>17 DEF Check
<1>18. ASSUME NEW s \in Srcs, Known(s) PROVE ArgsInv'
  BY <1>18 DEF Known
<1>19. ASSUME NEW s \in Srcs, WriteSource(s) PROVE ArgsInv'
  BY <1>19 DEF WriteSource
<1>20. ASSUME NEW s \in Srcs, Library(s) PROVE ArgsInv'
  BY <1>20 DEF Library
<1>21. ASSUME NEW f \in Funcs, Function(f) PROVE ArgsInv'
  BY <1>21 DEF Function
<1>22. ASSUME NEW f \in Funcs, FunctionKnown(f) PROVE ArgsInv'
  BY <1>22 DEF FunctionKnown
<1>23. ASSUME NEW f \in Funcs, Table(f) PROVE ArgsInv'
  <2>1. /\ f \in Described(plan) /\ rows'[f] = <<>> /\ cur' = f
        /\ \A g \in Funcs \ {f} : rows'[g] = rows[g]
    BY <1>23 DEF Table, TypeRows
  <2>2. IsPrefix(<<>>, RowsOf(plan[f]))
    BY <2>1, PlanRows, EmptySeq, PrefixSteps
  <2>3. pc' = "rows" \/ (pc = "ftables" /\ pc' = "frows" /\ todo' = todo \ {f})
    BY <1>23 DEF Table
  <2>4. UNCHANGED <<mode, plan>>
    BY <1>23 DEF Table
  <2> QED BY <2>1, <2>2, <2>3, <2>4 DEF Described
<1>24. ASSUME NEW f \in Funcs, CompareArgs(f) PROVE ArgsInv'
  <2>1. pc = "args" /\ f \in Described(plan) /\ todo' = todo \ {f} /\ UNCHANGED <<mode, plan>>
    BY <1>24 DEF CompareArgs
  <2>2. CASE ArgsChanged(f) /\ rows' = [rows EXCEPT ![f] = <<>>] /\ pc' = "argrows" /\ cur' = f
    <3>1. rows'[f] = <<>> /\ \A g \in Funcs \ {f} : rows'[g] = rows[g]
      BY <2>2 DEF TypeRows
    <3>2. IsPrefix(<<>>, RowsOf(plan[f]))
      BY <2>1, PlanRows, EmptySeq, PrefixSteps
    <3> QED BY <2>1, <2>2, <3>1, <3>2 DEF Described
  <2>3. CASE ~ArgsChanged(f) /\ UNCHANGED <<rows, pc, cur>>
    <3>1. Agrees(f)
      BY <2>1, <2>3, UnchangedAgrees
    <3> QED BY <2>1, <2>3, <3>1
  <2> QED BY <1>24, <2>2, <2>3 DEF CompareArgs
<1>25. CASE UNCHANGED vars
  BY <1>25 DEF vars
<1> QED BY <1>1, <1>2, <1>3, <1>4, <1>5, <1>6, <1>7, <1>8, <1>9, <1>10, <1>11, <1>12, <1>13, <1>14, <1>15, <1>16, <1>17, <1>18, <1>19, <1>20, <1>21, <1>22, <1>23, <1>24, <1>25, Steps

-----------------------------------------------------------------------------
Inv ==
  /\ TypeOK /\ ModeFits /\ Written
  /\ SourceInv /\ FunctionInv
  /\ FreshInv /\ FiledInv /\ ArgsInv

\* The invariant holds at first ...
LEMMA InitInv == Init => Inv
<1> SUFFICES ASSUME Init PROVE Inv
  OBVIOUS
<1>1. SourceInv /\ FunctionInv
  BY ProjectAssumption DEF Init, SourceInv, FunctionInv, RecordedIsBuilt, FunctionsResolve
<1>2. FreshInv /\ FiledInv /\ ArgsInv
  BY DEF Init, FreshInv, FiledInv, ArgsInv, Ending, After
<1> QED BY <1>1, <1>2, InitTyped DEF Inv

\* ... its types are kept ...
LEMMA NextType == TypeOK /\ ModeFits /\ Written /\ [Next]_vars => TypeOK'
<1> SUFFICES ASSUME TypeOK, ModeFits, Written, [Next]_vars PROVE TypeOK'
  OBVIOUS
<1>1. TypeFiles' /\ TypeTables' /\ TypeRun' /\ TypeRows'
  BY FilesType, TablesType, RunType, RowsType, TypeGroups
<1>2. TypeCounts' /\ TypeSwitches'
  BY CountsType, SwitchesType, TypeGroups
<1> QED BY <1>1, <1>2
  DEF TypeOK, TypeFiles, TypeTables, TypeRows, TypeRun, TypeCounts, TypeSwitches

\* ... and so it always holds.
LEMMA Invariance == Spec => []Inv
<1>1. Inv /\ [Next]_vars => Inv'
  BY NextType, RunType, RowsType, SourceStep, FunctionStep, FreshStep, FiledStep, ArgsStep DEF Inv
<1> QED BY <1>1, InitInv, PTL DEF Spec

-----------------------------------------------------------------------------
\* The files, the database and the running command keep their types (TypeOK), wherever
\* construct and update fail or are killed.
THEOREM TypeCorrect == Spec => []TypeOK
<1>1. Inv => TypeOK
  BY DEF Inv
<1> QED BY <1>1, Invariance, PTL

\* RecordedIsBuilt: write_src_info and UpdateProcess never record an MD5 newer than
\* what the library was compiled from, but for a source edited while it was added.
THEOREM BuiltBeforeRecorded == Spec => []RecordedIsBuilt
<1>1. Inv => RecordedIsBuilt
  BY DEF Inv, SourceInv
<1> QED BY <1>1, Invariance, PTL

\* FunctionsResolve: write_func_info files a function only after the rows it refers to,
\* and nothing takes them away again.
THEOREM FilesOfFunctions == Spec => []FunctionsResolve
<1>1. Inv => FunctionsResolve
  BY DEF Inv, FunctionInv
<1> QED BY <1>1, Invariance, PTL

\* CompletedAgrees: a construct or an update that comes to its end without an edit has
\* brought the libraries and every table up to date, whatever earlier runs have left.
THEOREM CompletedIsRight == Spec => []CompletedAgrees
<1>1. Inv => CompletedAgrees
  <2> SUFFICES ASSUME Inv, pc = "done", ~edited
               PROVE  /\ \A s \in Used(desc) :
                           s \in libs /\ src[s] = ver[s] /\ (built[s] = ver[s] \/ s \in slipped)
                      /\ \A f \in Described(desc) : f \in funcs /\ IsPrefix(RowsOf(desc[f]), Stored(f))
                      /\ cptrow = desc /\ projrow
    BY Zenon DEF CompletedAgrees
  <2>1. plan = desc /\ cptrow = desc /\ \A s \in Used(desc) : src[s] = ver[s]
    BY DEF Inv, FreshInv, Ending, ModeFits
  <2>2. Described(desc) \subseteq funcs /\ projrow
    BY <2>1 DEF Inv, FiledInv, Ending
  <2>3. \A f \in Described(desc) : IsPrefix(RowsOf(desc[f]), Stored(f))
    BY <2>1 DEF Inv, ArgsInv, Agrees, Ending
  <2>4. ASSUME NEW s \in Used(desc) PROVE s \in libs
    BY <2>2 DEF Inv, FunctionInv, FunctionsResolve, Used
  <2>5. ASSUME NEW s \in Used(desc) PROVE built[s] = ver[s] \/ s \in slipped
    <3>1. s \in Srcs /\ ver[s] \in Versions /\ built[s] \in Recorded /\ src[s] = ver[s]
      BY <2>1, UsedAreSources DEF Inv, TypeOK
    <3>2. ver[s] # None
      BY <3>1, ProjectAssumption
    <3>3. built[s] # None /\ (built[s] >= ver[s] \/ s \in slipped) /\ built[s] <= ver[s]
      BY <3>1, <3>2 DEF Inv, SourceInv, RecordedIsBuilt
    <3> QED BY <3>1, <3>3 DEF Recorded, Versions
  <2> QED BY <2>1, <2>2, <2>3, <2>4, <2>5
<1> QED BY <1>1, Invariance, PTL
=============================================================================
