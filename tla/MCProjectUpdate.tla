--------------------------- MODULE MCProjectUpdate ---------------------------
(* Two source files and two functions; the description gains a function,    *)
(* gains and loses arguments, and the first file has a version that does    *)
(* not compile.                                                             *)
EXTENDS ProjectUpdate

MCHome == [f \in Funcs |-> IF f = "sum" THEN "a.cpp" ELSE "b.cpp"]

Args(in, out) == [in |-> in, out |-> out]
MCDescriptions ==
  {[sum |-> Args(<<"x">>, <<"r">>), mean |-> None],
   [sum |-> Args(<<"x", "y">>, <<"r">>), mean |-> Args(<<"n">>, <<>>)],
   [sum |-> Args(<<"x">>, <<"s">>), mean |-> Args(<<"n">>, <<>>)]}

MCBad == {<<"a.cpp", 2>>}
=============================================================================
