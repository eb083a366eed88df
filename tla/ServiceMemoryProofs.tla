------------------------ MODULE ServiceMemoryProofs -------------------------
(***************************************************************************)
(* Proofs about ServiceMemory, for any number of connections, commands and *)
(* registrations.                                                          *)
(***************************************************************************)
EXTENDS ServiceMemory, TLAPS

Contents == [is : {"old", "ping", "info"}, flags : SUBSET Flags]

-----------------------------------------------------------------------------
(* Type correctness, by groups of variables.                               *)

\* The parts of TypeOK: counters, Booleans, memory, places.
TypeCounters == cmds \in 0 .. MaxCmds /\ pings \in 0 .. cmds /\ jres \in 0 .. MaxJres
TypeSwitches == accepts \in BOOLEAN /\ active \in BOOLEAN
TypeMemory ==
  /\ tag \in Tags
  /\ {body, shown} \subseteq Contents
  /\ info \subseteq Flags /\ pid \in [Flags -> Conns \union {None}]
  /\ since \subseteq SUBSET Flags
  /\ spoilt \subseteq {"overwritten", "stale", "torn", "gone", "crashed", "pipe"}
TypePlaces ==
  /\ shell \in {"waitok", "prompt", "status", "clear", "stop", "ping", "ended"}
  /\ child \in {"boot", "loop", "tag", "copy", "exit", "sext", "gone"}
  /\ kill \subseteq Conns
  /\ conn \in [Conns -> {"none", "new", "recv", "send", "take", "done", "over"} \union Flags]
  /\ out \in [Conns -> [ping : Nat, other : Nat]]

\* The type invariant in groups, each with a proof of its own.
LEMMA TypeGroups == TypeOK <=> TypeCounters /\ TypeSwitches /\ TypeMemory /\ TypePlaces
BY DEF TypeOK, TypeCounters, TypeSwitches, TypeMemory, TypePlaces, Contents

\* The types hold at first.
LEMMA InitType == Init => TypeOK
<1> SUFFICES ASSUME Init PROVE TypeOK
  OBVIOUS
<1>1. TypeCounters
  <2>1. 0 \in 0 .. MaxCmds /\ 0 \in 0 .. 0 /\ 0 \in 0 .. MaxJres
    BY ServiceAssumption
  <2> QED BY <2>1, Zenon DEF Init, TypeCounters
<1>2. TypeSwitches
  BY Zenon DEF Init, TypeSwitches
<1>3. TypeMemory
  <2>1. body \in Contents /\ shown = body
    BY DEF Init, Contents, Content
  <2>2. pid \in [Flags -> Conns \union {None}]
    BY DEF Init
  <2> QED BY <2>1, <2>2 DEF Init, TypeMemory
<1>4. TypePlaces
  BY DEF Init, TypePlaces
<1> QED BY <1>1, <1>2, <1>3, <1>4, TypeGroups

\* Who changes the counters and the switches.
LEMMA WhoCounts ==
  ASSUME [Next]_vars
  PROVE  /\ Status \/ Stop \/ Ping \/ (\E c \in Conns : Jres(c)) \/ UNCHANGED <<cmds, pings, jres>>
         /\ SeeExit \/ (\E c \in Conns : BrokenPipe(c)) \/ UNCHANGED <<accepts, active>>
BY DEF Next, vars, shellvars, ctlvars, connvars,
         Ready, Status, StatusRead, StatusClear, Stop, Stopped, Ping, PingTag, Quit,
         Boot, SeeAsk, AnswerTag, AnswerCopy, SeeExit, Sext, Gone,
         Accept, Receiving, Sending, Jres, Beat, Named, See, Take, Clear, End, Cancelled,
         BrokenPipe, Command, SetFlag

\* Every step keeps the types of the counters ...
LEMMA CountersType == TypeCounters /\ [Next]_vars => TypeCounters'
<1> SUFFICES ASSUME TypeCounters, [Next]_vars PROVE TypeCounters'
  OBVIOUS
<1> USE ServiceAssumption DEF TypeCounters
<1>1. CASE Status \/ Stop
  BY <1>1 DEF Status, Stop, Command
<1>2. CASE Ping
  BY <1>2 DEF Ping, Command
<1>3. CASE \E c \in Conns : Jres(c)
  BY <1>3 DEF Jres, shellvars
<1>4. CASE UNCHANGED <<cmds, pings, jres>>
  BY <1>4
<1> QED BY <1>1, <1>2, <1>3, <1>4, WhoCounts

\* ... of the flags ...
LEMMA SwitchesType == TypeSwitches /\ [Next]_vars => TypeSwitches'
<1> SUFFICES ASSUME TypeSwitches, [Next]_vars PROVE TypeSwitches'
  OBVIOUS
<1>1. CASE SeeExit
  BY <1>1, Zenon DEF SeeExit, TypeSwitches
<1>2. CASE UNCHANGED <<accepts, active>>
  BY <1>2, Zenon DEF TypeSwitches
<1>3. CASE \E c \in Conns : BrokenPipe(c)
  BY <1>3, Zenon DEF BrokenPipe, TypeSwitches
<1> QED BY <1>1, <1>2, <1>3, WhoCounts

\* ... of the shared block ...
LEMMA MemoryType == TypeOK /\ [Next]_vars => TypeMemory'
<1> SUFFICES ASSUME TypeOK, [Next]_vars PROVE TypeMemory'
  OBVIOUS
<1> USE TypeGroups, ServiceAssumption DEF TypeMemory, Contents, Tags, Awaited, Flags, shellvars, ctlvars, connvars
<1>1. CASE Ready
  BY <1>1 DEF Ready
<1>2. CASE Status
  <2>1. /\ tag' = "CIFO" /\ since' = {info} /\ UNCHANGED <<body, shown, info, pid>>
        /\ spoilt' \subseteq spoilt \union {"gone"}
    BY <1>2 DEF Status, Command
  <2> HIDE DEF Contents
  <2> QED BY <2>1
<1>3. CASE StatusRead
  BY <1>3 DEF StatusRead, Content
<1>4. CASE StatusClear
  BY <1>4 DEF StatusClear
<1>5. CASE Stop
  BY <1>5 DEF Stop, Command
<1>6. CASE Stopped
  BY <1>6 DEF Stopped
<1>7. CASE Ping
  <2>1. body' \in Contents /\ shown' = shown
    BY <1>7 DEF Ping, Content, Contents, Flags
  <2>2. tag' = "WAIT" /\ UNCHANGED <<info, pid, since>> /\ spoilt' \subseteq spoilt \union {"gone"}
    BY <1>7 DEF Ping, Command
  <2> QED BY <2>1, <2>2
<1>8. CASE PingTag
  BY <1>8 DEF PingTag
<1>9. CASE Quit
  BY <1>9 DEF Quit
<1>10. CASE Boot
  BY <1>10 DEF Boot, Overwrite, Awaited
<1>11. CASE SeeAsk
  BY <1>11 DEF SeeAsk
<1>12. CASE AnswerTag
  BY <1>12 DEF AnswerTag
<1>13. CASE AnswerCopy
  <2>1. body' \in Contents /\ shown' = shown
    BY <1>13 DEF AnswerCopy, Content, Contents, Flags
  <2>2. UNCHANGED <<tag, info, pid, since>> /\ spoilt' \subseteq spoilt \union {"torn"}
    BY <1>13 DEF AnswerCopy
  <2> QED BY <2>1, <2>2
<1>14. CASE SeeExit
  BY <1>14 DEF SeeExit
<1>15. CASE Sext
  BY <1>15 DEF Sext
<1>16. CASE Gone
  BY <1>16 DEF Gone
<1>17. ASSUME NEW c \in Conns, Accept(c) PROVE TypeMemory'
  BY <1>17 DEF Accept
<1>18. ASSUME NEW c \in Conns, Receiving(c) PROVE TypeMemory'
  BY <1>18 DEF Receiving
<1>19. ASSUME NEW c \in Conns, Sending(c) PROVE TypeMemory'
  BY <1>19 DEF Sending, SetFlag
<1>20. ASSUME NEW c \in Conns, Jres(c) PROVE TypeMemory'
  BY <1>20 DEF Jres, Overwrite, Awaited
<1>21. ASSUME NEW c \in Conns, Beat(c) PROVE TypeMemory'
  BY <1>21 DEF Beat, SetFlag
<1>22. ASSUME NEW c \in Conns, Named(c) PROVE TypeMemory'
  BY <1>22 DEF Named
<1>23. ASSUME NEW c \in Conns, See(c) PROVE TypeMemory'
  BY <1>23 DEF See
<1>24. ASSUME NEW c \in Conns, Take(c) PROVE TypeMemory'
  BY <1>24 DEF Take
<1>25. ASSUME NEW c \in Conns, Clear(c) PROVE TypeMemory'
  BY <1>25 DEF Clear, Overwrite, Awaited
<1>26. ASSUME NEW c \in Conns, End(c) PROVE TypeMemory'
  BY <1>26 DEF End
<1>27. ASSUME NEW c \in Conns, Cancelled(c) PROVE TypeMemory'
  BY <1>27 DEF Cancelled
<1>28. ASSUME NEW c \in Conns, BrokenPipe(c) PROVE TypeMemory'
  BY <1>28 DEF BrokenPipe
<1>29. CASE UNCHANGED vars
  BY <1>29 DEF vars, shellvars, ctlvars, connvars
<1> QED BY <1>1, <1>2, <1>3, <1>4, <1>5, <1>6, <1>7, <1>8, <1>9, <1>10, <1>11, <1>12, <1>13, <1>14, <1>15, <1>16, <1>17, <1>18, <1>19, <1>20, <1>21, <1>22, <1>23, <1>24, <1>25, <1>26, <1>27, <1>28, <1>29 DEF Next

\* ... of the places of processes and threads ...
LEMMA PlacesType == TypeOK /\ [Next]_vars => TypePlaces'
<1> SUFFICES ASSUME TypeOK, [Next]_vars PROVE TypePlaces'
  OBVIOUS
<1> USE TypeGroups DEF TypePlaces, Flags, shellvars, ctlvars, connvars
<1>1. CASE Ready
  BY <1>1 DEF Ready
<1>2. CASE Status
  BY <1>2 DEF Status, Command
<1>3. CASE StatusRead
  BY <1>3 DEF StatusRead, Content
<1>4. CASE StatusClear
  BY <1>4 DEF StatusClear
<1>5. CASE Stop
  BY <1>5 DEF Stop, Command
<1>6. CASE Stopped
  BY <1>6 DEF Stopped
<1>7. CASE Ping
  BY <1>7 DEF Ping, Command, Content
<1>8. CASE PingTag
  BY <1>8 DEF PingTag
<1>9. CASE Quit
  BY <1>9 DEF Quit
<1>10. CASE Boot
  BY <1>10 DEF Boot, Overwrite, Awaited
<1>11. CASE SeeAsk
  BY <1>11 DEF SeeAsk
<1>12. CASE AnswerTag
  BY <1>12 DEF AnswerTag
<1>13. CASE AnswerCopy
  BY <1>13 DEF AnswerCopy, Content
<1>14. CASE SeeExit
  <2>1. kill' \subseteq Conns
    BY <1>14 DEF SeeExit, TypeMemory
  <2>2. conn' = conn \/ conn' = [c \in Conns |-> "over"]
    BY <1>14 DEF SeeExit
  <2>3. child' \in {"gone", "exit"} /\ UNCHANGED <<shell, out>>
    BY <1>14, Zenon DEF SeeExit, shellvars
  <2> QED BY <2>1, <2>2, <2>3
<1>15. CASE Sext
  BY <1>15 DEF Sext
<1>16. CASE Gone
  BY <1>16 DEF Gone
<1>17. ASSUME NEW c \in Conns, Accept(c) PROVE TypePlaces'
  BY <1>17 DEF Accept
<1>18. ASSUME NEW c \in Conns, Receiving(c) PROVE TypePlaces'
  BY <1>18 DEF Receiving
<1>19. ASSUME NEW c \in Conns, Sending(c) PROVE TypePlaces'
  BY <1>19 DEF Sending, SetFlag
<1>20. ASSUME NEW c \in Conns, Jres(c) PROVE TypePlaces'
  BY <1>20 DEF Jres, Overwrite, Awaited
<1>21. ASSUME NEW c \in Conns, Beat(c) PROVE TypePlaces'
  BY <1>21 DEF Beat, SetFlag
<1>22. ASSUME NEW c \in Conns, Named(c) PROVE TypePlaces'
  BY <1>22 DEF Named
<1>23. ASSUME NEW c \in Conns, See(c) PROVE TypePlaces'
  BY <1>23 DEF See
<1>24. ASSUME NEW c \in Conns, Take(c) PROVE TypePlaces'
  BY <1>24 DEF Take
<1>25. ASSUME NEW c \in Conns, Clear(c) PROVE TypePlaces'
  BY <1>25 DEF Clear, Overwrite, Awaited
<1>26. ASSUME NEW c \in Conns, End(c) PROVE TypePlaces'
  BY <1>26 DEF End
<1>27. ASSUME NEW c \in Conns, Cancelled(c) PROVE TypePlaces'
  BY <1>27 DEF Cancelled
<1>28. ASSUME NEW c \in Conns, BrokenPipe(c) PROVE TypePlaces'
  BY <1>28 DEF BrokenPipe
<1>29. CASE UNCHANGED vars
  BY <1>29 DEF vars, shellvars, ctlvars, connvars
<1> QED BY <1>1, <1>2, <1>3, <1>4, <1>5, <1>6, <1>7, <1>8, <1>9, <1>10, <1>11, <1>12, <1>13, <1>14, <1>15, <1>16, <1>17, <1>18, <1>19, <1>20, <1>21, <1>22, <1>23, <1>24, <1>25, <1>26, <1>27, <1>28, <1>29 DEF Next

\* ... and so all of them.
LEMMA NextType == TypeOK /\ [Next]_vars => TypeOK'
BY CountersType, SwitchesType, MemoryType, PlacesType, TypeGroups
   DEF TypeOK, TypeCounters, TypeSwitches, TypeMemory, TypePlaces, Contents

\* The shared block, the two processes and the connections keep their types
\* (TypeOK): no step writes anything else.
THEOREM TypeCorrect == Spec => []TypeOK
BY InitType, NextType, PTL DEF Spec

-----------------------------------------------------------------------------
(* The status answer.                                                      *)

Torn == "torn" \in spoilt

\* A connection has taken what the last client had left for a message.
Stale == "stale" \in spoilt

\* Who may wait while the tag asks for, or announces, a status; the tag may still be
\* the last client's until the service has cleared it.
TagTells ==
  \/ shell = "waitok" /\ child \in {"boot", "gone"}
  \/ /\ tag = "CIFO" \/ child = "tag" => shell = "status"
     /\ tag = "RCFO" => shell \in {"status", "clear"} /\ child # "tag"

\* While the service can still answer, what connection_info says counts as asked for.
Asked ==
  /\ child \in {"boot", "loop", "tag", "copy"} => active
  /\ shell = "status" /\ active => info \in since

\* Unless it was read or written too early: nobody has gone on while the answer is
\* copied, the answer is true once the service has gone on, and what is tagged as the
\* shell's message, or taken as such, is one.
Whole ==
  Torn \/
    /\ child = "copy" => shell = "status" /\ tag # "SDAT"
    /\ shell = "status" /\ tag = "RCFO" /\ child # "copy" => body.is = "info" /\ body.flags \in since
    /\ shell = "clear" => shown.is = "info" /\ shown.flags \in since
    /\ Stale \/
         /\ shell = "ping" \/ (tag = "SDAT" /\ pings # 0) \/ (\E c \in Conns : conn[c] = "take")
              => body.is = "ping"
         /\ \A c \in Conns : out[c].other = 0

\* Question and answer follow one another in the tag.
LEMMA TagStep == TypeOK /\ TagTells /\ [Next]_vars => TagTells'
<1> SUFFICES ASSUME TypeOK /\ TagTells, [Next]_vars PROVE TagTells'
  OBVIOUS
<1> USE DEF TagTells, TypeOK, Tags, Awaited, Flags, shellvars, ctlvars, connvars
<1>1. CASE Ready
  BY <1>1 DEF Ready
<1>2. CASE Status
  BY <1>2 DEF Status, Command
<1>3. CASE StatusRead
  BY <1>3 DEF StatusRead, Content
<1>4. CASE StatusClear
  BY <1>4 DEF StatusClear
<1>5. CASE Stop
  BY <1>5 DEF Stop, Command
<1>6. CASE Stopped
  BY <1>6 DEF Stopped
<1>7. CASE Ping
  BY <1>7 DEF Ping, Command, Content
<1>8. CASE PingTag
  BY <1>8 DEF PingTag
<1>9. CASE Quit
  BY <1>9 DEF Quit
<1>10. CASE Boot
  BY <1>10 DEF Boot, Overwrite, Awaited
<1>11. CASE SeeAsk
  BY <1>11 DEF SeeAsk
<1>12. CASE AnswerTag
  BY <1>12 DEF AnswerTag
<1>13. CASE AnswerCopy
  BY <1>13 DEF AnswerCopy, Content
<1>14. CASE SeeExit
  BY <1>14 DEF SeeExit
<1>15. CASE Sext
  BY <1>15 DEF Sext
<1>16. CASE Gone
  BY <1>16 DEF Gone
<1>17. ASSUME NEW c \in Conns, Accept(c) PROVE TagTells'
  BY <1>17 DEF Accept
<1>18. ASSUME NEW c \in Conns, Receiving(c) PROVE TagTells'
  BY <1>18 DEF Receiving
<1>19. ASSUME NEW c \in Conns, Sending(c) PROVE TagTells'
  BY <1>19 DEF Sending, SetFlag
<1>20. ASSUME NEW c \in Conns, Jres(c) PROVE TagTells'
  BY <1>20 DEF Jres, Overwrite, Awaited
<1>21. ASSUME NEW c \in Conns, Beat(c) PROVE TagTells'
  BY <1>21 DEF Beat, SetFlag
<1>22. ASSUME NEW c \in Conns, Named(c) PROVE TagTells'
  BY <1>22 DEF Named
<1>23. ASSUME NEW c \in Conns, See(c) PROVE TagTells'
  BY <1>23 DEF See
<1>24. ASSUME NEW c \in Conns, Take(c) PROVE TagTells'
  BY <1>24 DEF Take
<1>25. ASSUME NEW c \in Conns, Clear(c) PROVE TagTells'
  BY <1>25 DEF Clear, Overwrite, Awaited
<1>26. ASSUME NEW c \in Conns, End(c) PROVE TagTells'
  BY <1>26 DEF End
<1>27. ASSUME NEW c \in Conns, Cancelled(c) PROVE TagTells'
  BY <1>27 DEF Cancelled
<1>28. ASSUME NEW c \in Conns, BrokenPipe(c) PROVE TagTells'
  BY <1>28 DEF BrokenPipe
<1>29. CASE UNCHANGED vars
  BY <1>29 DEF vars, shellvars, ctlvars, connvars
<1> QED BY <1>1, <1>2, <1>3, <1>4, <1>5, <1>6, <1>7, <1>8, <1>9, <1>10, <1>11, <1>12, <1>13, <1>14, <1>15, <1>16, <1>17, <1>18, <1>19, <1>20, <1>21, <1>22, <1>23, <1>24, <1>25, <1>26, <1>27, <1>28, <1>29 DEF Next

\* Whatever connection_info becomes while the shell waits is noted.
LEMMA AskedStep == TypeOK /\ Asked /\ [Next]_vars => Asked'
<1> SUFFICES ASSUME TypeOK /\ Asked, [Next]_vars PROVE Asked'
  OBVIOUS
<1> USE DEF Asked, TypeOK, Tags, Awaited, Flags, shellvars, ctlvars, connvars
<1>1. CASE Ready
  BY <1>1 DEF Ready
<1>2. CASE Status
  BY <1>2 DEF Status, Command
<1>3. CASE StatusRead
  BY <1>3 DEF StatusRead, Content
<1>4. CASE StatusClear
  BY <1>4 DEF StatusClear
<1>5. CASE Stop
  BY <1>5 DEF Stop, Command
<1>6. CASE Stopped
  BY <1>6 DEF Stopped
<1>7. CASE Ping
  BY <1>7 DEF Ping, Command, Content
<1>8. CASE PingTag
  BY <1>8 DEF PingTag
<1>9. CASE Quit
  BY <1>9 DEF Quit
<1>10. CASE Boot
  BY <1>10 DEF Boot, Overwrite, Awaited
<1>11. CASE SeeAsk
  BY <1>11 DEF SeeAsk
<1>12. CASE AnswerTag
  BY <1>12 DEF AnswerTag
<1>13. CASE AnswerCopy
  BY <1>13 DEF AnswerCopy, Content
<1>14. CASE SeeExit
  BY <1>14 DEF SeeExit
<1>15. CASE Sext
  BY <1>15 DEF Sext
<1>16. CASE Gone
  BY <1>16 DEF Gone
<1>17. ASSUME NEW c \in Conns, Accept(c) PROVE Asked'
  BY <1>17 DEF Accept
<1>18. ASSUME NEW c \in Conns, Receiving(c) PROVE Asked'
  BY <1>18 DEF Receiving
<1>19. ASSUME NEW c \in Conns, Sending(c) PROVE Asked'
  BY <1>19 DEF Sending, SetFlag
<1>20. ASSUME NEW c \in Conns, Jres(c) PROVE Asked'
  BY <1>20 DEF Jres, Overwrite, Awaited
<1>21. ASSUME NEW c \in Conns, Beat(c) PROVE Asked'
  BY <1>21 DEF Beat, SetFlag
<1>22. ASSUME NEW c \in Conns, Named(c) PROVE Asked'
  BY <1>22 DEF Named
<1>23. ASSUME NEW c \in Conns, See(c) PROVE Asked'
  BY <1>23 DEF See
<1>24. ASSUME NEW c \in Conns, Take(c) PROVE Asked'
  BY <1>24 DEF Take
<1>25. ASSUME NEW c \in Conns, Clear(c) PROVE Asked'
  BY <1>25 DEF Clear, Overwrite, Awaited
<1>26. ASSUME NEW c \in Conns, End(c) PROVE Asked'
  BY <1>26 DEF End
<1>27. ASSUME NEW c \in Conns, Cancelled(c) PROVE Asked'
  BY <1>27 DEF Cancelled
<1>28. ASSUME NEW c \in Conns, BrokenPipe(c) PROVE Asked'
  BY <1>28 DEF BrokenPipe
<1>29. CASE UNCHANGED vars
  BY <1>29 DEF vars, shellvars, ctlvars, connvars
<1> QED BY <1>1, <1>2, <1>3, <1>4, <1>5, <1>6, <1>7, <1>8, <1>9, <1>10, <1>11, <1>12, <1>13, <1>14, <1>15, <1>16, <1>17, <1>18, <1>19, <1>20, <1>21, <1>22, <1>23, <1>24, <1>25, <1>26, <1>27, <1>28, <1>29 DEF Next

\* What is not torn is whole.
LEMMA WholeStep == TypeOK /\ TagTells /\ Asked /\ Whole /\ [Next]_vars => Whole'
<1> SUFFICES ASSUME TypeOK /\ TagTells /\ Asked /\ Whole, [Next]_vars PROVE Whole'
  OBVIOUS
<1> USE DEF TagTells, Asked, Whole, Torn, Stale, Content, TypeOK, Tags, Awaited, Flags, shellvars, ctlvars, connvars
<1>1. CASE Ready
  BY <1>1 DEF Ready
<1>2. CASE Status
  BY <1>2 DEF Status, Command
<1>3. CASE StatusRead
  BY <1>3 DEF StatusRead, Content
<1>4. CASE StatusClear
  BY <1>4 DEF StatusClear
<1>5. CASE Stop
  BY <1>5 DEF Stop, Command
<1>6. CASE Stopped
  BY <1>6 DEF Stopped
<1>7. CASE Ping
  BY <1>7 DEF Ping, Command, Content
<1>8. CASE PingTag
  BY <1>8 DEF PingTag
<1>9. CASE Quit
  BY <1>9 DEF Quit
<1>10. CASE Boot
  BY <1>10 DEF Boot, Overwrite, Awaited
<1>11. CASE SeeAsk
  BY <1>11 DEF SeeAsk
<1>12. CASE AnswerTag
  BY <1>12 DEF AnswerTag
<1>13. CASE AnswerCopy
  BY <1>13 DEF AnswerCopy, Content
<1>14. CASE SeeExit
  BY <1>14 DEF SeeExit
<1>15. CASE Sext
  BY <1>15 DEF Sext
<1>16. CASE Gone
  BY <1>16 DEF Gone
<1>17. ASSUME NEW c \in Conns, Accept(c) PROVE Whole'
  BY <1>17 DEF Accept
<1>18. ASSUME NEW c \in Conns, Receiving(c) PROVE Whole'
  BY <1>18 DEF Receiving
<1>19. ASSUME NEW c \in Conns, Sending(c) PROVE Whole'
  BY <1>19 DEF Sending, SetFlag
<1>20. ASSUME NEW c \in Conns, Jres(c) PROVE Whole'
  BY <1>20 DEF Jres, Overwrite, Awaited
<1>21. ASSUME NEW c \in Conns, Beat(c) PROVE Whole'
  BY <1>21 DEF Beat, SetFlag
<1>22. ASSUME NEW c \in Conns, Named(c) PROVE Whole'
  BY <1>22, ZenonT(60) DEF Named
<1>23. ASSUME NEW c \in Conns, See(c) PROVE Whole'
  BY <1>23 DEF See
<1>24. ASSUME NEW c \in Conns, Take(c) PROVE Whole'
  <2>1. CASE Torn
    BY <1>24, <2>1 DEF Take
  <2>3. CASE ~Torn /\ Stale
    <3>1. UNCHANGED <<tag, body, shell, child, shown, since, spoilt>>
      BY <1>24, Zenon DEF Take
    <3> QED BY <2>3, <3>1
  <2>2. CASE ~Torn /\ ~Stale
    <3>1. body.is = "ping" /\ out' = [out EXCEPT ![c].ping = @ + 1]
      BY <1>24, <2>2 DEF Take
    <3>2. ASSUME NEW d \in Conns PROVE out'[d].other = out[d].other
      <4>1. out \in [Conns -> [ping : Nat, other : Nat]]
        BY TypeGroups DEF TypePlaces
      <4>2. CASE d = c
        <5>1. out[c] \in [ping : Nat, other : Nat]
          BY <4>1
        <5>2. out'[c] = [out[c] EXCEPT !.ping = out[c].ping + 1]
          BY <3>1, <4>1
        <5> QED BY <5>1, <5>2, <4>2
      <4>3. CASE d # c
        BY <3>1, <4>1, <4>3
      <4> QED BY <4>2, <4>3
    <3>3. \A d \in Conns : out'[d].other = 0
      BY <3>2, <2>2
    <3>4. UNCHANGED <<tag, body, shell, child, shown, since, spoilt>>
      BY <1>24, Zenon DEF Take
    <3> QED BY <2>2, <3>1, <3>3, <3>4
  <2> QED BY <2>1, <2>2, <2>3
<1>25. ASSUME NEW c \in Conns, Clear(c) PROVE Whole'
  BY <1>25, ZenonT(60) DEF Clear, Overwrite, Awaited
<1>26. ASSUME NEW c \in Conns, End(c) PROVE Whole'
  BY <1>26 DEF End
<1>27. ASSUME NEW c \in Conns, Cancelled(c) PROVE Whole'
  BY <1>27 DEF Cancelled
<1>28. ASSUME NEW c \in Conns, BrokenPipe(c) PROVE Whole'
  BY <1>28 DEF BrokenPipe
<1>29. CASE UNCHANGED vars
  BY <1>29 DEF vars, shellvars, ctlvars, connvars
<1> QED BY <1>1, <1>2, <1>3, <1>4, <1>5, <1>6, <1>7, <1>8, <1>9, <1>10, <1>11, <1>12, <1>13, <1>14, <1>15, <1>16, <1>17, <1>18, <1>19, <1>20, <1>21, <1>22, <1>23, <1>24, <1>25, <1>26, <1>27, <1>28, <1>29 DEF Next

-----------------------------------------------------------------------------
(* Pings.                                                                  *)

\* A ping may still be sent over a connection: it is being taken, or tagged where
\* the connection will see it, or being built.
Taken(c) == IF conn[c] = "take" THEN 1 ELSE 0
Tagged(c) == IF tag = "SDAT" /\ pings # 0 /\ conn[c] \notin {"take", "done", "over"} THEN 1 ELSE 0
Building == IF shell = "ping" THEN 1 ELSE 0
Counted == Stale \/ \A c \in Conns : out[c].ping + Taken(c) + Tagged(c) + Building <= pings

\* What a step does to a connection's pings when it neither types, tags, sees nor
\* takes one: none appears.
Quiet(c) ==
  /\ out'[c] = out[c] /\ pings' = pings
  /\ shell' = "ping" => shell = "ping"
  /\ tag' = "SDAT" => tag = "SDAT"
  /\ conn'[c] = "take" => conn[c] = "take"
  /\ tag' = "SDAT" /\ conn'[c] \notin {"take", "done", "over"} => conn[c] \notin {"take", "done", "over"}

\* Most steps are quiet for a connection.
LEMMA MostAreQuiet ==
  ASSUME TypeOK, [Next]_vars, NEW d \in Conns
  PROVE  Quiet(d) \/ Ping \/ PingTag \/ See(d) \/ Take(d)
<1> USE TypeGroups DEF TypePlaces, Quiet, Flags, shellvars, ctlvars, connvars
<1>1. CASE Ready
  BY <1>1 DEF Ready
<1>2. CASE Status
  BY <1>2 DEF Status, Command
<1>3. CASE StatusRead
  BY <1>3 DEF StatusRead, Content
<1>4. CASE StatusClear
  BY <1>4 DEF StatusClear
<1>5. CASE Stop
  BY <1>5 DEF Stop, Command
<1>6. CASE Stopped
  BY <1>6 DEF Stopped
<1>7. CASE Quit
  BY <1>7 DEF Quit
<1>8. CASE Boot
  BY <1>8 DEF Boot, Overwrite, Awaited
<1>9. CASE SeeAsk
  BY <1>9 DEF SeeAsk
<1>10. CASE AnswerTag
  BY <1>10 DEF AnswerTag
<1>11. CASE AnswerCopy
  BY <1>11 DEF AnswerCopy, Content
<1>12. CASE SeeExit
  BY <1>12 DEF SeeExit
<1>13. CASE Sext
  BY <1>13 DEF Sext
<1>14. CASE Gone
  BY <1>14 DEF Gone
<1>15. ASSUME NEW c \in Conns, Accept(c) PROVE Quiet(d)
  BY <1>15 DEF Accept
<1>16. ASSUME NEW c \in Conns, Receiving(c) PROVE Quiet(d)
  BY <1>16 DEF Receiving
<1>17. ASSUME NEW c \in Conns, Sending(c) PROVE Quiet(d)
  BY <1>17 DEF Sending, SetFlag
<1>18. ASSUME NEW c \in Conns, Jres(c) PROVE Quiet(d)
  BY <1>18 DEF Jres, Overwrite, Awaited
<1>19. ASSUME NEW c \in Conns, Beat(c) PROVE Quiet(d)
  BY <1>19 DEF Beat, SetFlag
<1>20. ASSUME NEW c \in Conns, Named(c) PROVE Quiet(d)
  BY <1>20 DEF Named
<1>21. ASSUME NEW c \in Conns, Clear(c) PROVE Quiet(d)
  BY <1>21 DEF Clear, Overwrite, Awaited
<1>22. ASSUME NEW c \in Conns, End(c) PROVE Quiet(d)
  BY <1>22 DEF End
<1>23. ASSUME NEW c \in Conns, Cancelled(c) PROVE Quiet(d)
  BY <1>23 DEF Cancelled
<1>24. ASSUME NEW c \in Conns, c # d, See(c) \/ Take(c) PROVE Quiet(d)
  <2>1. out'[d] = out[d]
    BY <1>24 DEF See, Take
  <2> QED BY <1>24, <2>1 DEF See, Take
<1>26. ASSUME NEW c \in Conns, BrokenPipe(c) PROVE Quiet(d)
  BY <1>26 DEF BrokenPipe
<1>25. CASE UNCHANGED vars
  BY <1>25 DEF vars
<1> QED BY <1>1, <1>2, <1>3, <1>4, <1>5, <1>6, <1>7, <1>8, <1>9, <1>10, <1>11, <1>12, <1>13, <1>14, <1>15, <1>16, <1>17, <1>18, <1>19, <1>20, <1>21, <1>22, <1>23, <1>24, <1>25, <1>26 DEF Next

\* What was taken stale is not forgotten, and only before the first ping.
LEMMA StaleStays ==
  ASSUME [Next]_vars
  PROVE  (Stale => Stale') /\ (\A c \in Conns : See(c) => Stale' \/ pings # 0)
BY DEF Next, vars, shellvars, ctlvars, connvars, Stale, Overwrite,
         Ready, Status, StatusRead, StatusClear, Stop, Stopped, Ping, PingTag, Quit,
         Boot, SeeAsk, AnswerTag, AnswerCopy, SeeExit, Sext, Gone,
         Accept, Receiving, Sending, Jres, Beat, Named, See, Take, Clear, End, Cancelled,
         BrokenPipe, Command, SetFlag

\* A ping is counted once on its way from the shell to the server.
LEMMA CountedStep == TypeOK /\ Counted /\ [Next]_vars => Counted'
<1> SUFFICES ASSUME TypeOK, Counted, [Next]_vars, ~Stale', NEW c \in Conns
             PROVE  (out[c].ping + Taken(c) + Tagged(c) + Building <= pings)'
  BY DEF Counted
<1>11. ~Stale /\ (See(c) => pings # 0)
  BY StaleStays
<1> DEFINE sum == Taken(c) + Tagged(c) + Building
<1> USE TypeGroups
<1>0. Taken(c) \in Nat /\ Tagged(c) \in Nat /\ Building \in Nat
  BY DEF Taken, Tagged, Building
<1>1. out[c].ping \in Nat /\ pings \in Nat
  BY ServiceAssumption DEF TypePlaces, TypeCounters
<1>2. out'[c].ping \in Nat /\ pings' \in Nat
  <2>1. TypeCounters' /\ TypePlaces'
    BY CountersType, PlacesType
  <2>2. cmds' \in Nat /\ pings' \in 0 .. cmds'
    BY <2>1, ServiceAssumption DEF TypeCounters
  <2> QED BY <2>1, <2>2 DEF TypePlaces
<1>8. sum \in Nat /\ out[c].ping + sum <= pings
  BY <1>0, <1>1, <1>11 DEF Counted
<1>9. Taken(c)' \in Nat /\ Tagged(c)' \in Nat /\ Building' \in Nat
  BY DEF Taken, Tagged, Building
<1>10. SUFFICES out'[c].ping + sum' <= pings'
  BY <1>2, <1>9
<1>3. CASE Quiet(c)
  <2>1. sum' <= sum /\ sum' \in Nat /\ sum \in Nat
    BY <1>3 DEF Quiet, Taken, Tagged, Building
  <2> QED BY <1>1, <1>8, <2>1, <1>3 DEF Quiet
<1>4. CASE Ping
  <2>1. sum' <= sum + 1 /\ sum' \in Nat /\ sum \in Nat
    BY <1>4 DEF Ping, Command, connvars, Taken, Tagged, Building
  <2>2. out'[c].ping = out[c].ping /\ pings' = pings + 1
    BY <1>4 DEF Ping
  <2> QED BY <1>1, <1>8, <2>1, <2>2
<1>5. CASE PingTag
  <2>1. sum' <= sum /\ sum' \in Nat /\ sum \in Nat
    BY <1>5 DEF PingTag, connvars, Taken, Tagged, Building
  <2>2. out'[c].ping = out[c].ping /\ pings' = pings
    BY <1>5 DEF PingTag
  <2> QED BY <1>1, <1>8, <2>1, <2>2
<1>6. CASE See(c)
  <2>1. sum' <= sum /\ sum' \in Nat /\ sum \in Nat
    BY <1>6, <1>11 DEF See, shellvars, TypePlaces, Taken, Tagged, Building
  <2>2. out'[c].ping = out[c].ping /\ pings' = pings
    BY <1>6 DEF See, shellvars
  <2> QED BY <1>1, <1>8, <2>1, <2>2
<1>7. CASE Take(c)
  <2>1. sum' + 1 <= sum /\ sum' \in Nat /\ sum \in Nat
    BY <1>7 DEF Take, shellvars, TypePlaces, Taken, Tagged, Building
  <2>2. out'[c].ping <= out[c].ping + 1 /\ pings' = pings
    BY <1>7 DEF Take, shellvars, TypePlaces
  <2> QED BY <1>1, <1>2, <1>8, <2>1, <2>2
<1> QED BY <1>3, <1>4, <1>5, <1>6, <1>7, MostAreQuiet

-----------------------------------------------------------------------------
Inv == TypeOK /\ TagTells /\ Asked /\ Whole /\ Counted

\* The invariant holds at first ...
LEMMA InitInv == Init => Inv
<1> SUFFICES ASSUME Init PROVE Inv
  OBVIOUS
<1>1. TagTells /\ Asked /\ Whole
  BY DEF Init, TagTells, Asked, Whole
<1>2. Counted
  <2>1. pings = 0 /\ Building = 0 /\ \A c \in Conns : out[c].ping = 0 /\ Taken(c) = 0 /\ Tagged(c) = 0
    BY DEF Init, Taken, Tagged, Building
  <2>2. ASSUME NEW c \in Conns PROVE out[c].ping + Taken(c) + Tagged(c) + Building <= pings
    <3>1. out[c].ping = 0 /\ Taken(c) = 0 /\ Tagged(c) = 0 /\ Building = 0 /\ pings = 0
      BY <2>1
    <3> QED BY <3>1
  <2> QED BY <2>2 DEF Counted
<1> QED BY <1>1, <1>2, InitType DEF Inv

\* ... and so it always holds.
LEMMA Invariance == Spec => []Inv
<1>1. Inv /\ [Next]_vars => Inv'
  BY NextType, TagStep, AskedStep, WholeStep, CountedStep DEF Inv
<1> QED BY <1>1, InitInv, PTL DEF Spec

\* PingsSentAsAsked: however the service, its threads and the shell take turns at the
\* tag, Take happens once per connection for each PingTag, and takes a ping.
THEOREM PingsAsAsked == Spec => []PingsSentAsAsked
<1>1. Inv => PingsSentAsAsked
  <2> SUFFICES ASSUME Inv, ~Stale, NEW c \in Conns
               PROVE  out[c].ping <= pings /\ (out[c].other > 0 => Torn)
    BY DEF PingsSentAsAsked, Torn, Stale
  <2>1. out[c].ping <= pings
    <3>1. Taken(c) \in Nat /\ Tagged(c) \in Nat /\ Building \in Nat
      BY DEF Taken, Tagged, Building
    <3>2. out[c].ping \in Nat /\ pings \in Nat /\ out[c].ping + Taken(c) + Tagged(c) + Building <= pings
      BY ServiceAssumption, TypeGroups DEF Inv, Counted, TypePlaces, TypeCounters
    <3> QED BY <3>1, <3>2
  <2>2. out[c].other > 0 => Torn
    BY DEF Inv, Whole
  <2> QED BY <2>1, <2>2
<1> QED BY <1>1, Invariance, PTL

\* StatusTrue: what StatusRead has copied is a state connection_info had since Status,
\* unless the answer was read between AnswerTag and AnswerCopy.
THEOREM StatusIsTrue == Spec => []StatusTrue
<1>1. Inv => StatusTrue
  BY DEF Inv, Whole, Torn, StatusTrue
<1> QED BY <1>1, Invariance, PTL
=============================================================================
