--------------------------- MODULE MMDBLookupProofs ---------------------------
(***************************************************************************)
(* Proofs about MMDBLookup, for any command lines, any number of threads   *)
(* and any width of int.  What main holds is a function of where it is;    *)
(* which threads run follows from its loop counters unless one could not   *)
(* be created or joined.                                                   *)
(***************************************************************************)
EXTENDS MMDBLookup, TLAPS

LookupPlaces == {"lookup", "value", "list", "end"}
FilePlaces == {"fgets", "file_lookup", "file_list", "file_dump", "file_free"}
BenchPlaces == {"benchmark", "bench_list", "bench_free"}
ThreadPlaces == {"tinfo", "create", "join"}
LastPlaces == {"close", "exit"}
Places == {"options", "open", "fopen"} \cup LookupPlaces \cup FilePlaces
            \cup BenchPlaces \cup ThreadPlaces \cup LastPlaces

\* TypeOK, and what it needs to be inductive.
TypeInv ==
  /\ TypeOK
  /\ args \in Commands /\ pc \in Places /\ code \in 0 .. 6
  /\ pc = "open" => ~NoAddress

\* What main holds, by where it is.
HeldInv ==
  /\ "db" \in held <=> pc \notin {"options", "open", "exit"}
  /\ "path" \in held <=> pc \in {"open"} \cup LookupPlaces
  /\ "fh" \in held <=> pc \in FilePlaces
  /\ "tinfo" \in held <=> pc \in {"create", "join"}

\* Who has a list.
ListsInv ==
  /\ Main \in lists => pc \in {"end", "file_dump", "file_free", "bench_free"}
  /\ \A t \in Threads : t \in lists <=> threads[t].at = "free"

\* Which threads there are, and, if all could be created and joined, which of
\* them may still run.
Orderly == "create" \notin failed /\ "join" \notin failed

Alive(t) == threads[t].at \in {"loop", "list", "free"}

ThreadsInv ==
  /\ \A t \in Threads :
       threads[t].at # "none" => pc \in {"create", "join", "close", "exit"}
  /\ pc \notin LastPlaces => Orderly
  /\ Orderly => \A t \in Threads :
       /\ pc = "create" => (threads[t].at # "none" => t < n)
       /\ pc = "join" => /\ t < n => ~Alive(t)
                         /\ threads[t].at # "none" => t < thread_count
       /\ pc \in LastPlaces => ~Alive(t)

\* The mode main is in.
ModeInv ==
  /\ pc \in {"options", "open", "lookup"} => looked = 0
  /\ pc \in LookupPlaces => Single
  /\ pc \in FilePlaces \cup {"fopen"} => args.ip_file
  /\ pc \in BenchPlaces \cup ThreadPlaces => ~args.ip_file /\ iterations # 0

\* ExitCodeIsTrue of the code that main is going to exit with.
Told(c) ==
  /\ c = 0 => Answered /\ \A f \in failed : CodeOf[f] = 0
  /\ c \in 1 .. 6 => \E f \in failed : CodeOf[f] = c
  /\ Orderly => \A f \in failed : CodeOf[f] \in {0, c}

\* The same before lookup_and_print has dumped the list.
EndTold ==
  \/ code = 0 /\ failed \subseteq {"thread"} /\ (Main \in lists \/ shown = "no_data")
  \/ code = 5 /\ failed \subseteq {"value", "list", "thread"} /\ failed \cap {"value", "list"} # {}
  \/ code = 6 /\ failed \subseteq {"entry", "thread"} /\ "entry" \in failed

\* Until main knows the code, nothing has gone wrong but what a thread keeps to
\* itself.
CodeInv ==
  /\ pc \notin LastPlaces => report = << >>
  /\ report # << >> => Orderly
  /\ exit_code = Running /\ pc \notin LastPlaces \cup {"end"} =>
       code = 0 /\ failed \subseteq {"thread"}
  /\ exit_code = Running /\ pc = "end" => EndTold
  /\ exit_code = Running /\ pc \in LastPlaces => Told(code)
  /\ ExitCodeIsTrue

IInv == TypeInv /\ HeldInv /\ ListsInv /\ ThreadsInv /\ ModeInv /\ CodeInv

-------------------------------------------------------------------------------
\* The conversion to int is a number.
LEMMA ToIntType == \A x \in Int : ToInt(x) \in Int
  BY LookupAssumption DEF ToInt

\* Both options are numbers once converted.
LEMMA OptionsAreInts == args \in Commands => iterations \in Int /\ thread_count \in Int
<1> SUFFICES ASSUME args \in Commands PROVE iterations \in Int /\ thread_count \in Int
  OBVIOUS
<1>1. args.b \in Int /\ args.t \in Int
  BY LookupAssumption DEF Command
<1> QED BY <1>1, ToIntType DEF iterations, thread_count

\* A report is not the lack of one.
LEMMA ReportIsSome == \A x : <<x>> # << >>
  OBVIOUS

\* What a step that keeps the command line keeps.
LEMMA SameCommand ==
  ASSUME args' = args
  PROVE  /\ NoAddress' <=> NoAddress
         /\ iterations' = iterations /\ thread_count' = thread_count /\ (Single' <=> Single)
         /\ CodeOf' = CodeOf
BY DEF NoAddress, iterations, thread_count, Single, CodeOf

\* Which code tells of what.
LEMMA Codes ==
  /\ CodeOf["thread"] = 0
  /\ \A f \in {"usage", "memory", "file", "clock", "create", "join"} : CodeOf[f] = 1
  /\ CodeOf["open"] = 2 /\ CodeOf["address"] = 3 /\ CodeOf["lookup"] = 4
  /\ CodeOf["value"] = 5 /\ CodeOf["entry"] = 6
  /\ CodeOf["list"] = IF args.ip_file THEN 1 ELSE 5
  /\ CodeOf["dump"] = IF args.ip_file THEN 1 ELSE 0
BY DEF CodeOf, Faults

\* A fault that the code tells of makes the code true, for a main that returns.
LEMMA FaultIsTold ==
  ASSUME CodeInv, exit_code = Running, pc \notin LastPlaces \cup {"end"}, args' = args,
         NEW c \in 1 .. 6, NEW w, CodeOf[w] = c, failed' = failed \cup {w}
  PROVE  Told(c)'
<1>1. failed \subseteq {"thread"}
  BY DEF CodeInv
<1>2. CodeOf' = CodeOf /\ CodeOf["thread"] = 0
  BY SameCommand, Codes
<1>3. CodeOf'[w] = c /\ w \in failed'
  BY <1>2
<1>4. \A f \in failed' : f = "thread" \/ f = w
  BY <1>1
<1>5. \A f \in failed' : CodeOf'[f] = 0 \/ CodeOf'[f] = c
  BY <1>2, <1>3, <1>4, Zenon
<1>6. c # 0
  OBVIOUS
<1> QED BY <1>3, <1>5, <1>6, Zenon DEF Told

\* And for one that exits.
LEMMA ExitIsTrue ==
  ASSUME CodeInv, exit_code = Running, pc \notin LastPlaces \cup {"end"},
         NEW c \in 1 .. 6, NEW w, CodeOf[w] = c, exit(c, {w})
  PROVE  ExitCodeIsTrue'
<1>1. args' = args /\ exit_code' = c /\ failed' = failed \cup {w}
  BY DEF exit
<1>2. Told(c)'
  BY <1>1, FaultIsTold
<1> QED BY <1>1, <1>2 DEF Told, Orderly, ExitCodeIsTrue, Signal, Running

\* In particular for lookup_or_die.
LEMMA DiesTrue ==
  ASSUME CodeInv, exit_code = Running, pc \notin LastPlaces \cup {"end"}, LookupDies
  PROVE  ExitCodeIsTrue'
BY Codes, ExitIsTrue DEF LookupDies

\* The program starts with nothing held and no thread.
LEMMA InitIInv == Init => IInv
<1> SUFFICES ASSUME Init PROVE IInv
  OBVIOUS
<1> USE LookupAssumption DEF Init, Main, Running, Signal
<1>1. TypeInv
  BY DEF TypeInv, TypeOK, Places
<1>2. HeldInv /\ ListsInv /\ ThreadsInv
  BY DEF HeldInv, ListsInv, ThreadsInv, Orderly, LookupPlaces, FilePlaces, LastPlaces
<1>3. ModeInv /\ CodeInv
  BY DEF ModeInv, CodeInv, Orderly, ExitCodeIsTrue, LookupPlaces, FilePlaces, BenchPlaces,
         ThreadPlaces, LastPlaces
<1> QED BY <1>1, <1>2, <1>3 DEF IInv

\* The steps of get_options and open_or_die.
LEMMA OptionsKeeps ==
  ASSUME IInv, OptionsExit \/ get_options \/ open_or_die
  PROVE  IInv'
<1> USE DEF IInv, At, Main, Running, Signal, exit, Goto,
            OptionsExit, get_options, open_or_die,
            LookupPlaces, FilePlaces, BenchPlaces, ThreadPlaces, LastPlaces
<1>1. args' = args /\ UNCHANGED threads
  BY DEF TypeInv, TypeOK
<1>2. /\ NoAddress' <=> NoAddress
      /\ iterations' = iterations /\ thread_count' = thread_count /\ (Single' <=> Single)
      /\ CodeOf' = CodeOf
  BY <1>1, SameCommand
<1>3. pc' \in Places /\ code' \in 0 .. 6
  BY DEF TypeInv, Places, Mode
<1>4. /\ n' \in Nat /\ lines' \in Nat /\ looked' \in Nat
      /\ exit_code' \in {Running, Signal} \cup 0 .. 6
  BY DEF TypeInv, TypeOK, Command
<1>5. /\ held' \subseteq {"path", "db", "fh", "tinfo"}
      /\ lists' \subseteq Threads \cup {Main}
      /\ failed' \subseteq Faults /\ shown' \in {"nothing", "list", "part", "no_data"}
  BY DEF TypeInv, TypeOK, Faults
<1>6. (pc' = "lookup" => args'.ip) /\ (pc' = "open" => ~NoAddress')
  BY <1>1, <1>2 DEF TypeInv, TypeOK, Mode, NoAddress
<1>7. TypeInv'
  BY <1>1, <1>3, <1>4, <1>5, <1>6 DEF TypeInv, TypeOK
<1>8. HeldInv'
  BY DEF TypeInv, HeldInv, Mode
<1>9. ListsInv'
  BY <1>1, LookupAssumption, OptionsAreInts DEF TypeInv, TypeOK, ListsInv, ThreadsInv, Orderly
<1>10. ThreadsInv'
  BY <1>1, <1>2, LookupAssumption, OptionsAreInts
     DEF TypeInv, TypeOK, ThreadsInv, Orderly, Alive, Mode
<1>11. ModeInv'
  BY <1>1, <1>2, LookupAssumption DEF TypeInv, TypeOK, ModeInv, Single, Mode
<1>12. CodeInv'
  <2>1. /\ pc' \notin LastPlaces => report' = << >>
        /\ report' # << >> => Orderly'
    BY <1>1, <1>2 DEF CodeInv, ThreadsInv, Orderly, Mode
  <2>2. exit_code' = Running /\ pc' \notin LastPlaces \cup {"end"} =>
          code' = 0 /\ failed' \subseteq {"thread"}
    BY DEF CodeInv, Mode
  <2>3. exit_code' = Running /\ pc' = "end" => EndTold'
    BY DEF Mode
  <2>4. exit_code' = Running /\ pc' \in LastPlaces => Told(code)'
    BY DEF Mode
  <2>5. ExitCodeIsTrue'
    <3>1. /\ exit_code = Running /\ pc \notin LastPlaces \cup {"end"}
          /\ failed \subseteq {"thread"}
      BY DEF CodeInv
    <3>2. CASE exit(0, {}) /\ (args.help \/ args.version)
      <4>1. exit_code' = 0 /\ failed' = failed /\ Answered'
        BY <1>1, <3>2 DEF Answered
      <4> QED BY <1>2, <3>1, <4>1, Codes DEF ExitCodeIsTrue
    <3>3. CASE exit(1, {"usage"}) \/ exit(1, {"memory"}) \/ exit(2, {"open"})
      <4>1. CodeOf["usage"] = 1 /\ CodeOf["memory"] = 1 /\ CodeOf["open"] = 2
        BY Codes
      <4> HIDE DEF exit
      <4> QED BY <3>1, <3>3, <4>1, ExitIsTrue
    <3>4. CASE exit_code' = Running
      BY <3>4 DEF ExitCodeIsTrue
    <3> QED BY <3>1, <3>2, <3>3, <3>4
  <2> QED BY <2>1, <2>2, <2>3, <2>4, <2>5 DEF CodeInv
<1> QED BY <1>7, <1>8, <1>9, <1>10, <1>11, <1>12

\* The steps of lookup_and_print.
LEMMA LookupAndPrintKeeps ==
  ASSUME IInv, Lookup \/ Value \/ List \/ End
  PROVE  IInv'
<1> USE DEF IInv, At, Main, Running, Signal, exit, Goto, LookupDies, LookedUp, TakeList,
            OneMore, Quiet, Fault,
            Lookup, Value, List, End, DumpList,
            LookupPlaces, FilePlaces, BenchPlaces, ThreadPlaces, LastPlaces
<1>1. args' = args /\ UNCHANGED threads
  BY DEF TypeInv, TypeOK
<1>2. /\ NoAddress' <=> NoAddress
      /\ iterations' = iterations /\ thread_count' = thread_count /\ (Single' <=> Single)
      /\ CodeOf' = CodeOf
  BY <1>1, SameCommand
<1>3. pc' \in Places /\ code' \in 0 .. 6
  BY DEF TypeInv, Places
<1>4. /\ n' \in Nat /\ lines' \in Nat /\ looked' \in Nat
      /\ exit_code' \in {Running, Signal} \cup 0 .. 6
  BY DEF TypeInv, TypeOK, Command
<1>5. /\ held' \subseteq {"path", "db", "fh", "tinfo"}
      /\ lists' \subseteq Threads \cup {Main}
      /\ failed' \subseteq Faults /\ shown' \in {"nothing", "list", "part", "no_data"}
  BY DEF TypeInv, TypeOK, Faults
<1>6. (pc' = "lookup" => args'.ip) /\ (pc' = "open" => ~NoAddress')
  BY <1>1, <1>2 DEF TypeInv, TypeOK
<1>7. TypeInv'
  BY <1>1, <1>3, <1>4, <1>5, <1>6 DEF TypeInv, TypeOK
<1>8. HeldInv'
  BY DEF TypeInv, HeldInv
<1>9. ListsInv'
  BY <1>1, LookupAssumption, OptionsAreInts DEF TypeInv, TypeOK, ListsInv, ThreadsInv, Orderly
<1>10. ThreadsInv'
  BY <1>1, <1>2, LookupAssumption, OptionsAreInts
     DEF TypeInv, TypeOK, ThreadsInv, Orderly, Alive
<1>11. ModeInv'
  BY <1>1, <1>2, LookupAssumption DEF TypeInv, TypeOK, ModeInv, Single
<1>12. CodeInv'
  <2>1. /\ pc' \notin LastPlaces => report' = << >>
        /\ report' # << >> => Orderly'
    BY <1>1, <1>2 DEF CodeInv, ThreadsInv, Orderly
  <2>2. exit_code' = Running /\ pc' \notin LastPlaces \cup {"end"} =>
          code' = 0 /\ failed' \subseteq {"thread"}
    BY DEF CodeInv
  <2>3. exit_code' = Running /\ pc' = "end" => EndTold'
    BY DEF CodeInv, EndTold
  <2>4. exit_code' = Running /\ pc' \in LastPlaces => Told(code)'
    <3> SUFFICES ASSUME End PROVE Told(code)'
      BY DEF Told
    <3>1. EndTold /\ Single /\ code' = code
      BY DEF CodeInv, ModeInv
    <3>2. /\ failed' \subseteq failed \cup {"dump"} /\ failed \subseteq failed'
          /\ Main \in lists => shown' # "nothing"
          /\ Main \notin lists => shown' = shown
      OBVIOUS
    <3>3. /\ Single' /\ CodeOf' = CodeOf /\ CodeOf["dump"] = 0 /\ CodeOf["thread"] = 0
          /\ CodeOf["value"] = 5 /\ CodeOf["list"] = 5 /\ CodeOf["entry"] = 6
      BY <1>2, <3>1, Codes DEF Single
    <3>4. shown' # "nothing" => Answered'
      BY <3>3 DEF Answered
    <3> QED BY <3>1, <3>2, <3>3, <3>4 DEF EndTold, Told
  <2>5. ExitCodeIsTrue'
    <3>1. CASE Lookup /\ LookupDies
      <4>1. pc \notin LastPlaces \cup {"end"}
        BY <3>1
      <4> HIDE DEF LookupDies
      <4> QED BY <3>1, <4>1, DiesTrue DEF Lookup, At
    <3>2. CASE ~(Lookup /\ LookupDies)
      BY <3>2 DEF ExitCodeIsTrue
    <3> QED BY <3>1, <3>2
  <2> QED BY <2>1, <2>2, <2>3, <2>4, <2>5 DEF CodeInv
<1> QED BY <1>7, <1>8, <1>9, <1>10, <1>11, <1>12

\* The steps of lookup_from_file.
LEMMA LookupFromFileKeeps ==
  ASSUME IInv, Fopen \/ FgetsFails \/ Fgets \/ EndOfFile \/ FileLookup \/
               FileListFails \/ FileList \/ FileDumpFails \/ FileFree
  PROVE  IInv'
<1> USE DEF IInv, At, Main, Running, Signal, exit, Goto, ReturnToClose, LookupDies,
            LookedUp, TakeList, FreeList, FileFails, OneMore, Quiet, Fault,
            Fopen, FgetsFails, Fgets, EndOfFile, FileLookup, FileListFails, FileList,
            FileDumpFails, FileFree,
            LookupPlaces, FilePlaces, BenchPlaces, ThreadPlaces, LastPlaces
<1>1. args' = args /\ UNCHANGED threads
  BY DEF TypeInv, TypeOK
<1>2. /\ NoAddress' <=> NoAddress
      /\ iterations' = iterations /\ thread_count' = thread_count /\ (Single' <=> Single)
      /\ CodeOf' = CodeOf
  BY <1>1, SameCommand
<1>3. pc' \in Places /\ code' \in 0 .. 6
  BY DEF TypeInv, Places
<1>4. /\ n' \in Nat /\ lines' \in Nat /\ looked' \in Nat
      /\ exit_code' \in {Running, Signal} \cup 0 .. 6
  BY DEF TypeInv, TypeOK, Command
<1>5. /\ held' \subseteq {"path", "db", "fh", "tinfo"}
      /\ lists' \subseteq Threads \cup {Main}
      /\ failed' \subseteq Faults /\ shown' \in {"nothing", "list", "part", "no_data"}
  BY DEF TypeInv, TypeOK, Faults
<1>6. (pc' = "lookup" => args'.ip) /\ (pc' = "open" => ~NoAddress')
  BY <1>1, <1>2 DEF TypeInv, TypeOK
<1>7. TypeInv'
  BY <1>1, <1>3, <1>4, <1>5, <1>6 DEF TypeInv, TypeOK
<1>8. HeldInv'
  BY DEF TypeInv, HeldInv
<1>9. ListsInv'
  BY <1>1, LookupAssumption, OptionsAreInts DEF TypeInv, TypeOK, ListsInv, ThreadsInv, Orderly
<1>10. ThreadsInv'
  BY <1>1, <1>2, LookupAssumption, OptionsAreInts
     DEF TypeInv, TypeOK, ThreadsInv, Orderly, Alive
<1>11. ModeInv'
  BY <1>1, <1>2, LookupAssumption DEF TypeInv, TypeOK, ModeInv, Single
<1>12. CodeInv'
  <2>1. /\ pc' \notin LastPlaces => report' = << >>
        /\ report' # << >> => Orderly'
    BY <1>1, <1>2 DEF CodeInv, ThreadsInv, Orderly
  <2>2. exit_code' = Running /\ pc' \notin LastPlaces \cup {"end"} =>
          code' = 0 /\ failed' \subseteq {"thread"}
    BY DEF CodeInv
  <2>3. exit_code' = Running /\ pc' = "end" => EndTold'
    OBVIOUS
  <2>4. exit_code' = Running /\ pc' \in LastPlaces => Told(code)'
    <3> SUFFICES ASSUME exit_code' = Running, pc' \in LastPlaces PROVE Told(code)'
      OBVIOUS
    <3>1. args.ip_file /\ \A w \in {"file", "list", "dump"} : CodeOf[w] = 1
      BY Codes DEF ModeInv
    <3>2. CASE EndOfFile /\ code' = 0
      <4>1. report' = <<n>> /\ failed' = failed /\ ~Single'
        BY <1>2, <3>1, <3>2 DEF Single
      <4>2. report' # << >>
        BY <4>1, ReportIsSome
      <4>3. Answered' /\ \A f \in failed' : CodeOf'[f] = 0
        BY <1>2, <4>1, <4>2, <3>2, Codes DEF Answered, CodeInv
      <4> QED BY <3>2, <4>3 DEF Told
    <3>3. CASE ~(EndOfFile /\ code' = 0)
      <4>1. /\ code' = 1 /\ \E w \in {"file", "list", "dump"} : failed' = failed \cup {w}
            /\ exit_code = Running /\ pc \notin LastPlaces \cup {"end"}
        BY <3>3
      <4>2. Told(1)'
        BY <1>1, <3>1, <4>1, FaultIsTold
      <4> QED BY <4>1, <4>2 DEF Told
    <3> QED BY <3>2, <3>3
  <2>5. ExitCodeIsTrue'
    <3>1. CASE LookupDies
      <4> HIDE DEF LookupDies
      <4> QED BY <3>1, DiesTrue DEF FileLookup, At
    <3>2. CASE ~LookupDies
      BY <3>2 DEF ExitCodeIsTrue
    <3> QED BY <3>1, <3>2
  <2> QED BY <2>1, <2>2, <2>3, <2>4, <2>5 DEF CodeInv
<1> QED BY <1>7, <1>8, <1>9, <1>10, <1>11, <1>12

\* The steps of benchmark.
LEMMA BenchmarkKeeps ==
  ASSUME IInv, Bench \/ BenchList \/ BenchFree \/ BenchEnds
  PROVE  IInv'
<1> USE DEF IInv, At, Main, Running, Signal, exit, Goto, ReturnToClose, LookupDies,
            LookedUp, TakeList, FreeList, OneMore, Quiet, Fault,
            Bench, BenchList, BenchFree, BenchEnds,
            LookupPlaces, FilePlaces, BenchPlaces, ThreadPlaces, LastPlaces
<1>1. args' = args /\ UNCHANGED threads
  BY DEF TypeInv, TypeOK
<1>2. /\ NoAddress' <=> NoAddress
      /\ iterations' = iterations /\ thread_count' = thread_count /\ (Single' <=> Single)
      /\ CodeOf' = CodeOf
  BY <1>1, SameCommand
<1>3. pc' \in Places /\ code' \in 0 .. 6
  BY DEF TypeInv, Places
<1>4. /\ n' \in Nat /\ lines' \in Nat /\ looked' \in Nat
      /\ exit_code' \in {Running, Signal} \cup 0 .. 6
  BY DEF TypeInv, TypeOK, Command
<1>5. /\ held' \subseteq {"path", "db", "fh", "tinfo"}
      /\ lists' \subseteq Threads \cup {Main}
      /\ failed' \subseteq Faults /\ shown' \in {"nothing", "list", "part", "no_data"}
  BY DEF TypeInv, TypeOK, Faults
<1>6. (pc' = "lookup" => args'.ip) /\ (pc' = "open" => ~NoAddress')
  BY <1>1, <1>2 DEF TypeInv, TypeOK
<1>7. TypeInv'
  BY <1>1, <1>3, <1>4, <1>5, <1>6 DEF TypeInv, TypeOK
<1>8. HeldInv'
  BY DEF TypeInv, HeldInv
<1>9. ListsInv'
  BY <1>1, LookupAssumption, OptionsAreInts DEF TypeInv, TypeOK, ListsInv, ThreadsInv, Orderly
<1>10. ThreadsInv'
  BY <1>1, <1>2, LookupAssumption, OptionsAreInts
     DEF TypeInv, TypeOK, ThreadsInv, Orderly, Alive
<1>11. ModeInv'
  BY <1>1, <1>2, LookupAssumption DEF TypeInv, TypeOK, ModeInv, Single
<1>12. CodeInv'
  <2>1. /\ pc' \notin LastPlaces => report' = << >>
        /\ report' # << >> => Orderly'
    BY <1>1, <1>2 DEF CodeInv, ThreadsInv, Orderly
  <2>2. exit_code' = Running /\ pc' \notin LastPlaces \cup {"end"} =>
          code' = 0 /\ failed' \subseteq {"thread"}
    BY DEF CodeInv
  <2>3. exit_code' = Running /\ pc' = "end" => EndTold'
    OBVIOUS
  <2>4. exit_code' = Running /\ pc' \in LastPlaces => Told(code)'
    <3> SUFFICES ASSUME exit_code' = Running, pc' \in LastPlaces PROVE Told(code)'
      OBVIOUS
    <3>1. ~args.ip_file /\ iterations # 0 /\ CodeOf["list"] = 5
      BY Codes DEF ModeInv
    <3>2. CASE BenchEnds
      <4>1. report' = <<iterations>> /\ failed' = failed /\ ~Single' /\ code' = 0
        BY <1>2, <3>1, <3>2 DEF Single
      <4>2. report' # << >>
        BY <4>1, ReportIsSome
      <4>3. Answered' /\ \A f \in failed' : CodeOf'[f] = 0
        BY <1>2, <4>1, <4>2, <3>2, Codes DEF Answered, CodeInv
      <4> QED BY <4>1, <4>3 DEF Told
    <3>3. CASE ~BenchEnds
      <4>1. /\ code' = 5 /\ failed' = failed \cup {"list"}
            /\ exit_code = Running /\ pc \notin LastPlaces \cup {"end"}
        BY <3>3
      <4>2. Told(5)'
        BY <1>1, <3>1, <4>1, FaultIsTold
      <4> QED BY <4>1, <4>2 DEF Told
    <3> QED BY <3>2, <3>3
  <2>5. ExitCodeIsTrue'
    <3>1. CASE LookupDies
      <4> HIDE DEF LookupDies
      <4> QED BY <3>1, DiesTrue DEF Bench, At
    <3>2. CASE ~LookupDies
      BY <3>2 DEF ExitCodeIsTrue
    <3> QED BY <3>1, <3>2
  <2> QED BY <2>1, <2>2, <2>3, <2>4, <2>5 DEF CodeInv
<1> QED BY <1>7, <1>8, <1>9, <1>10, <1>11, <1>12

\* The steps of start_threaded_benchmark.
LEMMA ThreadedBenchmarkKeeps ==
  ASSUME IInv, StartBenchmark \/ CreateThread \/ CreatedAll \/ JoinThread \/ JoinFails \/
               JoinedAll
  PROVE  IInv'
<1> USE DEF IInv, At, Main, Running, Signal, Goto, ReturnToClose, Abandon, Quiet, Fault, Ended,
            StartBenchmark, CreateThread, CreatedAll, JoinThread, JoinFails, JoinedAll,
            LookupPlaces, FilePlaces, BenchPlaces, ThreadPlaces, LastPlaces
<1>1. /\ args' = args
      /\ threads' \in [Threads -> [at : {"none", "loop", "list", "free"} \cup Ended, i : Nat]]
  BY DEF TypeInv, TypeOK
<1>2. /\ NoAddress' <=> NoAddress
      /\ iterations' = iterations /\ thread_count' = thread_count /\ (Single' <=> Single)
      /\ CodeOf' = CodeOf
  BY <1>1, SameCommand
<1>3. pc' \in Places /\ code' \in 0 .. 6
  BY DEF TypeInv, Places
<1>4. /\ n' \in Nat /\ lines' \in Nat /\ looked' \in Nat
      /\ exit_code' \in {Running, Signal} \cup 0 .. 6
  BY DEF TypeInv, TypeOK, Command
<1>5. /\ held' \subseteq {"path", "db", "fh", "tinfo"}
      /\ lists' \subseteq Threads \cup {Main}
      /\ failed' \subseteq Faults /\ shown' \in {"nothing", "list", "part", "no_data"}
  BY DEF TypeInv, TypeOK, Faults
<1>6. (pc' = "lookup" => args'.ip) /\ (pc' = "open" => ~NoAddress')
  BY <1>1, <1>2 DEF TypeInv, TypeOK
<1>7. TypeInv'
  BY <1>1, <1>3, <1>4, <1>5, <1>6 DEF TypeInv, TypeOK
<1>8. HeldInv'
  BY DEF TypeInv, HeldInv
<1>9. ListsInv'
  BY <1>1, LookupAssumption, OptionsAreInts DEF TypeInv, TypeOK, ListsInv, ThreadsInv, Orderly
<1>10. ThreadsInv'
  BY <1>1, <1>2, LookupAssumption, OptionsAreInts
     DEF TypeInv, TypeOK, ThreadsInv, Orderly, Alive
<1>11. ModeInv'
  BY <1>1, <1>2, LookupAssumption DEF TypeInv, TypeOK, ModeInv, Single
<1>12. CodeInv'
  <2>1. /\ pc' \notin LastPlaces => report' = << >>
        /\ report' # << >> => Orderly'
    BY <1>1, <1>2 DEF CodeInv, ThreadsInv, Orderly
  <2>2. exit_code' = Running /\ pc' \notin LastPlaces \cup {"end"} =>
          code' = 0 /\ failed' \subseteq {"thread"}
    BY DEF CodeInv
  <2>3. exit_code' = Running /\ pc' = "end" => EndTold'
    OBVIOUS
  <2>4. exit_code' = Running /\ pc' \in LastPlaces => Told(code)'
    <3> SUFFICES ASSUME exit_code' = Running, pc' \in LastPlaces PROVE Told(code)'
      OBVIOUS
    <3>1. /\ ~args.ip_file /\ iterations # 0
          /\ \A w \in {"memory", "clock", "create", "join"} : CodeOf[w] = 1
      BY Codes DEF ModeInv
    <3>2. CASE JoinedAll /\ code' = 0
      <4>1. PICK x : report' = <<x>>
        BY <3>2
      <4>2. report' # << >>
        BY <4>1, ReportIsSome
      <4>3. Answered' /\ \A f \in failed' : CodeOf'[f] = 0
        BY <1>2, <3>1, <4>2, <3>2, Codes DEF Single, Answered, CodeInv
      <4> QED BY <3>2, <4>3 DEF Told
    <3>3. CASE ~(JoinedAll /\ code' = 0)
      <4>1. /\ code' = 1
            /\ \E w \in {"memory", "clock", "create", "join"} : failed' = failed \cup {w}
            /\ exit_code = Running /\ pc \notin LastPlaces \cup {"end"}
        BY <3>3
      <4>2. Told(1)'
        BY <1>1, <3>1, <4>1, FaultIsTold
      <4> QED BY <4>1, <4>2 DEF Told
    <3> QED BY <3>2, <3>3
  <2>5. ExitCodeIsTrue'
    BY DEF ExitCodeIsTrue
  <2> QED BY <2>1, <2>2, <2>3, <2>4, <2>5 DEF CodeInv
<1> QED BY <1>7, <1>8, <1>9, <1>10, <1>11, <1>12

\* The steps of the end of main.
LEMMA EndKeeps ==
  ASSUME IInv, Close \/ Exit
  PROVE  IInv'
<1> USE DEF IInv, At, Main, Running, Signal, exit, Goto, Quiet,
            Close, Exit,
            LookupPlaces, FilePlaces, BenchPlaces, ThreadPlaces, LastPlaces
<1>1. args' = args /\ UNCHANGED threads
  BY DEF TypeInv, TypeOK
<1>2. /\ NoAddress' <=> NoAddress
      /\ iterations' = iterations /\ thread_count' = thread_count /\ (Single' <=> Single)
      /\ CodeOf' = CodeOf
  BY <1>1, SameCommand
<1>3. pc' \in Places /\ code' \in 0 .. 6
  BY DEF TypeInv, Places
<1>4. /\ n' \in Nat /\ lines' \in Nat /\ looked' \in Nat
      /\ exit_code' \in {Running, Signal} \cup 0 .. 6
  BY DEF TypeInv, TypeOK, Command
<1>5. /\ held' \subseteq {"path", "db", "fh", "tinfo"}
      /\ lists' \subseteq Threads \cup {Main}
      /\ failed' \subseteq Faults /\ shown' \in {"nothing", "list", "part", "no_data"}
  BY DEF TypeInv, TypeOK, Faults
<1>6. (pc' = "lookup" => args'.ip) /\ (pc' = "open" => ~NoAddress')
  BY <1>1, <1>2 DEF TypeInv, TypeOK
<1>7. TypeInv'
  BY <1>1, <1>3, <1>4, <1>5, <1>6 DEF TypeInv, TypeOK
<1>8. HeldInv'
  BY DEF TypeInv, HeldInv
<1>9. ListsInv'
  BY <1>1, LookupAssumption, OptionsAreInts DEF TypeInv, TypeOK, ListsInv, ThreadsInv, Orderly
<1>10. ThreadsInv'
  BY <1>1, <1>2, LookupAssumption, OptionsAreInts
     DEF TypeInv, TypeOK, ThreadsInv, Orderly, Alive
<1>11. ModeInv'
  BY <1>1, <1>2, LookupAssumption DEF TypeInv, TypeOK, ModeInv, Single
<1>12. CodeInv'
  <2>1. /\ pc' \notin LastPlaces => report' = << >>
        /\ report' # << >> => Orderly'
    BY <1>1, <1>2 DEF CodeInv, ThreadsInv, Orderly
  <2>2. exit_code' = Running /\ pc' \notin LastPlaces \cup {"end"} =>
          code' = 0 /\ failed' \subseteq {"thread"}
    BY DEF CodeInv
  <2>3. exit_code' = Running /\ pc' = "end" => EndTold'
    OBVIOUS
  <2>4. exit_code' = Running /\ pc' \in LastPlaces => Told(code)'
    BY <1>2 DEF CodeInv, Told, Answered, Orderly
  <2>5. ExitCodeIsTrue'
    <3>1. CASE Exit
      <4>1. Told(code) /\ exit_code' = code /\ failed' = failed
            /\ UNCHANGED <<args, shown, report>> /\ code \in 0 .. 6
        BY <3>1 DEF CodeInv, TypeInv
      <4>2. Told(exit_code)'
        BY <1>2, <4>1 DEF Told, Answered, Orderly
      <4> QED BY <4>1, <4>2 DEF Told, Orderly, ExitCodeIsTrue
    <3>2. CASE Close
      BY <3>2 DEF ExitCodeIsTrue
    <3> QED BY <3>1, <3>2
  <2> QED BY <2>1, <2>2, <2>3, <2>4, <2>5 DEF CodeInv
<1> QED BY <1>7, <1>8, <1>9, <1>10, <1>11, <1>12

\* What a step of a thread may change: its own state and list, the history and
\* the exit code, and that to a signal only if its data are gone.
ThreadStep(t) ==
  /\ exit_code = Running /\ Alive(t)
  /\ UNCHANGED <<args, pc, n, lines, held, report, shown, code>>
  /\ \E s \in [at : {"loop", "list", "free"} \cup Ended, i : Nat] :
       /\ threads' = [threads EXCEPT ![t] = s]
       /\ s.at = "free" <=> t \in lists'
  /\ \A a : a # t => (a \in lists' <=> a \in lists)
  /\ looked' \in {looked, OneMore}
  /\ \/ exit_code' = Running /\ failed' \in {failed, failed \cup {"thread"}}
     \/ exit_code' = 3 /\ failed' = failed \cup {"address"}
     \/ exit_code' = 4 /\ failed' = failed \cup {"lookup"}
     \/ exit_code' = Signal /\ failed' = failed /\ ~({"db", "tinfo"} \subseteq held)

\* Each step of a thread is one.
LEMMA ThreadSteps ==
  ASSUME TypeInv, ListsInv, NEW t \in Threads, thread(t)
  PROVE  ThreadStep(t)
<1> USE DEF Ended
<1> DEFINE S == [at : {"loop", "list", "free"} \cup Ended, i : Nat]
<1>1. /\ exit_code = Running /\ Alive(t)
      /\ UNCHANGED <<args, pc, n, lines, held, report, shown, code>>
  BY DEF thread, ThreadLookup, ThreadList, ThreadFree, ThreadEnds, ThreadFaults, Active, Alive,
         LookupDies, exit
<1>2. /\ threads[t] \in S /\ threads = [threads EXCEPT ![t] = threads[t]]
      /\ threads[t].at = "free" <=> t \in lists
      /\ threads[t] = [at |-> threads[t].at, i |-> threads[t].i] /\ threads[t].i \in Nat
  BY <1>1 DEF TypeInv, TypeOK, ListsInv, Alive
<1>3. ASSUME NEW c, NEW why, exit(c, why),
             \/ c = 3 /\ why = {"address"}
             \/ c = 4 /\ why = {"lookup"}
             \/ c = Signal /\ why = {} /\ ~({"db", "tinfo"} \subseteq held)
      PROVE  ThreadStep(t)
  <2>1. /\ exit_code' = c /\ threads' = threads /\ lists' = lists /\ looked' = looked
        /\ failed' = failed \cup why
    BY <1>3 DEF exit
  <2>2. \E s \in S : threads' = [threads EXCEPT ![t] = s] /\ (s.at = "free" <=> t \in lists')
    BY <1>2, <2>1
  <2> QED BY <1>1, <1>3, <2>1, <2>2 DEF ThreadStep
<1>4. CASE ThreadLookup(t)
  <2>1. CASE LookupDies
    BY <2>1, <1>3 DEF LookupDies
  <2>2. CASE ~LookupDies
    <3>1. PICK s \in {[threads[t] EXCEPT !.i = @ + 1], [threads[t] EXCEPT !.at = "list"]} :
            threads' = [threads EXCEPT ![t] = s]
      BY <1>4, <2>2 DEF ThreadLookup, ThreadGoes
    <3>2. /\ threads[t].at = "loop" /\ looked' = OneMore
          /\ UNCHANGED <<lists, failed, exit_code>>
      BY <1>4, <2>2 DEF ThreadLookup
    <3>3. s \in S /\ s.at # "free"
      BY <1>2, <3>1, <3>2
    <3> QED BY <1>1, <1>2, <3>1, <3>2, <3>3 DEF ThreadStep
  <2> QED BY <2>1, <2>2
<1>5. CASE ThreadList(t)
  <2>1. UNCHANGED <<looked, exit_code>> /\ threads[t].at = "list"
    BY <1>5 DEF ThreadList
  <2>2. CASE /\ lists' = lists \cup {t}
             /\ ThreadGoes(t, [threads[t] EXCEPT !.at = "free"]) /\ UNCHANGED failed
    <3>1. [threads[t] EXCEPT !.at = "free"] \in S
          /\ [threads[t] EXCEPT !.at = "free"].at = "free"
      BY <1>2
    <3>2. \E s \in S : threads' = [threads EXCEPT ![t] = s] /\ (s.at = "free" <=> t \in lists')
      BY <2>2, <3>1 DEF ThreadGoes
    <3> QED BY <1>1, <2>1, <2>2, <3>2 DEF ThreadStep
  <2>3. CASE /\ failed' = failed \cup {"thread"}
             /\ ThreadGoes(t, [threads[t] EXCEPT !.at = "quit"]) /\ UNCHANGED lists
    <3>1. [threads[t] EXCEPT !.at = "quit"] \in S
          /\ [threads[t] EXCEPT !.at = "quit"].at # "free"
      BY <1>2
    <3>2. \E s \in S : threads' = [threads EXCEPT ![t] = s] /\ (s.at = "free" <=> t \in lists')
      BY <1>2, <2>1, <2>3, <3>1 DEF ThreadGoes
    <3> QED BY <1>1, <2>1, <2>3, <3>2 DEF ThreadStep
  <2> QED BY <1>5, <2>2, <2>3 DEF ThreadList
<1>6. CASE ThreadFree(t)
  <2>1. /\ UNCHANGED <<looked, failed, exit_code>> /\ lists' = lists \ {t}
        /\ threads' = [threads EXCEPT ![t] = [at |-> "loop", i |-> threads[t].i + 1]]
    BY <1>6 DEF ThreadFree, ThreadGoes
  <2>2. [at |-> "loop", i |-> threads[t].i + 1] \in S
        /\ [at |-> "loop", i |-> threads[t].i + 1].at # "free"
    BY <1>2
  <2>3. \E s \in S : threads' = [threads EXCEPT ![t] = s] /\ (s.at = "free" <=> t \in lists')
    BY <2>1, <2>2
  <2> QED BY <1>1, <2>1, <2>3 DEF ThreadStep
<1>7. CASE ThreadEnds(t)
  <2>1. /\ UNCHANGED <<lists, looked, failed, exit_code>> /\ threads[t].at = "loop"
        /\ threads' = [threads EXCEPT ![t] = [threads[t] EXCEPT !.at = "done"]]
    BY <1>7 DEF ThreadEnds, ThreadGoes
  <2>2. [threads[t] EXCEPT !.at = "done"] \in S
        /\ [threads[t] EXCEPT !.at = "done"].at # "free"
    BY <1>2
  <2>3. \E s \in S : threads' = [threads EXCEPT ![t] = s] /\ (s.at = "free" <=> t \in lists')
    BY <1>2, <2>1, <2>2
  <2> QED BY <1>1, <2>1, <2>3 DEF ThreadStep
<1>8. CASE ThreadFaults(t)
  BY <1>8, <1>3 DEF ThreadFaults
<1> QED BY <1>4, <1>5, <1>6, <1>7, <1>8 DEF thread

\* A step of a thread of the benchmark.
LEMMA ThreadKeeps ==
  ASSUME IInv, NEW t \in Threads, thread(t)
  PROVE  IInv'
<1> USE DEF Main, Running, Signal, LookupPlaces, FilePlaces, BenchPlaces, ThreadPlaces,
            LastPlaces, Ended
<1>0. ThreadStep(t) /\ TypeInv /\ HeldInv /\ ListsInv /\ ThreadsInv /\ ModeInv /\ CodeInv
  BY ThreadSteps DEF IInv
<1>1. /\ exit_code = Running /\ Alive(t)
      /\ UNCHANGED <<args, pc, n, lines, held, report, shown, code>>
  BY <1>0 DEF ThreadStep
<1>2. /\ NoAddress' <=> NoAddress
      /\ iterations' = iterations /\ thread_count' = thread_count /\ (Single' <=> Single)
      /\ CodeOf' = CodeOf
  BY <1>1, SameCommand
<1>3. PICK s \in [at : {"loop", "list", "free"} \cup Ended, i : Nat] :
        threads' = [threads EXCEPT ![t] = s] /\ (s.at = "free" <=> t \in lists')
  BY <1>0 DEF ThreadStep
<1>4. threads \in [Threads -> [at : {"none", "loop", "list", "free"} \cup Ended, i : Nat]]
  BY <1>0 DEF TypeInv, TypeOK
<1>5. /\ threads' \in [Threads -> [at : {"none", "loop", "list", "free"} \cup Ended, i : Nat]]
      /\ threads'[t] = s /\ \A u \in Threads : u # t => threads'[u] = threads[u]
  BY <1>3, <1>4
<1>6. lists' \subseteq Threads \cup {Main}
  BY <1>0 DEF ThreadStep, TypeInv, TypeOK
<1>7. looked' \in Nat /\ looked' >= looked
  BY <1>0, LookupAssumption DEF ThreadStep, OneMore, TypeInv, TypeOK
<1>8. failed' \subseteq Faults /\ (Orderly' <=> Orderly)
  BY <1>0 DEF ThreadStep, TypeInv, TypeOK, Orderly, Faults
<1>9. exit_code' \in {Running, Signal} \cup 0 .. 6
  BY <1>0 DEF ThreadStep
<1>10. pc \in {"create", "join", "close", "exit"}
  BY <1>0, <1>1 DEF ThreadsInv, Alive
<1>11. TypeInv'
  BY <1>0, <1>1, <1>2, <1>5, <1>6, <1>7, <1>8, <1>9 DEF TypeInv, TypeOK
<1>12. HeldInv'
  BY <1>0, <1>1 DEF HeldInv
<1>13. ListsInv'
  <2>1. Main \in lists' => Main \in lists
    BY <1>0, LookupAssumption DEF ThreadStep
  <2>2. \A u \in Threads : u # t => (u \in lists' <=> u \in lists)
    BY <1>0 DEF ThreadStep
  <2> QED BY <1>0, <1>1, <1>3, <1>5, <2>1, <2>2 DEF ListsInv
<1>14. ThreadsInv'
  BY <1>0, <1>1, <1>2, <1>5, <1>8 DEF ThreadsInv, Alive
<1>15. ModeInv'
  BY <1>0, <1>1, <1>2, <1>5, <1>10 DEF ModeInv
<1>16. CodeInv'
  <2>1. Orderly => pc \in {"create", "join"} /\ {"db", "tinfo"} \subseteq held
    BY <1>0, <1>1, <1>10 DEF ThreadsInv, HeldInv
  <2>2. Orderly => exit_code' # Signal /\ failed \subseteq {"thread"}
    BY <1>0, <1>1, <2>1 DEF ThreadStep, CodeInv
  <2>3. /\ CodeOf' = CodeOf /\ (Answered' <=> Answered)
        /\ CodeOf["thread"] = 0 /\ CodeOf["address"] = 3 /\ CodeOf["lookup"] = 4
    BY <1>1, <1>2, Codes DEF Answered
  <2>4. ExitCodeIsTrue'
    <3>1. CASE exit_code' \in {Running, Signal}
      BY <1>8, <2>2, <3>1 DEF ExitCodeIsTrue, Orderly
    <3>2. CASE exit_code' = 3
      BY <1>0, <2>2, <2>3, <3>2, <1>8 DEF ExitCodeIsTrue, Orderly, ThreadStep
    <3>3. CASE exit_code' = 4
      BY <1>0, <2>2, <2>3, <3>3, <1>8 DEF ExitCodeIsTrue, Orderly, ThreadStep
    <3> QED BY <1>0, <3>1, <3>2, <3>3 DEF ThreadStep
  <2>5. exit_code' = Running /\ pc \in LastPlaces => Told(code)'
    <3> SUFFICES ASSUME exit_code' = Running, pc \in LastPlaces PROVE Told(code)'
      OBVIOUS
    <3>1. Told(code) /\ failed' \in {failed, failed \cup {"thread"}}
      BY <1>0, <1>1 DEF CodeInv, ThreadStep
    <3>2. /\ (Answered' <=> Answered) /\ (Orderly' <=> Orderly)
          /\ CodeOf' = CodeOf /\ code' = code /\ CodeOf["thread"] = 0 /\ failed \subseteq failed'
          /\ \A f \in failed' : f \in failed \/ f = "thread"
      BY <1>1, <1>8, <2>3, <3>1
    <3> QED BY <3>1, <3>2, Zenon DEF Told
  <2>6. exit_code' = Running /\ pc \notin LastPlaces => code = 0 /\ failed' \subseteq {"thread"}
    BY <1>0, <1>1, <1>10 DEF CodeInv, ThreadStep
  <2> QED BY <1>0, <1>1, <1>8, <1>10, <2>4, <2>5, <2>6 DEF CodeInv
<1> QED BY <1>11, <1>12, <1>13, <1>14, <1>15, <1>16 DEF IInv

\* The invariant: what main holds and how far it is agree, lists are held only
\* where they are used, threads run only while main waits for them unless one
\* could not be created or joined, and the exit code will be true.
THEOREM ClientInvariant == Spec => []IInv
<1>1. IInv /\ [Next]_vars => IInv'
  <2> SUFFICES ASSUME IInv, [Next]_vars PROVE IInv'
    OBVIOUS
  <2>1. CASE main
    BY <2>1, OptionsKeeps, LookupAndPrintKeeps, LookupFromFileKeeps, BenchmarkKeeps,
       ThreadedBenchmarkKeeps, EndKeeps DEF main
  <2>2. CASE JoinFails
    BY <2>2, ThreadedBenchmarkKeeps
  <2>3. CASE \E t \in Threads : thread(t)
    BY <2>3, ThreadKeeps
  <2>4. CASE UNCHANGED vars
    <3>1. /\ NoAddress' <=> NoAddress
          /\ iterations' = iterations /\ thread_count' = thread_count /\ (Single' <=> Single)
          /\ CodeOf' = CodeOf
      BY <2>4, SameCommand DEF vars
    <3>2. /\ (Answered' <=> Answered) /\ (Orderly' <=> Orderly)
      BY <2>4, <3>1 DEF vars, Answered, Orderly
    <3>3. UNCHANGED <<args, pc, n, lines, held, lists, threads, looked, report, shown, failed,
                      code, exit_code>>
      BY <2>4 DEF vars
    <3>4. Told(code)' <=> Told(code)
      BY <3>1, <3>2, <3>3, Zenon DEF Told
    <3>5. ExitCodeIsTrue' <=> ExitCodeIsTrue
      BY <3>1, <3>2, <3>3, Zenon DEF ExitCodeIsTrue
    <3>6. CodeInv'
      BY <3>2, <3>3, <3>4, <3>5 DEF IInv, CodeInv, EndTold
    <3>7. TypeInv' /\ HeldInv' /\ ListsInv' /\ ThreadsInv' /\ ModeInv'
      BY <3>1, <3>2, <3>3 DEF IInv, TypeInv, TypeOK, HeldInv, ListsInv, ThreadsInv, ModeInv, Alive
    <3> QED BY <3>6, <3>7 DEF IInv
  <2> QED BY <2>1, <2>2, <2>3, <2>4 DEF Next
<1> QED BY InitIInv, <1>1, PTL DEF Spec

\* Type correctness, and that lookup_and_print has an address, for all options.
THEOREM ClientTypeCorrect == Spec => []TypeOK
<1>1. IInv => TypeOK
  BY DEF IInv, TypeInv
<1> QED BY <1>1, ClientInvariant, PTL

\* No thread of the benchmark runs after its arguments are freed or the handle
\* is closed, unless pthread_create or pthread_join failed.
THEOREM ThreadsKeepTheirData == Spec => []ThreadsOutlivedByTheirData
<1>1. IInv => ThreadsOutlivedByTheirData
  BY DEF IInv, HeldInv, ThreadsInv, Orderly, Alive, Active, LastPlaces,
         ThreadsOutlivedByTheirData
<1> QED BY <1>1, ClientInvariant, PTL

\* Every way out of every mode releases what was taken.
THEOREM EverythingIsReleased == Spec => []ReleasedOnReturn
<1>1. IInv => ReleasedOnReturn
  <2> SUFFICES ASSUME IInv, At("exit")
               PROVE  held = {} /\ \A a \in lists : a \in Threads /\ Active(a)
    BY DEF ReleasedOnReturn
  <2>1. held = {}
    BY DEF IInv, TypeInv, TypeOK, HeldInv, At, LookupPlaces, FilePlaces
  <2>2. \A a \in lists : a \in Threads /\ Active(a)
    BY DEF IInv, TypeInv, TypeOK, ListsInv, At, Active
  <2> QED BY <2>1, <2>2
<1> QED BY <1>1, ClientInvariant, PTL

\* The exit codes say what has happened: 0 that all that was asked for was shown
\* or reported, and nothing failed that the program tells of; 1 to 6 that what
\* they stand for did go wrong, in that mode, and nothing else did unless main
\* left threads behind; a signal that it did.
THEOREM ExitCodesAreTrue == Spec => []ExitCodeIsTrue
<1>1. IInv => ExitCodeIsTrue
  BY DEF IInv, CodeInv
<1> QED BY <1>1, ClientInvariant, PTL
-------------------------------------------------------------------------------
(***************************************************************************)
(* The number in the report.  Each mode's loop counter keeps step with the *)
(* history of lookups.  With threads it is the sum over all of them that   *)
(* does: g[k] is what the first k threads have looked up, and main's own   *)
(* loop of joins adds up the threads that are done.                        *)
(***************************************************************************)
\* The runs of which the report says something, and those among them in which
\* all threads got through.
Exact == looked < MaxLooked /\ Orderly /\ iterations >= 0

AllThrough == "thread" \notin failed

\* How a loop begins.
StartInv ==
  /\ pc \in {"options", "open"} => n = 0
  /\ pc \in {"fopen", "tinfo"} => looked = 0
  /\ pc \in ThreadPlaces => thread_count > 0
  /\ pc \in {"create", "join"} => n <= thread_count
  /\ \A t \in Threads : threads[t].at = "none" => threads[t].i = 0

\* The loops of one thread.
LoopInv ==
  Exact =>
    /\ pc \in FilePlaces => n = looked + (IF pc = "file_lookup" THEN 1 ELSE 0)
    /\ pc = "benchmark" => n = looked /\ n <= iterations
    /\ pc \in {"bench_list", "bench_free"} => n + 1 = looked /\ n < iterations

\* The loop of each thread of many.
ThreadLoopInv ==
  Exact => \A t \in Threads :
    /\ threads[t].at = "loop" => threads[t].i <= iterations
    /\ threads[t].at \in {"list", "free", "quit"} => threads[t].i < iterations
    /\ threads[t].at = "done" => threads[t].i = iterations
    /\ AllThrough => threads[t].at # "quit"

LookedBy(t) == threads[t].i + (IF threads[t].at \in {"list", "free", "quit"} THEN 1 ELSE 0)

IsSum(g) ==
  /\ g \in [0 .. thread_count -> Nat] /\ g[0] = 0 /\ g[thread_count] = looked
  /\ \A k \in 0 .. (thread_count - 1) : g[k + 1] = g[k] + LookedBy(k)
  /\ pc = "join" => g[n] <= n * iterations /\ (AllThrough => g[n] = n * iterations)

SumInv == Exact /\ pc \in {"create", "join"} => \E g : IsSum(g)

\* Once there is a report, no thread is left to look anything up.
ReportInv ==
  Exact /\ report # << >> =>
    /\ AllThrough => SameInt(report[1], looked) /\ (Fits => report[1] = looked)
    /\ Fits => report[1] >= looked

CountInv == StartInv /\ LoopInv /\ ThreadLoopInv /\ SumInv /\ ReportInv

\* Before anything is looked up, nothing is counted.
LEMMA InitCounts == Init => CountInv
<1> SUFFICES ASSUME Init PROVE CountInv
  OBVIOUS
<1>1. /\ pc = "options" /\ n = 0 /\ looked = 0 /\ report = << >>
      /\ threads = [t \in Threads |-> [at |-> "none", i |-> 0]]
  BY DEF Init
<1>2. \A t \in Threads : threads[t].at = "none" /\ threads[t].i = 0
  BY <1>1
<1>3. StartInv
  BY <1>1, <1>2 DEF StartInv, ThreadPlaces
<1>4. LoopInv /\ SumInv /\ ReportInv
  BY <1>1 DEF LoopInv, SumInv, ReportInv, FilePlaces
<1>5. ThreadLoopInv
  <2>1. \A t \in Threads : /\ threads[t].at = "none"
                           /\ threads[t].at \notin {"loop", "list", "free", "quit", "done"}
    BY <1>2
  <2> QED BY <2>1 DEF ThreadLoopInv
<1> QED BY <1>3, <1>4, <1>5 DEF CountInv

\* A lookup is counted unless the history has stopped counting.
LEMMA Recorded ==
  ASSUME TypeInv, looked' = OneMore
  PROVE  looked' < MaxLooked => looked < MaxLooked /\ looked' = looked + 1
BY LookupAssumption DEF TypeInv, TypeOK, OneMore

\* The steps of main that no thread comes into: what they say about the sum and
\* the threads.
LEMMA Unthreaded ==
  ASSUME IInv, CountInv, UNCHANGED <<args, threads>>,
         pc' \in {"create", "join"} => UNCHANGED <<pc, n, looked, failed>>,
         Exact' => Exact, failed \subseteq failed'
  PROVE  SumInv' /\ ThreadLoopInv'
<1>1. iterations' = iterations /\ thread_count' = thread_count
  BY DEF iterations, thread_count
<1>2. ThreadLoopInv'
  BY <1>1 DEF ThreadLoopInv, CountInv, AllThrough
<1>3. SumInv'
  <2> SUFFICES ASSUME Exact', pc' \in {"create", "join"} PROVE \E g : IsSum(g)'
    BY DEF SumInv
  <2>1. PICK g : IsSum(g)
    BY DEF CountInv, SumInv
  <2>2. IsSum(g)'
    BY <1>1, <2>1 DEF IsSum, LookedBy, AllThrough
  <2> QED BY <2>2
<1> QED BY <1>2, <1>3

\* get_options and open_or_die.
LEMMA OptionsCount ==
  ASSUME IInv, CountInv, OptionsExit \/ get_options \/ open_or_die
  PROVE  CountInv'
<1>1. /\ UNCHANGED <<args, threads, n, looked, report>> /\ failed \subseteq failed'
      /\ pc \in {"options", "open"}
      /\ pc' = pc \/ pc' \in {"open", "fopen", "lookup", "benchmark"}
                  \/ (pc' = "tinfo" /\ thread_count > 0)
  BY DEF OptionsExit, get_options, open_or_die, At, Goto, exit, Mode
<1>2. iterations' = iterations /\ thread_count' = thread_count
  BY <1>1 DEF iterations, thread_count
<1>3. looked = 0 /\ n = 0 /\ report = << >>
  BY <1>1 DEF IInv, ModeInv, CodeInv, LastPlaces, CountInv, StartInv
<1>4. Exact' => Exact
  BY <1>1, <1>2 DEF Exact, Orderly
<1>5. SumInv' /\ ThreadLoopInv'
  BY <1>1, <1>4, Unthreaded
<1>6. StartInv'
  BY <1>1, <1>2, <1>3 DEF CountInv, StartInv, ThreadPlaces
<1>7. LoopInv'
  BY <1>1, <1>2, <1>3 DEF LoopInv, FilePlaces, Exact
<1>8. ReportInv'
  BY <1>1, <1>3 DEF ReportInv
<1> QED BY <1>5, <1>6, <1>7, <1>8 DEF CountInv

\* lookup_and_print reports nothing.
LEMMA LookupAndPrintCounts ==
  ASSUME IInv, CountInv, Lookup \/ Value \/ List \/ End
  PROVE  CountInv'
<1>1. /\ UNCHANGED <<args, threads, n, report>> /\ failed \subseteq failed'
      /\ pc \in LookupPlaces /\ pc' \in LookupPlaces \cup {"exit"}
      /\ looked' = looked \/ looked' = OneMore
  BY DEF Lookup, Value, List, End, DumpList, At, Goto, exit, LookupDies, LookedUp, TakeList,
         Quiet, Fault, LookupPlaces
<1>2. iterations' = iterations /\ thread_count' = thread_count
  BY <1>1 DEF iterations, thread_count
<1>3. Exact' => Exact
  BY <1>1, <1>2, Recorded DEF Exact, Orderly, IInv
<1>4. SumInv' /\ ThreadLoopInv'
  BY <1>1, <1>3, Unthreaded DEF LookupPlaces
<1>5. report = << >>
  BY <1>1 DEF IInv, CodeInv, LookupPlaces, LastPlaces
<1>6. StartInv'
  BY <1>1, <1>2 DEF CountInv, StartInv, ThreadPlaces, LookupPlaces
<1>7. LoopInv' /\ ReportInv'
  BY <1>1, <1>5 DEF LoopInv, ReportInv, FilePlaces, LookupPlaces
<1> QED BY <1>4, <1>6, <1>7 DEF CountInv

\* A report of the number looked up is what ReportInv asks for.
LEMMA ExactReport ==
  ASSUME looked' \in Nat, report' # << >> /\ Exact' => report' = <<looked'>>
  PROVE  ReportInv'
<1>1. \A x \in Nat : <<x>>[1] = x
  OBVIOUS
<1>2. SameInt(looked', looked')
  <2>1. \A m \in Nat \ {0}, x \in Nat : (x - x) % m = 0
    OBVIOUS
  <2>2. 2 * (INT_MAX + 1) \in Nat \ {0}
    BY LookupAssumption
  <2> QED BY <2>1, <2>2 DEF SameInt
<1> SUFFICES ASSUME Exact', report' # << >> PROVE report'[1] = looked'
  BY <1>2 DEF ReportInv
<1> QED BY <1>1

\* lookup_from_file counts the lines that it looks up.
LEMMA LookupFromFileCounts ==
  ASSUME IInv, CountInv,
         Fopen \/ FgetsFails \/ Fgets \/ EndOfFile \/ FileLookup \/ FileListFails
           \/ FileList \/ FileDumpFails \/ FileFree
  PROVE  CountInv'
<1> USE DEF FilePlaces, LastPlaces, ThreadPlaces
<1>1. /\ UNCHANGED <<args, threads>> /\ failed \subseteq failed'
      /\ pc \in FilePlaces \cup {"fopen"} /\ pc' \in FilePlaces \cup {"fopen", "close"}
      /\ pc' = "fopen" => pc = "fopen"
      /\ looked' = looked \/ looked' = OneMore
  BY DEF Fopen, FgetsFails, Fgets, EndOfFile, FileLookup, FileListFails, FileList,
         FileDumpFails, FileFree, FileFails, At, Goto, exit, ReturnToClose, LookupDies,
         LookedUp, TakeList, FreeList, Quiet, Fault
<1>2. iterations' = iterations /\ thread_count' = thread_count
  BY <1>1 DEF iterations, thread_count
<1>3. Exact' => Exact /\ (looked' = OneMore => looked' = looked + 1)
  BY <1>1, <1>2, Recorded DEF Exact, Orderly, IInv
<1>4. SumInv' /\ ThreadLoopInv'
  BY <1>1, <1>3, Unthreaded
<1>5. report = << >> /\ n \in Nat /\ looked \in Nat
  BY <1>1 DEF IInv, CodeInv, TypeInv, TypeOK
<1>6. pc = "fopen" => looked = 0
  BY DEF CountInv, StartInv
<1>7. Exact => (pc \in FilePlaces => n = looked + (IF pc = "file_lookup" THEN 1 ELSE 0))
  BY DEF CountInv, LoopInv
<1>8. StartInv'
  <2>1. pc' \in {"fopen", "tinfo"} => looked' = 0
    <3>1. CASE Fopen
      BY <1>6, <3>1 DEF Fopen, At
    <3>2. CASE ~Fopen
      BY <1>1, <3>2 DEF FgetsFails, Fgets, EndOfFile, FileLookup, FileListFails, FileList,
        FileDumpFails, FileFree, At
    <3> QED BY <3>1, <3>2
  <2> QED BY <1>1, <1>2, <2>1 DEF CountInv, StartInv
<1>9. LoopInv'
  <2> SUFFICES ASSUME Exact', pc' \in FilePlaces
               PROVE  n' = looked' + (IF pc' = "file_lookup" THEN 1 ELSE 0)
    BY <1>1 DEF LoopInv
  <2>1. CASE Fopen
    BY <1>6, <2>1 DEF Fopen, At, Goto, ReturnToClose
  <2>2. CASE Fgets
    <3>1. n = looked /\ looked' = looked
      BY <1>3, <1>5, <1>7, <2>2 DEF Fgets, At
    <3> QED BY <1>5, <2>2, <3>1 DEF Fgets, Goto
  <2>3. CASE FileLookup
    <3>1. n = looked + 1 /\ n' = n /\ pc = "file_lookup"
      BY <1>3, <1>5, <1>7, <2>3 DEF FileLookup, At, LookupDies, exit
    <3>2. CASE LookupDies
      BY <1>5, <3>1, <3>2 DEF LookupDies, exit
    <3>3. CASE ~LookupDies
      <4>1. looked' = OneMore /\ pc' # "file_lookup"
        BY <2>3, <3>3 DEF FileLookup, LookedUp, Goto
      <4> QED BY <1>3, <1>5, <3>1, <4>1
    <3> QED BY <3>2, <3>3
  <2>4. CASE FileList \/ FileFree
    <3>1. pc \in FilePlaces /\ pc # "file_lookup" /\ pc' # "file_lookup"
          /\ UNCHANGED <<n, looked>>
      BY <2>4 DEF FileList, FileFree, At, TakeList, FreeList, Goto
    <3> QED BY <1>3, <1>5, <1>7, <3>1
  <2>5. CASE FgetsFails \/ EndOfFile \/ FileListFails \/ FileDumpFails
    BY <2>5 DEF FgetsFails, EndOfFile, FileListFails, FileDumpFails, FileFails,
      ReturnToClose, Goto
  <2> QED BY <2>1, <2>2, <2>3, <2>4, <2>5
<1>10. ReportInv'
  <2>1. CASE EndOfFile
    <3>1. pc = "fgets" /\ looked' = looked /\ (report' = report \/ report' = <<n>>)
      BY <2>1 DEF EndOfFile, At
    <3>2. Exact' => n = looked
      BY <1>3, <1>5, <1>7, <3>1
    <3>3. report' # << >> /\ Exact' => report' = <<looked'>>
      BY <1>5, <3>1, <3>2
    <3> QED BY <1>5, <3>1, <3>3, ExactReport
  <2>2. CASE ~EndOfFile
    <3>1. report' = report
      BY <2>2 DEF Fopen, FgetsFails, Fgets, FileLookup, FileListFails, FileList, FileDumpFails,
        FileFree, FileFails, LookupDies, exit, LookedUp, TakeList, FreeList
    <3> QED BY <1>5, <3>1 DEF ReportInv
  <2> QED BY <2>1, <2>2
<1> QED BY <1>4, <1>8, <1>9, <1>10 DEF CountInv

\* benchmark counts up to iterations.
LEMMA BenchmarkCounts ==
  ASSUME IInv, CountInv, Bench \/ BenchList \/ BenchFree \/ BenchEnds
  PROVE  CountInv'
<1> USE DEF BenchPlaces, LastPlaces, ThreadPlaces, FilePlaces
<1>1. /\ UNCHANGED <<args, threads>> /\ failed \subseteq failed'
      /\ pc \in BenchPlaces /\ pc' \in BenchPlaces \cup {"close"}
      /\ looked' = looked \/ looked' = OneMore
  BY DEF Bench, BenchList, BenchFree, BenchEnds, At, Goto, exit, ReturnToClose, LookupDies,
         LookedUp, TakeList, FreeList, Quiet, Fault
<1>2. iterations' = iterations /\ thread_count' = thread_count /\ iterations \in Int
  BY <1>1, OptionsAreInts DEF iterations, thread_count, IInv, TypeInv
<1>3. Exact' => Exact /\ (looked' = OneMore => looked' = looked + 1)
  BY <1>1, <1>2, Recorded DEF Exact, Orderly, IInv
<1>4. SumInv' /\ ThreadLoopInv'
  BY <1>1, <1>3, Unthreaded
<1>5. report = << >> /\ n \in Nat /\ looked \in Nat
  BY <1>1 DEF IInv, CodeInv, TypeInv, TypeOK
<1>6. Exact => /\ pc = "benchmark" => n = looked /\ n <= iterations
               /\ pc \in {"bench_list", "bench_free"} => n + 1 = looked /\ n < iterations
  BY DEF CountInv, LoopInv
<1>7. StartInv'
  BY <1>1, <1>2 DEF CountInv, StartInv
<1>8. LoopInv'
  <2> SUFFICES ASSUME Exact'
               PROVE  /\ pc' = "benchmark" => n' = looked' /\ n' <= iterations
                      /\ pc' \in {"bench_list", "bench_free"} =>
                           n' + 1 = looked' /\ n' < iterations
    BY <1>1, <1>2 DEF LoopInv
  <2>1. CASE Bench
    <3>1. pc = "benchmark" /\ n < iterations
      BY <2>1 DEF Bench, At
    <3>2. CASE LookupDies
      BY <1>3, <1>6, <3>1, <3>2 DEF LookupDies, exit
    <3>3. CASE ~LookupDies
      <4>1. looked' = OneMore
            /\ ((pc' = "benchmark" /\ n' = n + 1) \/ (pc' = "bench_list" /\ n' = n))
        BY <2>1, <3>3 DEF Bench, LookedUp, Goto
      <4> QED BY <1>2, <1>3, <1>5, <1>6, <3>1, <4>1
    <3> QED BY <3>2, <3>3
  <2>2. CASE BenchList
    <3>1. pc = "bench_list" /\ UNCHANGED <<n, looked>> /\ pc' \in {"bench_free", "close"}
      BY <2>2 DEF BenchList, At, TakeList, ReturnToClose, Goto
    <3> QED BY <1>3, <1>6, <3>1
  <2>3. CASE BenchFree
    <3>1. pc = "bench_free" /\ n' = n + 1 /\ looked' = looked /\ pc' = "benchmark"
      BY <2>3 DEF BenchFree, At, FreeList, Goto
    <3> QED BY <1>2, <1>3, <1>5, <1>6, <3>1
  <2>4. CASE BenchEnds
    BY <2>4 DEF BenchEnds, ReturnToClose, Goto
  <2> QED BY <2>1, <2>2, <2>3, <2>4
<1>9. ReportInv'
  <2>1. CASE BenchEnds
    <3>1. /\ pc = "benchmark" /\ looked' = looked /\ report' = <<iterations>>
          /\ n >= iterations
      BY <2>1 DEF BenchEnds, At
    <3>2. Exact' => iterations = looked
      BY <1>2, <1>3, <1>5, <1>6, <3>1
    <3> QED BY <1>5, <3>1, <3>2, ExactReport
  <2>2. CASE ~BenchEnds
    <3>1. report' = report
      BY <2>2 DEF Bench, BenchList, BenchFree, LookupDies, exit, LookedUp, TakeList, FreeList
    <3> QED BY <1>5, <3>1 DEF ReportInv
  <2> QED BY <2>1, <2>2
<1> QED BY <1>4, <1>7, <1>8, <1>9 DEF CountInv

\* Adding a multiple of m to a number changes nothing of what is left of it.
LEMMA Multiples ==
  ASSUME NEW m \in Nat \ {0}, NEW x \in Int, NEW y \in Int, x % m = 0, y % m = 0
  PROVE  (x + y) % m = 0
<1>1. \A a \in Int : a = m * (a \div m) + (a % m) /\ a \div m \in Int
  OBVIOUS
<1>2. x = m * (x \div m) /\ y = m * (y \div m)
  BY <1>1
<1>3. \A a, b \in Int : m * a + m * b = m * (a + b)
  OBVIOUS
<1>4. x + y = m * ((x \div m) + (y \div m)) /\ (x \div m) + (y \div m) \in Int
  BY <1>1, <1>2, <1>3
<1>5. \A a \in Int : (m * a) % m = 0
  OBVIOUS
<1> QED BY <1>4, <1>5

\* What a number loses when it wraps around at a multiple of m is a multiple of m.
LEMMA WrapsByMultiples ==
  ASSUME NEW m \in Nat \ {0}, NEW u \in Nat \ {0}, u % m = 0, NEW y \in Int
  PROVE  ((y % u) - y) % m = 0
<1>1. \A a \in Int, d \in Nat \ {0} : a = d * (a \div d) + (a % d) /\ a \div d \in Int
  OBVIOUS
<1> DEFINE q == y \div u
           k == u \div m
<1>2. y = u * q + (y % u) /\ u = m * k /\ q \in Int /\ k \in Int /\ y % u \in Int
  BY <1>1
<1>3. \A a, b \in Int : (m * a) * b = m * (a * b) /\ 0 - m * (a * b) = m * (0 - a * b)
  OBVIOUS
<1>4. (y % u) - y = m * (0 - k * q) /\ 0 - k * q \in Int
  <2> HIDE DEF q, k
  <2>1. u * q = m * (k * q) /\ k * q \in Int
    BY <1>2, <1>3
  <2>2. (y % u) - y = 0 - m * (k * q)
    BY <1>2, <2>1
  <2> QED BY <1>2, <1>3, <2>1, <2>2
<1>5. \A a \in Int : (m * a) % m = 0
  OBVIOUS
<1> HIDE DEF q, k
<1> QED BY <1>4, <1>5

\* However the build computes it, a product is reported in the bits of an int as
\* it is.
LEMMA TotalsAreSame ==
  ASSUME NEW x \in Int
  PROVE  SameInt(ToInt(x) % ULLONG, x) /\ SameInt(x % ULLONG, x)
<1> DEFINE m == 2 * (INT_MAX + 1)
           z == x + INT_MAX + 1
<1>1. /\ m \in Nat \ {0} /\ ULLONG \in Nat \ {0} /\ ULLONG % m = 0 /\ z \in Int
      /\ ToInt(x) \in Int
  BY LookupAssumption, ToIntType
<1>2. m % m = 0
  BY <1>1
<1>3. ((x % ULLONG) - x) % m = 0 /\ ((ToInt(x) % ULLONG) - ToInt(x)) % m = 0
  BY <1>1, WrapsByMultiples
<1>4. (ToInt(x) - x) % m = 0
  <2>1. ((z % m) - z) % m = 0
    BY <1>1, <1>2, WrapsByMultiples
  <2>2. ToInt(x) - x = (z % m) - z
    BY <1>1, LookupAssumption DEF ToInt
  <2> QED BY <2>1, <2>2
<1>5. ((ToInt(x) % ULLONG) - x) % m = 0
  <2>1. ToInt(x) % ULLONG \in Int
    BY <1>1
  <2>2. (ToInt(x) % ULLONG) - x = ((ToInt(x) % ULLONG) - ToInt(x)) + (ToInt(x) - x)
    BY <1>1, <2>1
  <2>3. (ToInt(x) % ULLONG) - ToInt(x) \in Int /\ ToInt(x) - x \in Int
    BY <1>1, <2>1
  <2> HIDE DEF m
  <2> QED BY <1>1, <1>3, <1>4, <2>2, <2>3, Multiples
<1> QED BY <1>3, <1>5 DEF SameInt

\* A number that fits an int is reported as it is.
LEMMA FitsInt ==
  ASSUME NEW x \in Nat, x <= INT_MAX
  PROVE  ToInt(x) % ULLONG = x /\ x % ULLONG = x
<1>1. \A m \in Nat, y \in Nat : y < m => y % m = y
  OBVIOUS
<1>2. INT_MAX \in Nat /\ ULLONG \in Nat /\ ULLONG > INT_MAX
  BY LookupAssumption
<1> DEFINE y == x + INT_MAX + 1
           m == 2 * (INT_MAX + 1)
<1>3. y \in Nat /\ m \in Nat /\ y < m
  BY <1>2
<1>4. y % m = y
  BY <1>1, <1>3
<1>5. ToInt(x) = y - (INT_MAX + 1)
  BY <1>4 DEF ToInt
<1>6. ToInt(x) = x
  BY <1>2, <1>5
<1> QED BY <1>1, <1>2, <1>6

\* start_threaded_benchmark: the threads are created with nothing looked up, and
\* a thread that is joined has looked up what it was to.
LEMMA ThreadedBenchmarkCounts ==
  ASSUME IInv, CountInv,
         StartBenchmark \/ CreateThread \/ CreatedAll \/ JoinThread \/ JoinFails \/ JoinedAll
  PROVE  CountInv'
<1> USE DEF BenchPlaces, LastPlaces, ThreadPlaces, FilePlaces
<1>1. /\ UNCHANGED <<args, looked>> /\ failed \subseteq failed'
      /\ pc \in ThreadPlaces /\ pc' \in {"create", "join", "close"}
  BY DEF StartBenchmark, CreateThread, CreatedAll, JoinThread, JoinFails, JoinedAll, Abandon,
         At, Goto, ReturnToClose, Quiet, Fault
<1>2. /\ iterations' = iterations /\ thread_count' = thread_count
      /\ iterations \in Int /\ thread_count \in Int
  BY <1>1, OptionsAreInts DEF iterations, thread_count, IInv, TypeInv
<1>3. Exact' => Exact
  BY <1>1, <1>2 DEF Exact, Orderly
<1>4. /\ report = << >> /\ n \in Nat /\ looked \in Nat /\ thread_count > 0
      /\ pc \in {"create", "join"} => n <= thread_count
      /\ threads \in [Threads -> [at : {"none", "loop", "list", "free"} \cup Ended, i : Nat]]
  BY <1>1 DEF IInv, CodeInv, TypeInv, TypeOK, CountInv, StartInv
<1>5. 0 .. (thread_count - 1) \subseteq Threads
  BY <1>4, LookupAssumption DEF IInv, TypeInv, thread_count
<1>6. \A k \in Threads : threads[k].i \in Nat /\ LookedBy(k) \in Nat
  BY <1>4 DEF LookedBy
<1>7. CASE \/ JoinFails
           \/ \E why \in {"memory", "clock", "create"} : Abandon(why)
  <2>1. UNCHANGED <<threads, report>> /\ pc' = "close"
    BY <1>7 DEF Abandon, JoinFails, ReturnToClose, Goto, Fault
  <2>2. StartInv'
    BY <2>1 DEF CountInv, StartInv
  <2>3. LoopInv' /\ SumInv' /\ ReportInv'
    BY <1>4, <2>1 DEF LoopInv, SumInv, ReportInv
  <2>4. ThreadLoopInv'
    BY <1>1, <1>2, <1>3, <2>1 DEF CountInv, ThreadLoopInv, AllThrough
  <2> QED BY <2>2, <2>3, <2>4 DEF CountInv
<1>8. CASE StartBenchmark /\ pc' # "close"
  <2>1. /\ UNCHANGED <<threads, report>> /\ pc = "tinfo" /\ pc' = "create" /\ n' = 0
    BY <1>8 DEF StartBenchmark, Abandon, ReturnToClose, Goto, At, Quiet, Fault
  <2>2. looked = 0 /\ \A t \in Threads : threads[t].at = "none" /\ threads[t].i = 0
    BY <2>1 DEF IInv, ThreadsInv, CountInv, StartInv
  <2>3. StartInv'
    BY <1>2, <1>4, <2>1 DEF CountInv, StartInv
  <2>4. LoopInv' /\ ReportInv'
    BY <1>4, <2>1 DEF LoopInv, ReportInv
  <2>5. ThreadLoopInv'
    BY <1>1, <1>2, <1>3, <2>1 DEF CountInv, ThreadLoopInv, AllThrough
  <2>6. SumInv'
    <3>0. PICK g : g = [k \in 0 .. thread_count |-> 0]
      OBVIOUS
    <3>1. g \in [0 .. thread_count -> Nat] /\ g[0] = 0 /\ g[thread_count] = 0
      BY <1>2, <1>4, <3>0
    <3>2. \A k \in 0 .. (thread_count - 1) : LookedBy(k)' = 0
      BY <1>5, <2>1, <2>2 DEF LookedBy
    <3>3. \A k \in 0 .. (thread_count - 1) : g[k + 1] = 0 /\ g[k] = 0
      BY <1>2, <3>0
    <3>4. \A k \in 0 .. (thread_count - 1) : g[k + 1] = g[k] + LookedBy(k)'
      BY <3>2, <3>3
    <3>5. IsSum(g)'
      BY <1>1, <1>2, <2>1, <2>2, <3>1, <3>4 DEF IsSum
    <3> QED BY <3>5 DEF SumInv
  <2> QED BY <2>3, <2>4, <2>5, <2>6 DEF CountInv
<1>9. CASE CreateThread /\ pc' # "close"
  <2>1. /\ UNCHANGED report /\ pc = "create" /\ pc' = "create" /\ n' = n + 1
        /\ n < thread_count /\ threads' = [threads EXCEPT ![n].at = "loop"]
    BY <1>9 DEF CreateThread, Abandon, ReturnToClose, Goto, At, Fault
  <2>2. n \in 0 .. (thread_count - 1) /\ n \in Threads
    BY <1>2, <1>4, <1>5, <2>1
  <2>3. Orderly /\ (threads[n].at # "none" => n < n)
    BY <2>1, <2>2 DEF IInv, ThreadsInv
  <2>4. threads[n].at = "none" /\ threads[n].i = 0
    BY <1>4, <2>2, <2>3 DEF CountInv, StartInv
  <2>5. /\ threads'[n].at = "loop" /\ threads'[n].i = 0
        /\ \A t \in Threads : t # n => threads'[t] = threads[t]
    BY <1>4, <2>1, <2>2, <2>4
  <2>6. StartInv'
    BY <1>2, <1>4, <2>1, <2>5 DEF CountInv, StartInv
  <2>7. LoopInv' /\ ReportInv'
    BY <1>4, <2>1 DEF LoopInv, ReportInv
  <2>8. ThreadLoopInv'
    BY <1>1, <1>2, <1>3, <2>4, <2>5 DEF CountInv, ThreadLoopInv, AllThrough, Exact
  <2>9. SumInv'
    <3> SUFFICES ASSUME Exact' PROVE \E g : IsSum(g)'
      BY DEF SumInv
    <3>1. PICK g : IsSum(g)
      BY <1>3, <2>1 DEF CountInv, SumInv
    <3>2. \A k \in Threads : LookedBy(k)' = LookedBy(k)
      BY <2>4, <2>5 DEF LookedBy
    <3>3. IsSum(g)'
      BY <1>1, <1>2, <1>5, <2>1, <3>1, <3>2 DEF IsSum
    <3> QED BY <3>3
  <2> QED BY <2>6, <2>7, <2>8, <2>9 DEF CountInv
<1>10. CASE CreatedAll
  <2>1. /\ UNCHANGED <<report, threads>> /\ pc = "create" /\ pc' = "join" /\ n' = 0
    BY <1>10 DEF CreatedAll, Goto, At, Quiet
  <2>2. StartInv'
    BY <1>2, <1>4, <2>1 DEF CountInv, StartInv
  <2>3. LoopInv' /\ ReportInv'
    BY <1>4, <2>1 DEF LoopInv, ReportInv
  <2>4. ThreadLoopInv'
    BY <1>1, <1>2, <1>3, <2>1 DEF CountInv, ThreadLoopInv, AllThrough
  <2>5. SumInv'
    <3> SUFFICES ASSUME Exact' PROVE \E g : IsSum(g)'
      BY DEF SumInv
    <3>1. PICK g : IsSum(g)
      BY <1>3, <2>1 DEF CountInv, SumInv
    <3>2. g[n'] = n' * iterations' /\ g[n'] <= n' * iterations'
      BY <1>2, <2>1, <3>1 DEF IsSum
    <3>3. IsSum(g)'
      BY <1>1, <1>2, <2>1, <3>1, <3>2 DEF IsSum, LookedBy
    <3> QED BY <3>3
  <2> QED BY <2>2, <2>3, <2>4, <2>5 DEF CountInv
<1>11. CASE JoinThread
  <2>1. /\ UNCHANGED <<report, threads>> /\ pc = "join" /\ pc' = "join" /\ n' = n + 1
        /\ n < thread_count /\ threads[n].at \in {"done", "quit"} /\ failed' = failed
    BY <1>11 DEF JoinThread, Goto, At, Quiet, Ended
  <2>2. n \in 0 .. (thread_count - 1) /\ n \in Threads
    BY <1>2, <1>4, <1>5, <2>1
  <2>3. StartInv'
    BY <1>2, <1>4, <2>1 DEF CountInv, StartInv
  <2>4. LoopInv' /\ ReportInv'
    BY <1>4, <2>1 DEF LoopInv, ReportInv
  <2>5. ThreadLoopInv'
    BY <1>1, <1>2, <1>3, <2>1 DEF CountInv, ThreadLoopInv, AllThrough
  <2>6. SumInv'
    <3> SUFFICES ASSUME Exact' PROVE \E g : IsSum(g)'
      BY DEF SumInv
    <3>1. PICK g : IsSum(g)
      BY <1>3, <2>1 DEF CountInv, SumInv
    <3>2. LookedBy(n) <= iterations /\ (AllThrough => LookedBy(n) = iterations)
      <4>1. /\ threads[n].at = "done" => threads[n].i = iterations
            /\ threads[n].at = "quit" => threads[n].i < iterations /\ ~AllThrough
        BY <1>3, <2>1, <2>2 DEF CountInv, ThreadLoopInv
      <4> QED BY <1>2, <1>6, <2>1, <2>2, <4>1 DEF LookedBy
    <3>3. /\ g[n] <= n * iterations /\ (AllThrough => g[n] = n * iterations)
          /\ g[n + 1] = g[n] + LookedBy(n) /\ g[n] \in Nat /\ LookedBy(n) \in Nat
      BY <1>2, <1>6, <2>1, <2>2, <3>1 DEF IsSum
    <3>4. (n + 1) * iterations = n * iterations + iterations /\ n * iterations \in Int
      BY <1>2, <1>4
    <3>5. g[n'] <= n' * iterations' /\ (AllThrough => g[n'] = n' * iterations')
      <4>1. \A a, b, c, d \in Int : a <= b /\ c <= d => a + c <= b + d
        OBVIOUS
      <4>2. g[n + 1] <= (n + 1) * iterations
        BY <1>2, <3>2, <3>3, <3>4, <4>1
      <4>3. AllThrough => g[n + 1] = (n + 1) * iterations
        BY <1>2, <3>2, <3>3, <3>4
      <4> QED BY <1>2, <2>1, <4>2, <4>3
    <3>6. IsSum(g)'
      BY <1>1, <1>2, <2>1, <3>1, <3>5 DEF IsSum, LookedBy, AllThrough
    <3> QED BY <3>6
  <2> QED BY <2>3, <2>4, <2>5, <2>6 DEF CountInv
<1>12. CASE JoinedAll
  <2>1. /\ UNCHANGED threads /\ pc = "join" /\ pc' = "close" /\ n = thread_count
        /\ report' = report \/ \E total_ips \in TotalIps : report' = <<total_ips>>
    BY <1>12 DEF JoinedAll, ReturnToClose, Goto, At, Quiet, Fault
  <2>2. StartInv'
    BY <2>1 DEF CountInv, StartInv
  <2>3. LoopInv' /\ SumInv'
    BY <2>1 DEF LoopInv, SumInv
  <2>4. ThreadLoopInv'
    BY <1>1, <1>2, <1>3, <2>1 DEF CountInv, ThreadLoopInv, AllThrough
  <2>5. ReportInv'
    <3> DEFINE total == iterations * thread_count
    <3> SUFFICES ASSUME Exact', report' # << >>
                 PROVE  /\ AllThrough => /\ SameInt(report'[1], looked)
                                         /\ Fits => report'[1] = looked
                        /\ Fits => report'[1] >= looked
      BY <1>1, <1>2 DEF ReportInv, AllThrough, Fits
    <3>1. PICK g : IsSum(g)
      BY <1>3, <2>1 DEF CountInv, SumInv
    <3>2. \A a, b \in Int : a * b = b * a
      OBVIOUS
    <3>3. total \in Int /\ looked <= total /\ (AllThrough => looked = total)
      BY <1>2, <1>4, <2>1, <3>1, <3>2 DEF IsSum
    <3>4. ~args.ip_file
      BY <2>1 DEF IInv, ModeInv
    <3> HIDE DEF total
    <3>5. PICK total_ips \in {ToInt(total) % ULLONG, total % ULLONG} : report' = <<total_ips>>
      BY <1>4, <2>1 DEF TotalIps, total
    <3>6. report'[1] = total_ips
      BY <3>5
    <3>7. SameInt(total_ips, total)
      BY <3>3, <3>5, TotalsAreSame
    <3>8. Fits => total_ips = total
      <4>1. Fits => total \in Nat /\ total <= INT_MAX
        BY <1>2, <1>4, <3>3, <3>4 DEF Fits, total
      <4> QED BY <3>5, <4>1, FitsInt
    <3> QED BY <1>4, <3>3, <3>6, <3>7, <3>8
  <2> QED BY <2>2, <2>3, <2>4, <2>5 DEF CountInv
<1>13. StartBenchmark /\ pc' = "close" => \E why \in {"memory", "clock"} : Abandon(why)
  BY DEF StartBenchmark, Goto
<1>14. CreateThread /\ pc' = "close" => Abandon("create")
  BY DEF CreateThread, Goto
<1> QED BY <1>7, <1>8, <1>9, <1>10, <1>11, <1>12, <1>13, <1>14

\* The end of main.
LEMMA EndCounts ==
  ASSUME IInv, CountInv, Close \/ Exit
  PROVE  CountInv'
<1>1. /\ UNCHANGED <<args, threads, n, looked, report>> /\ failed' = failed
      /\ pc \in LastPlaces /\ pc' \in LastPlaces
  BY DEF Close, Exit, At, Goto, exit, Quiet, LastPlaces
<1>2. iterations' = iterations /\ thread_count' = thread_count
  BY <1>1 DEF iterations, thread_count
<1>3. Exact' <=> Exact
  BY <1>1, <1>2 DEF Exact, Orderly
<1>4. SumInv' /\ ThreadLoopInv'
  BY <1>1, <1>3, Unthreaded DEF LastPlaces
<1>5. StartInv' /\ LoopInv'
  BY <1>1, <1>2 DEF CountInv, StartInv, LoopInv, ThreadPlaces, LastPlaces, FilePlaces
<1>6. ReportInv'
  BY <1>1, <1>2, <1>3 DEF CountInv, ReportInv, AllThrough, Fits
<1> QED BY <1>4, <1>5, <1>6 DEF CountInv

\* What a step of a thread does to what it has looked up.
LEMMA ThreadCounts ==
  ASSUME IInv, CountInv, NEW t \in Threads, thread(t)
  PROVE  CountInv'
<1> USE DEF BenchPlaces, LastPlaces, ThreadPlaces, FilePlaces
<1>1. /\ UNCHANGED <<args, pc, n, held, report>> /\ failed \subseteq failed'
      /\ Alive(t) /\ (looked' = looked \/ looked' = OneMore)
  BY DEF thread, ThreadLookup, ThreadList, ThreadFree, ThreadEnds, ThreadFaults, Active, Alive,
         LookupDies, exit
<1>2. /\ iterations' = iterations /\ thread_count' = thread_count
      /\ iterations \in Int /\ thread_count \in Int
  BY <1>1, OptionsAreInts DEF iterations, thread_count, IInv, TypeInv
<1>3. Exact' => Exact /\ (looked' = OneMore => looked' = looked + 1)
  BY <1>1, <1>2, Recorded DEF Exact, Orderly, IInv
<1>4. /\ threads \in [Threads -> [at : {"none", "loop", "list", "free"} \cup Ended, i : Nat]]
      /\ looked \in Nat /\ n \in Nat
  BY DEF IInv, TypeInv, TypeOK
<1>5. PICK s \in [at : {"loop", "list", "free"} \cup Ended, i : Nat] :
        threads' = [threads EXCEPT ![t] = s]
  BY ThreadSteps DEF IInv, ThreadStep
<1>6. threads'[t] = s /\ \A u \in Threads : u # t => threads'[u] = threads[u]
  BY <1>4, <1>5
<1>7. StartInv'
  <2>1. pc \in {"create", "join", "close", "exit"}
    BY <1>1 DEF IInv, ThreadsInv, Alive
  <2>2. \A u \in Threads : threads'[u].at = "none" => threads'[u].i = 0
    BY <1>5, <1>6 DEF CountInv, StartInv, Ended
  <2> QED BY <1>1, <1>2, <2>1, <2>2 DEF CountInv, StartInv
<1>8. CASE ~Exact'
  BY <1>7, <1>8 DEF CountInv, LoopInv, ThreadLoopInv, SumInv, ReportInv
<1>9. CASE Exact'
  <2>1. Exact /\ Orderly /\ (AllThrough' => AllThrough)
    BY <1>1, <1>3, <1>9 DEF Exact, AllThrough
  <2>2. /\ pc \in {"create", "join"} /\ t < thread_count /\ t \in Nat
        /\ (pc = "join" => ~(t < n)) /\ "tinfo" \in held /\ report = << >>
    <3>1. pc \in {"create", "join"}
      BY <1>1, <2>1 DEF IInv, ThreadsInv, Alive
    <3>2. t \in Nat
      BY LookupAssumption
    <3>3. pc = "join" => ~(t < n) /\ t < thread_count
      BY <1>1, <2>1 DEF IInv, ThreadsInv, Alive
    <3>4. pc = "create" => t < n /\ n <= thread_count
      BY <1>1, <2>1, <3>1 DEF IInv, ThreadsInv, Alive, CountInv, StartInv
    <3> QED BY <1>2, <1>4, <3>1, <3>2, <3>3, <3>4 DEF IInv, HeldInv, CodeInv
  <2>3. /\ threads[t].i \in Nat
        /\ threads[t].at = "loop" => threads[t].i <= iterations
        /\ threads[t].at \in {"list", "free"} => threads[t].i < iterations
        /\ threads[t].at \in {"loop", "list", "free"}
    BY <1>1, <1>4, <2>1 DEF CountInv, ThreadLoopInv, Alive
  <2> DEFINE c == s.i + (IF s.at \in {"list", "free", "quit"} THEN 1 ELSE 0)
  <2>4. /\ s.at = "loop" => s.i <= iterations
        /\ s.at \in {"list", "free", "quit"} => s.i < iterations
        /\ s.at = "done" => s.i = iterations
        /\ AllThrough' => s.at # "quit"
        /\ \/ c = LookedBy(t) /\ looked' = looked
           \/ c = LookedBy(t) + 1 /\ looked' = looked + 1
    <3>1. CASE UNCHANGED <<threads, looked>>
      <4>1. s = threads[t]
        BY <1>6, <3>1
      <4> QED BY <2>1, <2>3, <3>1, <4>1 DEF LookedBy
    <3>2. CASE ThreadLookup(t) /\ ~LookupDies
      <4>1. /\ threads[t].at = "loop" /\ looked' = OneMore
            /\ TRUE \in Iterating(t)
            /\ \E r \in {[threads[t] EXCEPT !.i = @ + 1], [threads[t] EXCEPT !.at = "list"]} :
                 threads' = [threads EXCEPT ![t] = r]
        BY <3>2 DEF ThreadLookup, ThreadGoes
      <4>2. threads[t].i < iterations /\ looked' = looked + 1
        BY <1>3, <1>9, <2>2, <4>1 DEF Iterating, Bounds
      <4>3. \/ s = [threads[t] EXCEPT !.i = @ + 1]
            \/ s = [threads[t] EXCEPT !.at = "list"]
        BY <1>4, <1>6, <4>1
      <4>4. LookedBy(t) = threads[t].i
        BY <2>3, <4>1 DEF LookedBy
      <4>5. \/ s.at = "loop" /\ s.i = threads[t].i + 1
            \/ s.at = "list" /\ s.i = threads[t].i
        BY <1>4, <4>1, <4>3
      <4> QED BY <1>2, <2>3, <4>2, <4>4, <4>5
    <3>3. CASE ThreadList(t)
      <4>1. /\ threads[t].at = "list" /\ looked' = looked
            /\ \/ s = [threads[t] EXCEPT !.at = "free"]
               \/ s = [threads[t] EXCEPT !.at = "quit"] /\ "thread" \in failed'
        BY <1>4, <1>6, <3>3 DEF ThreadList, ThreadGoes
      <4>2. /\ s.at \in {"free", "quit"} /\ s.i = threads[t].i
            /\ s.at = "quit" => "thread" \in failed'
        BY <1>4, <4>1
      <4> QED BY <2>3, <4>1, <4>2 DEF LookedBy, AllThrough
    <3>4. CASE ThreadFree(t)
      <4>1. /\ s = [at |-> "loop", i |-> threads[t].i + 1] /\ threads[t].at = "free"
            /\ looked' = looked
        BY <1>4, <1>6, <3>4 DEF ThreadFree, ThreadGoes
      <4>2. s.at = "loop" /\ s.i = threads[t].i + 1
        BY <4>1
      <4> QED BY <1>2, <2>3, <4>1, <4>2 DEF LookedBy
    <3>5. CASE ThreadEnds(t)
      <4>1. /\ s = [threads[t] EXCEPT !.at = "done"] /\ threads[t].at = "loop"
            /\ looked' = looked /\ FALSE \in Iterating(t)
        BY <1>4, <1>6, <3>5 DEF ThreadEnds, ThreadGoes
      <4>2. ~(threads[t].i < iterations)
        BY <2>2, <4>1 DEF Iterating, Bounds
      <4>3. s.at = "done" /\ s.i = threads[t].i
        BY <1>4, <4>1
      <4> QED BY <1>2, <2>3, <4>1, <4>2, <4>3 DEF LookedBy
    <3> QED BY <3>1, <3>2, <3>3, <3>4, <3>5
            DEF thread, ThreadLookup, ThreadFaults, LookupDies, exit
  <2>5. ThreadLoopInv'
    BY <1>2, <1>6, <2>1, <2>4 DEF CountInv, ThreadLoopInv, AllThrough
  <2>6. LoopInv' /\ ReportInv'
    BY <1>1, <2>2 DEF LoopInv, ReportInv
  <2>7. \E g : IsSum(g)'
    <3>1. LookedBy(t)' = c /\ \A u \in Threads : u # t => LookedBy(u)' = LookedBy(u)
      BY <1>6 DEF LookedBy
    <3> HIDE DEF c
    <3>2. PICK g : IsSum(g)
      BY <2>1, <2>2 DEF CountInv, SumInv
    <3>3. /\ g \in [0 .. thread_count -> Nat] /\ g[0] = 0 /\ g[thread_count] = looked
          /\ \A k \in 0 .. (thread_count - 1) : g[k + 1] = g[k] + LookedBy(k)
          /\ pc = "join" => g[n] <= n * iterations /\ (AllThrough => g[n] = n * iterations)
      BY <3>2 DEF IsSum
    <3>4. 0 .. (thread_count - 1) \subseteq Threads
      <4>1. thread_count > 0
        BY <1>2, <2>2
      <4> QED BY <4>1, LookupAssumption DEF IInv, TypeInv, thread_count
    <3>5. \A k \in Threads : LookedBy(k) \in Nat
      BY <1>4 DEF LookedBy
    <3>6. CASE c = LookedBy(t) /\ looked' = looked
      <4>1. \A k \in 0 .. (thread_count - 1) : g[k + 1] = g[k] + LookedBy(k)'
        BY <3>1, <3>3, <3>4, <3>6
      <4>2. IsSum(g)'
        BY <1>1, <1>2, <2>1, <3>3, <3>6, <4>1 DEF IsSum
      <4> QED BY <4>2
    <3>7. CASE c = LookedBy(t) + 1 /\ looked' = looked + 1
      <4>0. PICK h : h = [k \in 0 .. thread_count |-> IF k <= t THEN g[k] ELSE g[k] + 1]
        OBVIOUS
      <4>1. /\ h \in [0 .. thread_count -> Nat]
            /\ \A k \in 0 .. thread_count : h[k] = IF k <= t THEN g[k] ELSE g[k] + 1
        BY <3>3, <4>0
      <4>2. 0 \in 0 .. thread_count /\ thread_count \in 0 .. thread_count
            /\ 0 <= t /\ ~(thread_count <= t)
        BY <1>2, <2>2
      <4>3. h[0] = 0 /\ h[thread_count] = looked'
        BY <3>3, <3>7, <4>1, <4>2
      <4>4. ASSUME NEW k \in 0 .. (thread_count - 1) PROVE h[k + 1] = h[k] + LookedBy(k)'
        <5>1. k \in 0 .. thread_count /\ k + 1 \in 0 .. thread_count /\ k \in Threads
              /\ g[k] \in Nat /\ LookedBy(k) \in Nat /\ g[k + 1] = g[k] + LookedBy(k)
          BY <1>2, <3>3, <3>4, <3>5
        <5>2. CASE k = t
          <6>1. k <= t /\ ~(k + 1 <= t)
            BY <2>2, <5>2
          <6>2. h[k] = g[k] /\ h[k + 1] = g[k + 1] + 1 /\ LookedBy(k)' = LookedBy(k) + 1
            BY <3>1, <3>7, <4>1, <5>1, <5>2, <6>1
          <6> QED BY <5>1, <6>2
        <5>3. CASE k < t
          <6>1. k <= t /\ k + 1 <= t /\ k # t
            BY <2>2, <5>1, <5>3
          <6>2. h[k] = g[k] /\ h[k + 1] = g[k + 1] /\ LookedBy(k)' = LookedBy(k)
            BY <3>1, <4>1, <5>1, <6>1
          <6> QED BY <5>1, <6>2
        <5>4. CASE k > t
          <6>1. ~(k <= t) /\ ~(k + 1 <= t) /\ k # t
            BY <2>2, <5>1, <5>4
          <6>2. h[k] = g[k] + 1 /\ h[k + 1] = g[k + 1] + 1 /\ LookedBy(k)' = LookedBy(k)
            BY <3>1, <4>1, <5>1, <6>1
          <6> QED BY <5>1, <6>2
        <5> QED BY <2>2, <5>1, <5>2, <5>3, <5>4
      <4>5. pc = "join" => h[n] <= n * iterations /\ (AllThrough => h[n] = n * iterations)
        <5>1. ASSUME pc = "join" PROVE n \in 0 .. thread_count /\ n <= t
          <6>1. n <= thread_count
            BY <5>1 DEF CountInv, StartInv
          <6> QED BY <1>2, <1>4, <2>2, <5>1, <6>1
        <5> QED BY <3>3, <4>1, <5>1
      <4>6. IsSum(h)'
        BY <1>1, <1>2, <2>1, <4>1, <4>3, <4>4, <4>5 DEF IsSum
      <4> QED BY <4>6
    <3> QED BY <2>4, <3>6, <3>7 DEF c
  <2> QED BY <1>7, <2>5, <2>6, <2>7 DEF CountInv, SumInv
<1> QED BY <1>8, <1>9

\* Every step keeps the counters in step.
LEMMA NextCounts == IInv /\ CountInv /\ [Next]_vars => CountInv'
<1> SUFFICES ASSUME IInv, CountInv, [Next]_vars PROVE CountInv'
  OBVIOUS
<1>1. CASE main
  BY <1>1, OptionsCount, LookupAndPrintCounts, LookupFromFileCounts, BenchmarkCounts,
     ThreadedBenchmarkCounts, EndCounts DEF main
<1>2. CASE JoinFails
  BY <1>2, ThreadedBenchmarkCounts
<1>3. CASE \E t \in Threads : thread(t)
  BY <1>3, ThreadCounts
<1>4. CASE UNCHANGED vars
  <2>1. UNCHANGED <<args, pc, n, threads, looked, report, failed>>
    BY <1>4 DEF vars
  <2>2. iterations' = iterations /\ thread_count' = thread_count
    BY <2>1 DEF iterations, thread_count
  <2>3. Exact' <=> Exact
    BY <2>1, <2>2 DEF Exact, Orderly
  <2>4. SumInv' /\ ThreadLoopInv'
    BY <2>1, <2>3, Unthreaded
  <2>5. StartInv' /\ LoopInv' /\ ReportInv'
    BY <2>1, <2>2, <2>3 DEF CountInv, StartInv, LoopInv, ReportInv, AllThrough, Fits
  <2> QED BY <2>4, <2>5 DEF CountInv
<1> QED BY <1>1, <1>2, <1>3, <1>4 DEF Next

\* The number of addresses that mmdblookup reports, in any mode and with any
\* number of threads, is the number that it looked up; it is that number in the
\* bits of an int if the product overflows, and never too small when threads gave
\* up.
THEOREM ReportsAreExact == Spec => []ReportIsExact
<1>1. Spec => []CountInv
  BY InitCounts, NextCounts, ClientInvariant, PTL DEF Spec
<1>2. IInv /\ CountInv => ReportIsExact
  BY DEF IInv, CodeInv, CountInv, ReportInv, Exact, AllThrough, ReportIsExact
<1> QED BY <1>1, <1>2, ClientInvariant, PTL

===============================================================================
