------------------------------ MODULE MMDBLookup ------------------------------
(***************************************************************************)
(* mmdblookup (bin/mmdblookup.c), the command line client: its options,    *)
(* its four modes (one lookup, lookups from a file, benchmark, benchmark   *)
(* with threads), the resources it holds and the code it exits with.       *)
(*                                                                         *)
(* The library's calls are their outcomes: an address is found or not or   *)
(* the call fails, a list is returned or not.  What is printed is left     *)
(* out, but for the number of addresses in the report.                     *)
(***************************************************************************)
EXTENDS Integers, FiniteSets

CONSTANTS Commands,     \* command lines as getopt_long takes them apart
          INT_MAX,
          ULLONG,       \* the modulus of unsigned long long
          MaxLooked,    \* where the history of lookups stops counting
          Threads       \* indexes of threads that may come to be

Command == [help : BOOLEAN, version : BOOLEAN, verbose : BOOLEAN,
            file : BOOLEAN, ip : BOOLEAN, path : BOOLEAN,     \* given or not
            ip_file : BOOLEAN, lines : Nat,                   \* and its lines
            b : Int, t : Int]                                 \* as strtol returns them

\* (int)x
ToInt(x) == ((x + INT_MAX + 1) % (2 * (INT_MAX + 1))) - (INT_MAX + 1)

ASSUME LookupAssumption ==
  /\ Commands \subseteq Command
  /\ INT_MAX \in Nat \ {0} /\ ULLONG \in Nat /\ ULLONG > INT_MAX
  /\ ULLONG % (2 * (INT_MAX + 1)) = 0
  /\ MaxLooked \in Nat \ {0}
  /\ \A c \in Commands : ToInt(c.t) > 0 => 0 .. (ToInt(c.t) - 1) \subseteq Threads
  /\ Threads \subseteq Nat

VARIABLES args,         \* the command line
          pc,           \* where the main thread is
          n,            \* the counter of the loop it is in
          lines,        \* lines of the file that are still to be read
          held,         \* what the process holds: "path", "db", "fh", "tinfo"
          lists,        \* who holds an entry data list: threads, or Main
          threads,      \* the threads' local state
          looked,       \* history: how many addresses have been looked up
          report,       \* the number reported, or none: << >>
          shown,        \* what lookup_and_print has shown
          failed,       \* history: what has gone wrong, or was not there
          code,         \* the code main is going to exit with
          exit_code     \* the code the process has exited with

vars == <<args, pc, n, lines, held, lists, threads, looked, report, shown, failed, code,
          exit_code>>

Main == -1
Running == -1           \* exit_code of a process that has not exited
Signal == 139           \* and of one that was killed

iterations == ToInt(args.b)
thread_count == ToInt(args.t)

Init ==
  /\ args \in Commands
  /\ pc = "options" /\ n = 0 /\ lines = 0
  /\ held = {} /\ lists = {}
  /\ threads = [t \in Threads |-> [at |-> "none", i |-> 0]]
  /\ looked = 0 /\ report = << >> /\ shown = "nothing" /\ failed = {} /\ code = 0
  /\ exit_code = Running
-------------------------------------------------------------------------------
At(p) == exit_code = Running /\ pc = p
Goto(p) == pc' = p /\ UNCHANGED <<args, exit_code>>

\* exit(c): the process ends, with everything it holds and all its threads,
\* because of the fault why, if there is one.
exit(c, why) ==
  /\ exit_code' = c /\ failed' = failed \cup why
  /\ UNCHANGED <<args, pc, n, lines, held, lists, threads, looked, report, shown, code>>

\* The function main is in returns, and main exits with c once it has closed
\* the database.
ReturnToClose(c) == Goto("close") /\ code' = c

TooLarge == args.b > INT_MAX \/ args.t > INT_MAX

\* Mutant: the check looks at what strtol returned.
NoAddressAsParsed == ~args.ip /\ args.b = 0 /\ ~args.ip_file

NoAddress == ~args.ip /\ iterations = 0 /\ ~args.ip_file

\* get_options does not return: usage, the version, or no memory.
OptionsExit ==
  /\ At("options")
  /\ \/ TooLarge /\ exit(1, {"usage"})
     \/ ~TooLarge /\ (args.help \/ args.version) /\ exit(0, {})
     \/ /\ ~TooLarge /\ ~args.help /\ ~args.version /\ (~args.file \/ NoAddress)
        /\ exit(1, {"usage"})

get_options ==
  /\ At("options")
  /\ ~TooLarge /\ ~args.help /\ ~args.version /\ args.file /\ ~NoAddress
  /\ \/ exit(1, {"memory"})
     \/ /\ held' = held \cup {"path"}
        /\ Goto("open")
        /\ UNCHANGED <<n, lines, lists, threads, looked, report, shown, failed, code>>

\* Which mode main goes on with; lookup_path is freed if it is of no use.
Mode == IF args.ip_file THEN "fopen"
        ELSE IF iterations = 0 THEN "lookup"
        ELSE IF thread_count > 0 THEN "tinfo" ELSE "benchmark"

\* open_or_die, and dump_meta, which only reads the handle.
open_or_die ==
  /\ At("open")
  /\ \/ exit(2, {"open"})
     \/ /\ held' = {"db"} \cup (IF Mode = "lookup" THEN {"path"} ELSE {})
        /\ Goto(Mode)
        /\ UNCHANGED <<n, lines, lists, threads, looked, report, shown, failed, code>>
-------------------------------------------------------------------------------
(* What most steps leave alone, a fault, and the library's answers. *)
Quiet == UNCHANGED <<threads, shown, failed>>

Fault(why) == failed' = failed \cup {why} /\ UNCHANGED <<threads, shown>>

OneMore == IF looked < MaxLooked THEN looked + 1 ELSE looked

\* lookup_or_die does not return: getaddrinfo's error or the library's.
LookupDies == exit(3, {"address"}) \/ exit(4, {"lookup"})

\* It does: main goes on at p.
LookedUp(p) == /\ looked' = OneMore
               /\ Goto(p)
               /\ UNCHANGED <<lines, held, lists, report, code>> /\ Quiet

\* MMDB_get_entry_data_list's list for main, or MMDB_free_entry_data_list.
TakeList(p) == /\ lists' = lists \cup {Main}
               /\ Goto(p)
               /\ UNCHANGED <<n, lines, held, looked, report, code>> /\ Quiet

FreeList(p) == /\ lists' = lists \ {Main}
               /\ Goto(p)
               /\ UNCHANGED <<lines, held, looked, report, code>> /\ Quiet
-------------------------------------------------------------------------------
(* lookup_and_print *)
Lookup ==
  /\ At("lookup")
  /\ \/ LookupDies
     \/ LookedUp(IF args.path THEN "value" ELSE "list") /\ UNCHANGED n
     \/ /\ looked' = OneMore /\ code' = 6 /\ Goto("end")
        /\ UNCHANGED <<n, lines, held, lists, report>> /\ Fault("entry")

\* MMDB_aget_value fails, or the value is at offset 0, which is taken for no
\* value, or it is somewhere else.
Value ==
  /\ At("value")
  /\ \/ code' = 5 /\ Goto("end") /\ Fault("value")
     \/ code' = 0 /\ Goto("end") /\ shown' = "no_data" /\ UNCHANGED <<threads, failed>>
     \/ code' = 0 /\ Goto("list") /\ Quiet
  /\ UNCHANGED <<n, lines, held, lists, looked, report>>

\* Mutant: the error is printed but the exit code stays 0.
ListForgetsCode ==
  /\ At("list")
  /\ \/ TakeList("end")
     \/ /\ code' = 0 /\ Goto("end")
        /\ UNCHANGED <<n, lines, held, lists, looked, report>> /\ Fault("list")

List ==
  /\ At("list")
  /\ \/ TakeList("end")
     \/ /\ code' = 5 /\ Goto("end")
        /\ UNCHANGED <<n, lines, held, lists, looked, report>> /\ Fault("list")

\* The list, if there is one, is dumped; whether that fails is not looked at.
DumpList ==
  \/ Main \notin lists /\ UNCHANGED <<shown, failed>>
  \/ Main \in lists /\ shown' = "list" /\ UNCHANGED failed
  \/ Main \in lists /\ shown' = "part" /\ failed' = failed \cup {"dump"}

\* Then it is freed; the handle, the path.
End ==
  /\ At("end")
  /\ DumpList
  /\ lists' = lists \ {Main}
  /\ held' = held \ {"db", "path"}
  /\ Goto("exit")
  /\ UNCHANGED <<n, lines, threads, looked, report, code>>
-------------------------------------------------------------------------------
(* lookup_from_file.  A line is what one fgets returns. *)
Fopen ==
  /\ At("fopen")
  /\ \/ ReturnToClose(1) /\ UNCHANGED <<held, lines>> /\ Fault("file")
     \/ /\ held' = held \cup {"fh"} /\ lines' = args.lines
        /\ Goto("fgets") /\ UNCHANGED code /\ Quiet
  /\ n' = 0
  /\ UNCHANGED <<lists, looked, report>>

\* Mutant: a list that cannot be dumped is forgotten.
FileFailsKeepingList(why) ==
  /\ held' = held \ {"fh"}
  /\ ReturnToClose(1)
  /\ UNCHANGED <<n, lines, lists, looked, report>> /\ Fault(why)

\* The function fails: the file is closed, the list freed.
FileFails(why) ==
  /\ held' = held \ {"fh"} /\ lists' = lists \ {Main}
  /\ ReturnToClose(1)
  /\ UNCHANGED <<n, lines, looked, report>> /\ Fault(why)

FgetsFails == At("fgets") /\ FileFails("file")

\* Mutant: empty lines are counted too.
FgetsCountsAll ==
  /\ At("fgets") /\ lines > 0
  /\ lines' = lines - 1 /\ n' = n + 1
  /\ Goto("fgets") \/ Goto("file_lookup")
  /\ UNCHANGED <<held, lists, looked, report, code>> /\ Quiet

\* An empty line is passed over, another one counted.
Fgets ==
  /\ At("fgets") /\ lines > 0
  /\ lines' = lines - 1
  /\ \/ n' = n /\ Goto("fgets")
     \/ n' = n + 1 /\ Goto("file_lookup")
  /\ UNCHANGED <<held, lists, looked, report, code>> /\ Quiet

EndOfFile ==
  /\ At("fgets") /\ lines = 0
  /\ held' = held \ {"fh"}
  /\ \/ ReturnToClose(1) /\ UNCHANGED report /\ Fault("file")
     \/ ReturnToClose(0) /\ report' = <<n>> /\ Quiet
  /\ UNCHANGED <<n, lines, lists, looked>>

FileLookup ==
  /\ At("file_lookup")
  /\ \/ LookupDies
     \/ \E p \in {"fgets", "file_list"} : LookedUp(p) /\ UNCHANGED n

FileListFails == At("file_list") /\ FileFails("list")
FileList == At("file_list") /\ TakeList(IF args.verbose THEN "file_dump" ELSE "file_free")

FileDumpFails == At("file_dump") /\ FileFails("dump")
FileFree == /\ At("file_dump") \/ At("file_free")
            /\ FreeList("fgets") /\ UNCHANGED n
-------------------------------------------------------------------------------
(* benchmark *)
Bench ==
  /\ At("benchmark") /\ n < iterations
  /\ \/ LookupDies
     \/ LookedUp("benchmark") /\ n' = n + 1
     \/ LookedUp("bench_list") /\ UNCHANGED n

BenchList ==
  /\ At("bench_list")
  /\ \/ TakeList("bench_free")
     \/ ReturnToClose(5) /\ UNCHANGED <<n, lines, held, lists, looked, report>> /\ Fault("list")

BenchFree == At("bench_free") /\ FreeList("benchmark") /\ n' = n + 1

BenchEnds ==
  /\ At("benchmark") /\ n >= iterations
  /\ report' = <<iterations>>
  /\ ReturnToClose(0)
  /\ UNCHANGED <<n, lines, held, lists, looked>> /\ Quiet

-------------------------------------------------------------------------------
(* start_threaded_benchmark *)
Abandon(why) ==
  /\ held' = held \ {"tinfo"}
  /\ ReturnToClose(1)
  /\ UNCHANGED <<n, lines, lists, looked, report>> /\ Fault(why)

\* calloc or get_time fails, or the first thread is to be created.
StartBenchmark ==
  /\ At("tinfo")
  /\ \/ \E why \in {"memory", "clock"} : Abandon(why)
     \/ /\ held' = held \cup {"tinfo"} /\ n' = 0
        /\ Goto("create")
        /\ UNCHANGED <<lines, lists, looked, report, code>> /\ Quiet

CreateThread ==
  /\ At("create") /\ n < thread_count
  /\ \/ Abandon("create")
     \/ /\ threads' = [threads EXCEPT ![n].at = "loop"]
        /\ n' = n + 1 /\ Goto("create")
        /\ UNCHANGED <<lines, held, lists, looked, report, shown, failed, code>>

CreatedAll ==
  /\ At("create") /\ n = thread_count
  /\ n' = 0 /\ Goto("join")
  /\ UNCHANGED <<lines, held, lists, looked, report, code>> /\ Quiet

\* A thread has returned: after all its iterations, or having given up.
Ended == {"done", "quit"}

\* Mutant: the first thread is not waited for.
JoinThreadButFirst ==
  /\ At("join") /\ n < thread_count
  /\ n = 0 \/ threads[n].at \in Ended
  /\ n' = n + 1 /\ Goto("join")
  /\ UNCHANGED <<lines, held, lists, looked, report, code>> /\ Quiet

\* pthread_join waits, or fails without waiting.
JoinThread ==
  /\ At("join") /\ n < thread_count
  /\ threads[n].at \in Ended
  /\ n' = n + 1 /\ Goto("join")
  /\ UNCHANGED <<lines, held, lists, looked, report, code>> /\ Quiet

JoinFails == At("join") /\ n < thread_count /\ Abandon("join")

\* iterations * thread_count is an int's product: if it overflows, the build
\* wraps it around or computes it in a wider register.
TotalIps ==
  {ToInt(iterations * thread_count) % ULLONG, (iterations * thread_count) % ULLONG}

JoinedAll ==
  /\ At("join") /\ n = thread_count
  /\ held' = held \ {"tinfo"}
  /\ \/ ReturnToClose(1) /\ UNCHANGED report /\ Fault("clock")
     \/ ReturnToClose(0) /\ (\E total_ips \in TotalIps : report' = <<total_ips>>) /\ Quiet
  /\ UNCHANGED <<n, lines, lists, looked>>
-------------------------------------------------------------------------------
(* thread *)
Active(t) == exit_code = Running /\ threads[t].at \in {"loop", "list", "free"}

ThreadGoes(t, s) == threads' = [threads EXCEPT ![t] = s]

\* The loop's condition.  Once tinfo is freed, any int may be in its place.
Bounds == IF "tinfo" \in held THEN {iterations} ELSE (-INT_MAX - 1) .. INT_MAX

Iterating(t) == {threads[t].i < bound : bound \in Bounds}

ThreadLookup(t) ==
  /\ Active(t) /\ threads[t].at = "loop" /\ TRUE \in Iterating(t)
  /\ \/ LookupDies
     \/ /\ looked' = OneMore
        /\ \E s \in {[threads[t] EXCEPT !.i = @ + 1], [threads[t] EXCEPT !.at = "list"]} :
             ThreadGoes(t, s)
        /\ UNCHANGED <<args, pc, n, lines, held, lists, report, shown, failed, code, exit_code>>

\* A list that cannot be had ends the thread, and nobody is told.
ThreadList(t) ==
  /\ Active(t) /\ threads[t].at = "list"
  /\ \/ /\ lists' = lists \cup {t}
        /\ ThreadGoes(t, [threads[t] EXCEPT !.at = "free"]) /\ UNCHANGED failed
     \/ /\ failed' = failed \cup {"thread"}
        /\ ThreadGoes(t, [threads[t] EXCEPT !.at = "quit"]) /\ UNCHANGED lists
  /\ UNCHANGED <<args, pc, n, lines, held, looked, report, shown, code, exit_code>>

\* Mutant: the loop does not count an address that was found.
ThreadFreeUncounted(t) ==
  /\ Active(t) /\ threads[t].at = "free"
  /\ lists' = lists \ {t}
  /\ ThreadGoes(t, [at |-> "loop", i |-> threads[t].i])
  /\ UNCHANGED <<args, pc, n, lines, held, looked, report, shown, failed, code, exit_code>>

ThreadFree(t) ==
  /\ Active(t) /\ threads[t].at = "free"
  /\ lists' = lists \ {t}
  /\ ThreadGoes(t, [at |-> "loop", i |-> threads[t].i + 1])
  /\ UNCHANGED <<args, pc, n, lines, held, looked, report, shown, failed, code, exit_code>>

ThreadEnds(t) ==
  /\ Active(t) /\ threads[t].at = "loop" /\ FALSE \in Iterating(t)
  /\ ThreadGoes(t, [threads[t] EXCEPT !.at = "done"])
  /\ UNCHANGED <<args, pc, n, lines, held, lists, looked, report, shown, failed, code, exit_code>>

\* A thread touches the handle or its arguments after they are gone.
ThreadFaults(t) ==
  /\ Active(t) /\ ~({"db", "tinfo"} \subseteq held)
  /\ exit(Signal, {})

thread(t) == ThreadLookup(t) \/ ThreadList(t) \/ ThreadFree(t) \/ ThreadEnds(t) \/ ThreadFaults(t)
-------------------------------------------------------------------------------
(* The end of main. *)
Close ==
  /\ At("close")
  /\ held' = held \ {"db"}
  /\ Goto("exit")
  /\ UNCHANGED <<n, lines, lists, looked, report, code>> /\ Quiet

Exit == At("exit") /\ exit(code, {})

main ==
  \/ OptionsExit \/ get_options \/ open_or_die
  \/ Lookup \/ Value \/ List \/ End
  \/ Fopen \/ FgetsFails \/ Fgets \/ EndOfFile \/ FileLookup
  \/ FileListFails \/ FileList \/ FileDumpFails \/ FileFree
  \/ Bench \/ BenchList \/ BenchFree \/ BenchEnds
  \/ StartBenchmark \/ CreateThread \/ CreatedAll \/ JoinThread \/ JoinedAll
  \/ Close \/ Exit

Next == main \/ JoinFails \/ \E t \in Threads : thread(t)

\* The operating system runs every thread that can run.  (Nothing makes
\* pthread_join fail, so that main may have to wait for ever.)
Spec == /\ Init /\ [][Next]_vars
        /\ WF_vars(main) /\ \A t \in Threads : WF_vars(thread(t))
-------------------------------------------------------------------------------
Faults == {"usage", "memory", "open", "address", "lookup", "entry", "value", "list", "dump",
           "file", "clock", "create", "join", "thread"}

\* Type correctness; lookup_and_print is never called without an address, even
\* when the conversion to int makes the number of iterations 0.
TypeOK ==
  /\ args \in Command /\ n \in Nat /\ lines \in Nat
  /\ held \subseteq {"path", "db", "fh", "tinfo"} /\ lists \subseteq Threads \cup {Main}
  /\ threads \in [Threads -> [at : {"none", "loop", "list", "free"} \cup Ended, i : Nat]]
  /\ looked \in Nat /\ failed \subseteq Faults
  /\ shown \in {"nothing", "list", "part", "no_data"}
  /\ exit_code \in {Running, Signal} \cup 0 .. 6
  /\ pc = "lookup" => args.ip

\* As long as a thread runs, its arguments are allocated and the handle it
\* looks up in is open, unless pthread_create or pthread_join failed: then main
\* frees the arguments and closes the handle under the threads it leaves behind.
ThreadsOutlivedByTheirData ==
  (\E t \in Threads : Active(t)) /\ failed \cap {"create", "join"} = {} =>
    {"db", "tinfo"} \subseteq held

\* Every way out of a mode but a fatal lookup gives back what it took, on every
\* error path: when main is about to exit nothing is held, and the only lists
\* left are those of threads that main has left behind.
ReleasedOnReturn ==
  At("exit") => held = {} /\ \A a \in lists : a \in Threads /\ Active(a)

\* The number reported is the number of addresses that were looked up: of the
\* lines that are not empty, or of all threads' iterations.  If a product
\* overflows, it is still that number in the bits of an int; if a thread gave up,
\* which nobody is told, it is too large but never too small.  A negative number
\* of iterations is no iterations.
Fits == args.ip_file \/ thread_count <= 0 \/ iterations * thread_count <= INT_MAX

SameInt(x, y) == (x - y) % (2 * (INT_MAX + 1)) = 0

ReportIsExact ==
  report # << >> /\ looked < MaxLooked /\ iterations >= 0 =>
    /\ failed = {} => SameInt(report[1], looked)
    /\ failed = {} /\ Fits => report[1] = looked
    /\ Fits => report[1] >= looked

\* The exit code that tells of a fault; 0: none does.
CodeOf ==
  [f \in Faults |->
     CASE f \in {"usage", "memory", "file", "clock", "create", "join"} -> 1
       [] f = "list" -> IF args.ip_file THEN 1 ELSE 5
       [] f = "dump" -> IF args.ip_file THEN 1 ELSE 0
       [] f = "open" -> 2
       [] f = "address" -> 3
       [] f = "lookup" -> 4
       [] f = "value" -> 5
       [] f = "entry" -> 6
       [] f = "thread" -> 0]

\* The program has done what it was called for.
Single == ~args.ip_file /\ iterations = 0

Answered == \/ args.help \/ args.version
            \/ Single /\ shown # "nothing"
            \/ ~Single /\ report # << >>

\* The exit code says what has happened, however far it was from there to exit
\* and whatever was released on the way.  0: what was asked for was shown or
\* reported, and nothing failed but what the program keeps to itself.  1 to 6:
\* what the code tells of did go wrong, and nothing else that a code tells of,
\* unless main left threads behind; only then may the program end by a signal,
\* and it never ends with 0.
ExitCodeIsTrue ==
  exit_code # Running =>
    /\ exit_code = 0 => Answered /\ \A f \in failed : CodeOf[f] = 0
    /\ exit_code \in 1 .. 6 => \E f \in failed : CodeOf[f] = exit_code
    /\ failed \cap {"create", "join"} = {} =>
         exit_code # Signal /\ \A f \in failed : CodeOf[f] \in {0, exit_code}

\* Whatever fails, whatever the file and the options, the program ends: main
\* does not wait for a thread that does not end.
ProgramExits == <>(exit_code # Running)

===============================================================================
