----------------------------- MODULE ForkServer -----------------------------
(***************************************************************************)
(* The fork server that instruments a fuzzed binary (lib/afl-rt.c), its    *)
(* children with the location marks in shared memory (lib/afl_mark.c,      *)
(* lib/e9afl.cpp), and afl-fuzz at the other end of the two pipes, which   *)
(* is external: it sends its requests, kills a run at its time limit, and  *)
(* is itself killed when the fuzzing time is over (subroutines.py).        *)
(*                                                                         *)
(* Processes are numbered in the order of their creation.  The runtime's   *)
(* init starts the fork server before afl_mark's init clears the marks, so *)
(* that each child clears them.                                            *)
(***************************************************************************)
EXTENDS Naturals, Sequences, FiniteSets

CONSTANT MaxRuns   \* bound on the requests of the fuzzer

ASSUME ForkAssumption == MaxRuns \in Nat

VARIABLES underAFL,     \* the two pipes exist
          sameLoc,      \* fix location and crash location are one address
          fuzzer,       \* "start", "idle", "sent", "running", "dead"
          timedOut,     \* afl-fuzz: the timer fired during this run
          prevTimedOut, \* afl-fuzz: ... during the run before
          asked,        \* afl-fuzz: number of requests it wrote
          pid,          \* afl-fuzz: the pid it read, 0 before
          ctl,          \* pipe to the server: values of was_killed
          stp,          \* pipe from the server: [kind, value]
          server,       \* where the server is
          child_pid,    \* its local variables
          status,
          children,     \* [state, end, hangs, mapped] of each process forked
          marker,       \* the marker byte
          touched,      \* the locations each child passed
          answers       \* what the fuzzer saw: [end, marks]

setup == <<underAFL, sameLoc>>
fuzzerVars == <<fuzzer, timedOut, prevTimedOut, asked, pid, answers>>
serverVars == <<server, child_pid, status>>
childVars == <<children, marker, touched>>
vars == <<setup, fuzzerVars, ctl, stp, serverVars, childVars>>

Uninitialized == 0
Locations == {"fix", "crash"}
ChildEnds == {"exit", "signal"}
Ends == ChildEnds \cup {"killed"}

Message(k, v) == [kind |-> k, value |-> v]

Init ==
    /\ underAFL \in BOOLEAN /\ sameLoc \in BOOLEAN
    /\ fuzzer = "start" /\ timedOut = FALSE /\ prevTimedOut = FALSE /\ asked = 0 /\ pid = 0
    /\ ctl = <<>> /\ stp = <<>>
    /\ server = "map" /\ child_pid = Uninitialized /\ status = "none"
    /\ children = <<>> /\ marker = {} /\ touched = <<>>
    /\ answers = <<>>

-----------------------------------------------------------------------------
\* The server

Parent == underAFL /\ fuzzer # "dead"

\* write() to the fuzzer; a failure is an error that ends the server.
WriteOrAbort(m, next) ==
    IF Parent THEN stp' = Append(stp, m) /\ server' = next
              ELSE server' = "aborted" /\ UNCHANGED stp

\* __afl_map_shm
MapShm == /\ server = "map"
          /\ server' \in {"home"} \cup (IF underAFL THEN {"aborted"} ELSE {})
          /\ UNCHANGED <<setup, fuzzerVars, ctl, stp, child_pid, status, childVars>>

\* Without a parent the program runs as it is.
PhoneHome == /\ server = "home"
             /\ IF Parent THEN stp' = Append(stp, Message("hello", 0)) /\ server' = "read"
                          ELSE server' = "program" /\ UNCHANGED stp
             /\ UNCHANGED <<setup, fuzzerVars, ctl, child_pid, status, childVars>>

\* Mutant: the test of was_killed is inverted.
ReadRequestInverted ==
    /\ server = "read"
    /\ ctl # <<>>
    /\ ctl' = Tail(ctl)
    /\ status' = "none"
    /\ server' = IF Head(ctl) THEN "fork" ELSE "stale"
    /\ UNCHANGED <<setup, fuzzerVars, stp, child_pid, childVars>>

ReadRequest ==
    /\ server = "read"
    /\ \/ /\ ctl # <<>>
          /\ ctl' = Tail(ctl)
          /\ status' = "none"
          /\ server' = IF Head(ctl) THEN "stale" ELSE "fork"
       \/ /\ ctl = <<>> /\ ~Parent
          /\ server' = "aborted"
          /\ UNCHANGED <<ctl, status>>
    /\ UNCHANGED <<setup, fuzzerVars, stp, child_pid, childVars>>

(***************************************************************************)
(* waitpid for the previous child.  If there is no such child any more the *)
(* call fails, which is only logged.                                       *)
(***************************************************************************)
WaitStale ==
    /\ server = "stale"
    /\ IF child_pid = Uninitialized \/ children[child_pid].state = "reaped"
       THEN UNCHANGED <<children, status>>
       ELSE /\ children[child_pid].state = "zombie"
            /\ children' = [children EXCEPT ![child_pid].state = "reaped"]
            /\ status' = children[child_pid].end
    /\ server' = "fork"
    /\ UNCHANGED <<setup, fuzzerVars, ctl, stp, child_pid, marker, touched>>

Fork ==
    /\ server = "fork"
    /\ \/ /\ \E h \in BOOLEAN :
                children' = Append(children, [state |-> "forked", end |-> "none", hangs |-> h,
                                              mapped |-> FALSE])
          /\ touched' = Append(touched, {})
          /\ child_pid' = Len(children) + 1
          /\ server' = "forked"
       \/ /\ server' = "aborted"
          /\ UNCHANGED <<children, touched, child_pid>>
    /\ UNCHANGED <<setup, fuzzerVars, ctl, stp, status, marker>>

WritePid == /\ server = "forked"
            /\ WriteOrAbort(Message("pid", child_pid), "wait")
            /\ UNCHANGED <<setup, fuzzerVars, ctl, child_pid, status, childVars>>

\* Mutant: the wait does not wait.
WaitChildNoHang ==
    /\ server = "wait"
    /\ status' = children[child_pid].end
    /\ children' = [children EXCEPT ![child_pid].state =
                        IF @ = "zombie" THEN "reaped" ELSE @]
    /\ server' = "reply"
    /\ UNCHANGED <<setup, fuzzerVars, ctl, stp, child_pid, marker, touched>>

WaitChild ==
    /\ server = "wait"
    /\ children[child_pid].state = "zombie"
    /\ status' = children[child_pid].end
    /\ children' = [children EXCEPT ![child_pid].state = "reaped"]
    /\ server' = "reply"
    /\ UNCHANGED <<setup, fuzzerVars, ctl, stp, child_pid, marker, touched>>

\* Mutant: the status is not relayed, the next request is awaited.
NoReply == /\ server = "reply"
           /\ server' = "read"
           /\ UNCHANGED <<setup, fuzzerVars, ctl, stp, child_pid, status, childVars>>

Reply == /\ server = "reply"
         /\ WriteOrAbort(Message("status", status), "read")
         /\ UNCHANGED <<setup, fuzzerVars, ctl, child_pid, status, childVars>>

ServerStep == \/ MapShm \/ PhoneHome \/ ReadRequest \/ WaitStale
              \/ Fork \/ WritePid \/ WaitChild \/ Reply

-----------------------------------------------------------------------------
\* The children

Alive(c) == children[c].state \in {"forked", "running"}

\* Mutant: the marks are not cleared.
SetupMarkerKeep(c) ==
    /\ children[c].state = "forked"
    /\ children' = [children EXCEPT ![c].state = "running", ![c].mapped = TRUE]
    /\ UNCHANGED <<setup, fuzzerVars, ctl, stp, serverVars, marker, touched>>

\* The child returns from the fork server; __afl_setup_marker is next, which
\* aborts if it cannot map the marks.
SetupMarker(c) ==
    /\ children[c].state = "forked"
    /\ \/ /\ children' = [children EXCEPT ![c].state = "running", ![c].mapped = TRUE]
          /\ marker' = {}
       \/ /\ children' = [children EXCEPT ![c].state = "zombie", ![c].end = "signal"]
          /\ UNCHANGED marker
    /\ UNCHANGED <<setup, fuzzerVars, ctl, stp, serverVars, touched>>

\* The bits set by the function that e9afl has called at a location:
\* entry_fix, entry_crash, or entry_combine.
Entry(loc) == IF sameLoc THEN {"fix", "crash"} ELSE {loc}

\* The child passes an address that is the fix or the crash location, or both.
Pass(c, loc) ==
    /\ children[c].state = "running"
    /\ marker' = marker \cup Entry(loc)
    /\ touched' = [touched EXCEPT ![c] = @ \cup {l \in Locations : sameLoc \/ l = loc}]
    /\ UNCHANGED <<setup, fuzzerVars, ctl, stp, serverVars, children>>

ChildEnd(c) ==
    /\ children[c].state = "running" /\ ~children[c].hangs
    /\ \E e \in ChildEnds :
          children' = [children EXCEPT ![c].state = "zombie", ![c].end = e]
    /\ UNCHANGED <<setup, fuzzerVars, ctl, stp, serverVars, marker, touched>>

ChildStep == \E c \in DOMAIN children :
    \/ SetupMarker(c)
    \/ \E loc \in Locations : Pass(c, loc)
    \/ ChildEnd(c)

-----------------------------------------------------------------------------
\* afl-fuzz (external)

Hello == /\ fuzzer = "start" /\ stp # <<>> /\ Head(stp).kind = "hello"
         /\ stp' = Tail(stp)
         /\ fuzzer' = "idle"
         /\ UNCHANGED <<setup, timedOut, prevTimedOut, asked, pid, answers, ctl, serverVars, childVars>>

Request == /\ fuzzer = "idle" /\ Len(answers) < MaxRuns
           /\ ctl' = Append(ctl, prevTimedOut)
           /\ asked' = asked + 1
           /\ fuzzer' = "sent"
           /\ timedOut' = FALSE
           /\ pid' = 0
           /\ UNCHANGED <<setup, prevTimedOut, answers, stp, serverVars, childVars>>

GetPid == /\ fuzzer = "sent" /\ stp # <<>>
          /\ pid' = Head(stp).value
          /\ stp' = Tail(stp)
          /\ fuzzer' = "running"
          /\ UNCHANGED <<setup, timedOut, prevTimedOut, asked, answers, ctl, serverVars, childVars>>

\* The timer may fire after the child has ended, or was reaped.
Timer == /\ fuzzer = "running" /\ ~timedOut
         /\ timedOut' = TRUE
         /\ children' = IF Alive(pid)
                        THEN [children EXCEPT ![pid].state = "zombie", ![pid].end = "killed"]
                        ELSE children
         /\ UNCHANGED <<setup, fuzzer, prevTimedOut, asked, pid, answers, ctl, stp, serverVars, marker, touched>>

GetStatus == /\ fuzzer = "running" /\ stp # <<>>
             /\ answers' = Append(answers, [end |-> Head(stp).value, marks |-> marker])
             /\ stp' = Tail(stp)
             /\ prevTimedOut' = timedOut
             /\ fuzzer' = "idle"
             /\ UNCHANGED <<setup, timedOut, asked, pid, ctl, serverVars, childVars>>

\* subprocess.run kills afl-fuzz when the minutes are over, at any moment.
TimeOver == /\ underAFL /\ fuzzer # "dead"
            /\ fuzzer' = "dead"
            /\ UNCHANGED <<setup, timedOut, prevTimedOut, asked, pid, answers, ctl, stp, serverVars, childVars>>

FuzzerStep == Hello \/ Request \/ GetPid \/ Timer \/ GetStatus

-----------------------------------------------------------------------------
Next == ServerStep \/ ChildStep \/ FuzzerStep \/ TimeOver

(***************************************************************************)
(* Processes are scheduled and the timer runs.  No fairness makes a child  *)
(* pass a location, and a child that hangs does not end by itself.         *)
(***************************************************************************)
Fairness == /\ WF_vars(ServerStep)
            /\ WF_vars(Hello \/ GetPid \/ GetStatus)
            /\ WF_vars(Timer)
            /\ WF_vars(\E c \in DOMAIN children : SetupMarker(c))
            /\ WF_vars(\E c \in DOMAIN children : ChildEnd(c))

Spec == Init /\ [][Next]_vars /\ Fairness

-----------------------------------------------------------------------------
(***************************************************************************)
(* Killed children and stale waits do not shift the protocol: a wait for a *)
(* previous child has one to wait for and never blocks, so child_pid is    *)
(* never read uninitialised, and the server never has two children alive.  *)
(***************************************************************************)
WaitsForOwnChild ==
    /\ server = "stale" => child_pid # Uninitialized /\ children[child_pid].state = "reaped"
    /\ \A c \in DOMAIN children : Alive(c) => c = Len(children) /\ server \notin {"read", "fork"}
    /\ fuzzer = "running" => pid = Len(answers) + 1

(***************************************************************************)
(* afl_mark.c, "for each exeuction of the patched binary, clear marker     *)
(* content": with the status of a run that could map the marks, also of    *)
(* one that was killed, the fuzzer sees the locations of exactly that run. *)
(***************************************************************************)
MarksOfThisRun ==
    \A n \in DOMAIN answers : children[n].mapped => answers[n].marks = touched[n]

-----------------------------------------------------------------------------
\* The abstract service: the truth about a run is the wait status of its child.
EndedRuns == IF children # <<>> /\ Alive(Len(children)) THEN Len(children) - 1 ELSE Len(children)

Service == INSTANCE RunService
    WITH truth   <- [i \in 1..EndedRuns |-> children[i].end],
         answers <- [i \in DOMAIN answers |-> answers[i].end]

(***************************************************************************)
(* The fork server implements the abstract service: whichever runs are     *)
(* killed, and whenever a timer fires, the n-th answer is how the n-th     *)
(* child ended.                                                            *)
(***************************************************************************)
ImplementsRunService == Service!Spec

(***************************************************************************)
(* A request is answered, unless a fork or a mapping failed or the fuzzer  *)
(* is gone.  When the fuzzer is killed the server does not stay behind,    *)
(* unless the child it waits for hangs: nobody is left to kill that one.   *)
(***************************************************************************)
NobodyWaitsForever ==
    /\ fuzzer \in {"sent", "running"} ~> fuzzer \in {"idle", "dead"} \/ server = "aborted"
    /\ fuzzer = "dead" ~> \/ server \in {"aborted", "program"}
                          \/ children # <<>> /\ children[Len(children)].hangs

=============================================================================
