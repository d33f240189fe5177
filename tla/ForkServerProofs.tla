-------------------------- MODULE ForkServerProofs --------------------------
(***************************************************************************)
(* Proofs about the fork server, for any number of runs.  The inductive    *)
(* invariant follows the conversation over the two pipes: which messages   *)
(* are under way in each pair of states of afl-fuzz and of the server, and *)
(* which child they are about.  What the server alone guarantees also      *)
(* holds after afl-fuzz was killed.                                        *)
(***************************************************************************)
EXTENDS ForkServer, SequenceTheorems, TLAPS

ChildStates == {"forked", "running", "zombie", "reaped"}
Child == [state : ChildStates, end : Ends \cup {"none"}, hangs : BOOLEAN, mapped : BOOLEAN]
Answer == [end : Ends \cup {"none"}, marks : SUBSET Locations]

\* The child of the last fork.
Last == Len(children)

ForkTypeOK ==
    /\ underAFL \in BOOLEAN /\ sameLoc \in BOOLEAN
    /\ fuzzer \in {"start", "idle", "sent", "running", "dead"}
    /\ timedOut \in BOOLEAN /\ prevTimedOut \in BOOLEAN /\ asked \in Nat /\ pid \in Nat
    /\ server \in {"map", "home", "program", "read", "stale", "fork", "forked", "wait",
                   "reply", "aborted"}
    /\ children \in Seq(Child) /\ touched \in Seq(SUBSET Locations)
    /\ marker \in SUBSET Locations /\ answers \in Seq(Answer)

\* Children are reaped one after the other; child_pid is the last one.
OneChild ==
    /\ child_pid = Last
    /\ \A c \in 1..Last :
          /\ children[c].state # "reaped" => c = Last /\ server \in {"forked", "wait", "aborted"}
          /\ ~Alive(c) => children[c].end \in Ends
    /\ server \in {"forked", "wait", "reply"} => Last > 0
    /\ server = "reply" => status = children[Last].end

\* Without a parent there is no fork server; before the first request, no child.
Started ==
    /\ ~underAFL => fuzzer = "start" /\ server \in {"map", "home", "program"}
    /\ server \in {"map", "home", "program"} => children = <<>>

\* A request is under way, or was taken and has no child yet.
Pending == ctl # <<>> \/ server \in {"stale", "fork"}

Requests ==
    /\ ctl # <<>> => server = "read" /\ ctl \in {<<TRUE>>, <<FALSE>>}
    /\ Pending => Last < asked
    /\ Last <= asked
    /\ (ctl = <<TRUE>> \/ server = "stale") => Last > 0
    /\ prevTimedOut => Len(answers) > 0

\* What was answered is about children that were reaped.
Answered ==
    /\ Len(answers) <= Last
    /\ \A k \in 1..Len(answers) : /\ children[k].state = "reaped"
                                  /\ answers[k].end = children[k].end
                                  /\ children[k].mapped => answers[k].marks = touched[k]

\* The marks are the last child's from the moment it cleared them.
Marks == /\ Len(touched) = Last
         /\ Last > 0 => /\ children[Last].state = "forked" =>
                              ~children[Last].mapped /\ touched[Last] = {}
                        /\ children[Last].mapped => marker = touched[Last]

Status == Message("status", children[Last].end)

\* What is under way in each state of a living afl-fuzz.
Conversation ==
    /\ fuzzer = "start" =>
          /\ ctl = <<>> /\ asked = 0 /\ children = <<>>
          /\ \/ server \in {"map", "home", "program", "aborted"} /\ stp = <<>>
             \/ server = "read" /\ stp = <<Message("hello", 0)>>
    /\ fuzzer = "idle" =>
          /\ server = "read" /\ ctl = <<>> /\ stp = <<>>
          /\ Last = Len(answers) /\ asked = Len(answers)
    /\ fuzzer = "sent" =>
          /\ asked = Len(answers) + 1
          /\ \/ /\ Last = Len(answers) /\ stp = <<>>
                /\ \/ server = "read" /\ ctl # <<>>
                   \/ server \in {"stale", "fork", "aborted"} /\ ctl = <<>>
             \/ /\ Last = Len(answers) + 1 /\ ctl = <<>>
                /\ \/ server = "forked" /\ stp = <<>>
                   \/ server \in {"wait", "reply"} /\ stp = <<Message("pid", Last)>>
                   \/ server = "read" /\ stp = <<Message("pid", Last), Status>>
    /\ fuzzer = "running" =>
          /\ asked = Len(answers) + 1 /\ Last = Len(answers) + 1 /\ pid = Last /\ ctl = <<>>
          /\ \/ server \in {"wait", "reply"} /\ stp = <<>>
             \/ server = "read" /\ stp = <<Status>>

ForkInv == /\ ForkTypeOK /\ Started /\ OneChild /\ Requests /\ Answered /\ Marks
           /\ Conversation

-----------------------------------------------------------------------------
\* Pipes with at most two messages in them.
LEMMA PipeFacts ==
    ASSUME NEW m, NEW k
    PROVE  /\ Append(<<>>, m) = <<m>> /\ Append(<<m>>, k) = <<m, k>>
           /\ Head(<<m>>) = m /\ Head(<<m, k>>) = m
           /\ Tail(<<m>>) = <<>> /\ Tail(<<m, k>>) = <<k>>
           /\ <<m>> # <<>> /\ <<m, k>> # <<>>
  <1>1. Append(<<m>>, k) = <<m, k>>
    <2>1. <<m>> \in Seq({m, k}) /\ <<m, k>> \in Seq({m, k}) /\ Len(<<m>>) = 1
      OBVIOUS
    <2>2. /\ Append(<<m>>, k) \in Seq({m, k}) /\ Len(Append(<<m>>, k)) = 2
          /\ Append(<<m>>, k)[1] = m /\ Append(<<m>>, k)[2] = k
      BY <2>1, AppendProperties
    <2> DEFINE s == Append(<<m>>, k)
               t == <<m, k>>
    <2>3. s \in Seq({m, k}) /\ t \in Seq({m, k}) /\ Len(s) = Len(t) /\ Len(s) = 2
      BY <2>1, <2>2
    <2>4. s[1] = t[1] /\ s[2] = t[2]
      BY <2>2
    <2> HIDE DEF s, t
    <2>5. \A i \in 1..Len(s) : s[i] = t[i]
      BY <2>3, <2>4
    <2>6. s = t
      BY <2>3, <2>5, SeqEqual, Zenon
    <2>7. QED  BY <2>6 DEF s, t
  <1>2. /\ Append(<<>>, m) = <<m>>
        /\ Head(<<m>>) = m /\ Head(<<m, k>>) = m
        /\ Tail(<<m>>) = <<>> /\ Tail(<<m, k>>) = <<k>>
    OBVIOUS
  <1>3. <<m>> # <<>> /\ <<m, k>> # <<>>
    OBVIOUS
  <1>4. QED  BY <1>1, <1>2, <1>3

\* The lengths of the histories, and what is in them.
LEMMA Lengths ==
    ASSUME ForkTypeOK
    PROVE  /\ Last \in Nat /\ Len(answers) \in Nat /\ Len(touched) \in Nat
           /\ DOMAIN children = 1..Last /\ DOMAIN answers = 1..Len(answers)
           /\ children = <<>> <=> Last = 0
           /\ answers = <<>> <=> Len(answers) = 0
           /\ \A c \in 1..Last : children[c] \in Child
  BY DEF ForkTypeOK, Last

\* Before the first step there is nothing in the pipes and nobody at work.
LEMMA ForkInvInit == Init => ForkInv
  <1> SUFFICES ASSUME Init PROVE ForkInv
    OBVIOUS
  <1>1. children = <<>> /\ touched = <<>> /\ answers = <<>> /\ Last = 0 /\ Len(answers) = 0
    BY DEF Init, Last
  <1>2. ForkTypeOK
    <2>1. /\ underAFL \in BOOLEAN /\ sameLoc \in BOOLEAN /\ timedOut \in BOOLEAN
          /\ prevTimedOut \in BOOLEAN /\ asked \in Nat /\ pid \in Nat
          /\ marker \in SUBSET Locations /\ fuzzer = "start" /\ server = "map"
      BY DEF Init
    <2>2. QED  BY <1>1, <2>1, EmptySeq DEF ForkTypeOK
  <1>3. Started /\ OneChild /\ Requests /\ Answered /\ Marks /\ Conversation
    BY <1>1 DEF Init, Started, OneChild, Requests, Answered, Marks, Conversation, Pending,
                Uninitialized, Last
  <1>4. QED  BY <1>2, <1>3 DEF ForkInv

\* What a step that touches neither a child nor an answer leaves as it was.
LEMMA ChildrenKept ==
    ASSUME ForkInv, UNCHANGED <<childVars, answers, child_pid>>
    PROVE  /\ Last' = Last /\ Status' = Status /\ Answered' /\ Marks'
           /\ child_pid' = Last
           /\ \A c \in 1..Last : ~Alive(c)' => children'[c].end \in Ends
           /\ \A c \in 1..Last : children'[c].state = "reaped" \/ c = Last
  BY DEF ForkInv, Answered, Marks, Last, Status, childVars, OneChild, Alive

\* The types of a step that leaves children and answers alone.
LEMMA TypesKept ==
    ASSUME ForkTypeOK, UNCHANGED <<childVars, answers, setup>>,
           fuzzer' \in {"start", "idle", "sent", "running", "dead"},
           timedOut' \in BOOLEAN, prevTimedOut' \in BOOLEAN, asked' \in Nat, pid' \in Nat,
           server' \in {"map", "home", "program", "read", "stale", "fork", "forked", "wait",
                        "reply", "aborted"}
    PROVE  ForkTypeOK'
  BY DEF ForkTypeOK, childVars, setup

\* The steps of the server that touch no child.
LEMMA TalkOfServer ==
    ASSUME ForkInv, MapShm \/ PhoneHome \/ ReadRequest \/ WritePid \/ Reply
    PROVE  ForkInv'
  <1>1. ForkTypeOK /\ Started /\ OneChild /\ Requests /\ Conversation
    BY DEF ForkInv
  <1>2. UNCHANGED <<childVars, answers, child_pid>> /\ UNCHANGED <<setup, fuzzerVars>>
    BY DEF MapShm, PhoneHome, ReadRequest, WritePid, Reply, fuzzerVars
  <1>3. /\ Last' = Last /\ Status' = Status /\ Answered' /\ Marks'
        /\ child_pid' = Last /\ children' = children /\ answers' = answers
        /\ \A c \in 1..Last : ~Alive(c)' => children'[c].end \in Ends
    BY <1>2, ChildrenKept DEF childVars
  <1>4. Last \in Nat /\ Len(answers) \in Nat /\ (children = <<>> <=> Last = 0)
    BY <1>1, Lengths
  <1>5. UNCHANGED <<fuzzer, timedOut, prevTimedOut, asked, pid, answers, underAFL>>
    BY <1>2 DEF fuzzerVars, setup
  <1>6. CASE MapShm
    <2>1. /\ server = "map" /\ server' \in {"home", "aborted"} /\ UNCHANGED <<ctl, stp>>
          /\ server' = "aborted" => underAFL
      BY <1>6 DEF MapShm
    <2>2. ForkTypeOK'
      BY <1>1, <1>2, <1>5, <2>1, TypesKept DEF ForkTypeOK
    <2>3. Started' /\ OneChild' /\ Requests'
      BY <1>1, <1>3, <1>4, <1>5, <2>1 DEF Started, OneChild, Requests, Pending
    <2>4. Conversation'
      BY <1>1, <1>3, <1>5, <2>1 DEF Conversation
    <2>5. QED  BY <1>3, <2>2, <2>3, <2>4 DEF ForkInv
  <1>7. CASE PhoneHome
    <2>1. /\ server = "home" /\ ctl' = ctl
          /\ \/ Parent /\ stp' = Append(stp, Message("hello", 0)) /\ server' = "read"
             \/ ~Parent /\ server' = "program" /\ stp' = stp
      BY <1>7 DEF PhoneHome
    <2>2. ForkTypeOK'
      BY <1>1, <1>2, <1>5, <2>1, TypesKept DEF ForkTypeOK
    <2>3. Started' /\ OneChild' /\ Requests'
      BY <1>1, <1>3, <1>4, <1>5, <2>1 DEF Started, OneChild, Requests, Pending, Parent
    <2>4. Conversation'
      BY <1>1, <1>3, <1>5, <2>1, PipeFacts DEF Conversation
    <2>5. QED  BY <1>3, <2>2, <2>3, <2>4 DEF ForkInv
  <1>8. CASE ReadRequest
    <2>1. /\ server = "read" /\ stp' = stp
          /\ \/ ctl # <<>> /\ ctl' = Tail(ctl) /\ server' = IF Head(ctl) THEN "stale" ELSE "fork"
             \/ ctl = <<>> /\ ~Parent /\ server' = "aborted" /\ ctl' = ctl
      BY <1>8 DEF ReadRequest
    <2>2. ForkTypeOK'
      BY <1>1, <1>2, <1>5, <2>1, TypesKept DEF ForkTypeOK
    <2>3. /\ ctl' = <<>> /\ (ctl # <<>> => ctl \in {<<TRUE>>, <<FALSE>>})
          /\ ctl # <<>> => /\ server' \in {"stale", "fork"}
                           /\ server' = "stale" => ctl = <<TRUE>>
      BY <1>1, <2>1, PipeFacts DEF Requests
    <2>4. Started' /\ OneChild'
      BY <1>1, <1>3, <1>4, <1>5, <2>1, <2>3 DEF Started, OneChild
    <2>5. Requests'
      BY <1>1, <1>3, <1>4, <1>5, <2>1, <2>3 DEF Requests, Pending
    <2>6. Conversation'
      BY <1>1, <1>3, <1>5, <2>1, <2>3, PipeFacts DEF Conversation, Started, Parent
    <2>7. QED  BY <1>3, <2>2, <2>4, <2>5, <2>6 DEF ForkInv
  <1>9. CASE WritePid
    <2>1. /\ server = "forked" /\ ctl' = ctl
          /\ \/ Parent /\ stp' = Append(stp, Message("pid", Last)) /\ server' = "wait"
             \/ ~Parent /\ server' = "aborted" /\ stp' = stp
      BY <1>1, <1>9 DEF WritePid, WriteOrAbort, OneChild
    <2>2. ForkTypeOK'
      BY <1>1, <1>2, <1>5, <2>1, TypesKept DEF ForkTypeOK
    <2>3. Started' /\ OneChild' /\ Requests'
      BY <1>1, <1>3, <1>4, <1>5, <2>1 DEF Started, OneChild, Requests, Pending
    <2>4. Conversation'
      BY <1>1, <1>3, <1>5, <2>1, PipeFacts DEF Conversation, Started, Parent
    <2>5. QED  BY <1>3, <2>2, <2>3, <2>4 DEF ForkInv
  <1>10. CASE Reply
    <2>1. /\ server = "reply" /\ ctl' = ctl
          /\ \/ Parent /\ stp' = Append(stp, Status) /\ server' = "read"
             \/ ~Parent /\ server' = "aborted" /\ stp' = stp
      BY <1>1, <1>10 DEF Reply, WriteOrAbort, OneChild, Status
    <2>2. ForkTypeOK'
      BY <1>1, <1>2, <1>5, <2>1, TypesKept DEF ForkTypeOK
    <2>3. Started' /\ OneChild' /\ Requests'
      BY <1>1, <1>3, <1>4, <1>5, <2>1 DEF Started, OneChild, Requests, Pending
    <2>4. Conversation'
      BY <1>1, <1>3, <1>5, <2>1, PipeFacts DEF Conversation, Started, Parent
    <2>5. QED  BY <1>3, <2>2, <2>3, <2>4 DEF ForkInv
  <1>11. QED  BY <1>6, <1>7, <1>8, <1>9, <1>10

\* The wait for a previous child finds one that is reaped: the call fails.
LEMMA StaleWait ==
    ASSUME ForkInv, WaitStale
    PROVE  ForkInv'
  <1>1. ForkTypeOK /\ Started /\ OneChild /\ Requests /\ Conversation
    BY DEF ForkInv
  <1>2. Last \in Nat /\ Len(answers) \in Nat /\ (children = <<>> <=> Last = 0)
    BY <1>1, Lengths
  <1>3. server = "stale" /\ server' = "fork" /\ children[child_pid].state = "reaped"
    BY <1>1, <1>2 DEF WaitStale, Requests, OneChild
  <1>4. UNCHANGED <<childVars, answers, child_pid>> /\ UNCHANGED <<setup, fuzzerVars, ctl, stp>>
    BY <1>3 DEF WaitStale, childVars, fuzzerVars
  <1>5. UNCHANGED <<fuzzer, timedOut, prevTimedOut, asked, pid, answers, underAFL, ctl, stp>>
    BY <1>4 DEF fuzzerVars, setup
  <1>6. /\ Last' = Last /\ Status' = Status /\ Answered' /\ Marks'
        /\ child_pid' = Last /\ children' = children
        /\ \A c \in 1..Last : ~Alive(c)' => children'[c].end \in Ends
    BY <1>4, ChildrenKept DEF childVars
  <1>7. ForkTypeOK'
    BY <1>1, <1>3, <1>4, <1>5, TypesKept DEF ForkTypeOK
  <1>8. Started' /\ OneChild' /\ Requests'
    BY <1>1, <1>2, <1>3, <1>5, <1>6 DEF Started, OneChild, Requests, Pending
  <1>9. Conversation'
    BY <1>1, <1>3, <1>5, <1>6 DEF Conversation
  <1>10. QED  BY <1>6, <1>7, <1>8, <1>9 DEF ForkInv

\* The steps of afl-fuzz that neither kill a child nor end a run.
LEMMA TalkOfFuzzer ==
    ASSUME ForkInv, Hello \/ Request \/ GetPid \/ TimeOver
    PROVE  ForkInv'
  <1>1. ForkTypeOK /\ Started /\ OneChild /\ Requests /\ Conversation
    BY DEF ForkInv
  <1>0. UNCHANGED <<childVars, answers, child_pid>> /\ UNCHANGED setup
    BY DEF Hello, Request, GetPid, TimeOver, serverVars
  <1>2. UNCHANGED <<server, status, prevTimedOut, underAFL>>
    BY DEF Hello, Request, GetPid, TimeOver, serverVars, setup
  <1>3. /\ Last' = Last /\ Status' = Status /\ Answered' /\ Marks'
        /\ child_pid' = Last /\ children' = children /\ answers' = answers
        /\ \A c \in 1..Last : ~Alive(c)' => children'[c].end \in Ends
    BY <1>0, ChildrenKept DEF childVars
  <1>4. Last \in Nat /\ Len(answers) \in Nat /\ (children = <<>> <=> Last = 0)
    BY <1>1, Lengths
  <1>5. OneChild'
    BY <1>1, <1>2, <1>3 DEF OneChild
  <1>6. CASE Hello
    <2>1. /\ fuzzer = "start" /\ stp # <<>> /\ stp' = Tail(stp) /\ fuzzer' = "idle"
          /\ UNCHANGED <<timedOut, asked, pid, ctl>>
      BY <1>6 DEF Hello
    <2>2. ForkTypeOK'
      BY <1>1, <1>2, <2>1, <1>0, TypesKept DEF ForkTypeOK
    <2>3. server = "read" /\ stp = <<Message("hello", 0)>> /\ stp' = <<>>
      BY <1>1, <2>1, PipeFacts DEF Conversation
    <2>4. Started' /\ Requests'
      BY <1>1, <1>2, <1>3, <1>4, <2>1, <2>3 DEF Started, Requests, Pending
    <2>5. Len(answers) = 0 /\ Last = 0
      BY <1>1, <1>4, <2>1 DEF Conversation, ForkInv, Answered
    <2>6. Conversation'
      BY <1>1, <1>2, <1>3, <2>1, <2>3, <2>5 DEF Conversation
    <2>7. QED  BY <1>3, <1>5, <2>2, <2>4, <2>6 DEF ForkInv
  <1>7. CASE Request
    <2>1. /\ fuzzer = "idle" /\ ctl' = Append(ctl, prevTimedOut) /\ asked' = asked + 1
          /\ fuzzer' = "sent" /\ pid' = 0 /\ stp' = stp /\ timedOut' \in BOOLEAN
      BY <1>7 DEF Request
    <2>2. ForkTypeOK'
      BY <1>1, <1>2, <2>1, <1>0, TypesKept DEF ForkTypeOK
    <2>3. ctl' = <<prevTimedOut>> /\ ctl' # <<>> /\ server = "read"
      BY <1>1, <2>1, PipeFacts DEF Conversation
    <2>4. ctl' \in {<<TRUE>>, <<FALSE>>} /\ (ctl' = <<TRUE>> => prevTimedOut)
      <3>1. CASE prevTimedOut = TRUE
        BY <2>3, <3>1
      <3>2. CASE prevTimedOut = FALSE
        <4>1. ctl' = <<FALSE>>
          BY <2>3, <3>2
        <4>2. ctl'[1] # TRUE
          BY <4>1
        <4>3. QED  BY <4>1, <4>2
      <3>3. QED  BY <1>1, <3>1, <3>2 DEF ForkTypeOK
    <2>5. Started'
      BY <1>1, <1>2, <1>3, <2>1, <2>3 DEF Started
    <2>6. Last = Len(answers) /\ asked = Len(answers) /\ (prevTimedOut => Last > 0)
      BY <1>1, <2>1 DEF Conversation, Requests
    <2>7. Last' < asked' /\ Last' <= asked' /\ (prevTimedOut' => Last' > 0)
      BY <1>2, <1>3, <1>4, <2>1, <2>6
    <2>8. Requests'
      BY <1>2, <1>3, <2>3, <2>4, <2>6, <2>7 DEF Requests
    <2>9. Conversation'
      BY <1>1, <1>2, <1>3, <2>1, <2>3 DEF Conversation
    <2>10. QED  BY <1>3, <1>5, <2>2, <2>5, <2>8, <2>9 DEF ForkInv
  <1>8. CASE GetPid
    <2>1. /\ fuzzer = "sent" /\ stp # <<>> /\ pid' = Head(stp).value /\ stp' = Tail(stp)
          /\ fuzzer' = "running" /\ UNCHANGED <<timedOut, asked, ctl>>
      BY <1>8 DEF GetPid
    <2>2. /\ asked = Len(answers) + 1 /\ Last = Len(answers) + 1 /\ ctl = <<>>
          /\ \/ server \in {"wait", "reply"} /\ stp = <<Message("pid", Last)>>
             \/ server = "read" /\ stp = <<Message("pid", Last), Status>>
      BY <1>1, <2>1 DEF Conversation
    <2>3. /\ Head(stp) = Message("pid", Last)
          /\ \/ server \in {"wait", "reply"} /\ stp' = <<>>
             \/ server = "read" /\ stp' = <<Status>>
      <3>1. CASE server \in {"wait", "reply"} /\ stp = <<Message("pid", Last)>>
        BY <2>1, <3>1, PipeFacts
      <3>2. CASE server = "read" /\ stp = <<Message("pid", Last), Status>>
        BY <2>1, <3>2, PipeFacts
      <3>3. QED  BY <2>2, <3>1, <3>2
    <2>4. pid' = Last
      BY <2>1, <2>3 DEF Message
    <2>5. ForkTypeOK'
      BY <1>1, <1>2, <1>4, <2>1, <2>4, <1>0, TypesKept DEF ForkTypeOK
    <2>6. Started' /\ Requests'
      BY <1>1, <1>2, <1>3, <1>4, <2>1, <2>2 DEF Started, Requests, Pending
    <2>7. Conversation'
      BY <1>2, <1>3, <2>1, <2>2, <2>3, <2>4 DEF Conversation
    <2>8. QED  BY <1>3, <1>5, <2>5, <2>6, <2>7 DEF ForkInv
  <1>9. CASE TimeOver
    <2>1. /\ fuzzer' = "dead" /\ underAFL
          /\ UNCHANGED <<timedOut, prevTimedOut, asked, pid, ctl>>
      BY <1>9 DEF TimeOver
    <2>2. ForkTypeOK'
      BY <1>1, <1>2, <2>1, <1>0, TypesKept DEF ForkTypeOK
    <2>3. Started'
      BY <1>1, <1>2, <1>3, <2>1 DEF Started
    <2>4. Requests'
      <3>1. /\ ctl' = ctl /\ server' = server /\ Last' = Last /\ asked' = asked
            /\ prevTimedOut' = prevTimedOut /\ Len(answers)' = Len(answers)
        BY <1>2, <1>3, <2>1
      <3>2. Pending' <=> Pending
        BY <3>1 DEF Pending
      <3>3. QED  BY <1>1, <3>1, <3>2, Zenon DEF Requests
    <2>5. Conversation'
      BY <2>1 DEF Conversation
    <2>6. QED  BY <1>3, <1>5, <2>2, <2>3, <2>4, <2>5 DEF ForkInv
  <1>10. QED  BY <1>6, <1>7, <1>8, <1>9

\* The status of a run reaches afl-fuzz, which looks at the marks then.
LEMMA StatusRead ==
    ASSUME ForkInv, GetStatus
    PROVE  ForkInv'
  <1> DEFINE new == [end |-> Head(stp).value, marks |-> marker]
  <1>1. ForkTypeOK /\ Started /\ OneChild /\ Requests /\ Answered /\ Marks /\ Conversation
    BY DEF ForkInv
  <1>2. /\ fuzzer = "running" /\ stp # <<>> /\ answers' = Append(answers, new)
        /\ stp' = Tail(stp) /\ prevTimedOut' = timedOut /\ fuzzer' = "idle"
        /\ UNCHANGED <<timedOut, asked, pid, ctl, setup, server, child_pid, status>>
        /\ UNCHANGED <<children, touched, marker>>
    BY DEF GetStatus, serverVars, childVars
  <1>3. /\ Last \in Nat /\ Len(answers) \in Nat /\ (children = <<>> <=> Last = 0)
        /\ \A c \in 1..Last : children[c] \in Child
    BY <1>1, Lengths
  <1>4. /\ Last' = Last /\ underAFL' = underAFL /\ sameLoc' = sameLoc
        /\ \A c \in 1..Last : Alive(c)' = Alive(c)
    BY <1>2 DEF Last, setup, Alive
  <1>5. /\ server = "read" /\ stp = <<Status>> /\ stp' = <<>> /\ new.end = children[Last].end
        /\ Last = Len(answers) + 1 /\ asked = Len(answers) + 1 /\ ctl = <<>>
    <2>1. /\ server = "read" /\ stp = <<Status>>
          /\ Last = Len(answers) + 1 /\ asked = Len(answers) + 1 /\ ctl = <<>>
      BY <1>1, <1>2 DEF Conversation
    <2>2. Head(stp) = Status /\ stp' = <<>>
      BY <1>2, <2>1, PipeFacts
    <2>3. QED  BY <2>1, <2>2 DEF Status, Message
  <1>6. new.marks = marker /\ new \in Answer
    BY <1>1, <1>3, <1>5 DEF Child, Answer, ForkTypeOK
  <1> HIDE DEF new
  <1>7. /\ answers' \in Seq(Answer) /\ Len(answers') = Len(answers) + 1
        /\ \A k \in 1..Len(answers) : answers'[k] = answers[k]
        /\ answers'[Len(answers) + 1] = new
    BY <1>1, <1>2, <1>6, AppendProperties DEF ForkTypeOK
  <1>8. ForkTypeOK'
    BY <1>1, <1>2, <1>4, <1>7 DEF ForkTypeOK
  <1>9. Started' /\ OneChild' /\ Marks'
    BY <1>1, <1>2, <1>4, <1>5 DEF Started, OneChild, Marks
  <1>10. Requests'
    BY <1>1, <1>2, <1>3, <1>4, <1>5, <1>7 DEF Requests, Pending
  <1>11. children[Last].state = "reaped"
    BY <1>1, <1>3, <1>5 DEF OneChild
  <1>12. Answered'
    BY <1>1, <1>2, <1>3, <1>4, <1>5, <1>6, <1>7, <1>11 DEF Answered, Marks
  <1>13. Conversation'
    BY <1>2, <1>4, <1>5, <1>7 DEF Conversation
  <1>14. QED  BY <1>8, <1>9, <1>10, <1>12, <1>13 DEF ForkInv

-----------------------------------------------------------------------------
\* The step changes only the record of child c, to these values.
Updated(c, st, e, mp) ==
    /\ children' \in Seq(Child) /\ Last' = Last
    /\ children'[c].state = st /\ children'[c].end = e /\ children'[c].mapped = mp
    /\ \A d \in 1..Last : d # c => children'[d] = children[d]

\* The ways in which the actions change the record of a child.
LEMMA ChildChanged ==
    ASSUME ForkTypeOK, NEW c \in 1..Last, NEW st \in ChildStates, NEW e \in Ends
    PROVE  /\ children' = [children EXCEPT ![c].state = st] =>
                 Updated(c, st, children[c].end, children[c].mapped)
           /\ children' = [children EXCEPT ![c].state = st, ![c].end = e] =>
                 Updated(c, st, e, children[c].mapped)
           /\ children' = [children EXCEPT ![c].state = st, ![c].mapped = TRUE] =>
                 Updated(c, st, children[c].end, TRUE)
  <1>1. /\ children \in Seq(Child) /\ Last \in Nat /\ Last = Len(children)
        /\ DOMAIN children = 1..Last /\ children[c] \in Child
    BY Lengths DEF ForkTypeOK, Last
  <1>2. ASSUME NEW rec \in Child, children' = [children EXCEPT ![c] = rec]
        PROVE  Updated(c, rec.state, rec.end, rec.mapped)
    <2>1. /\ children' \in Seq(Child) /\ Len(children') = Len(children)
          /\ \A d \in 1..Len(children) :
                children'[d] = IF d = c THEN rec ELSE children[d]
      BY <1>1, <1>2, ExceptSeq
    <2>2. QED  BY <1>1, <2>1 DEF Updated, Last
  <1> DEFINE old == children[c]
             r1 == [state |-> st, end |-> old.end, hangs |-> old.hangs, mapped |-> old.mapped]
             r2 == [state |-> st, end |-> e, hangs |-> old.hangs, mapped |-> old.mapped]
             r3 == [state |-> st, end |-> old.end, hangs |-> old.hangs, mapped |-> TRUE]
  <1>3. r1 \in Child /\ r2 \in Child /\ r3 \in Child
    BY <1>1 DEF Child
  <1>4. ASSUME NEW rec \in Child
        PROVE  /\ [rec EXCEPT !.state = st] = [state |-> st, end |-> rec.end,
                                               hangs |-> rec.hangs, mapped |-> rec.mapped]
               /\ [rec EXCEPT !.end = e] = [state |-> rec.state, end |-> e,
                                            hangs |-> rec.hangs, mapped |-> rec.mapped]
               /\ [rec EXCEPT !.mapped = TRUE] = [state |-> rec.state, end |-> rec.end,
                                                  hangs |-> rec.hangs, mapped |-> TRUE]
    <2>1. [rec EXCEPT !.state = st] = [state |-> st, end |-> rec.end,
                                       hangs |-> rec.hangs, mapped |-> rec.mapped]
      BY DEF Child
    <2>2. [rec EXCEPT !.end = e] = [state |-> rec.state, end |-> e,
                                    hangs |-> rec.hangs, mapped |-> rec.mapped]
      BY DEF Child
    <2>3. ASSUME NEW b \in BOOLEAN
          PROVE  [rec EXCEPT !.mapped = b] = [state |-> rec.state, end |-> rec.end,
                                              hangs |-> rec.hangs, mapped |-> b]
      BY DEF Child
    <2>4. TRUE \in BOOLEAN
      OBVIOUS
    <2>5. [rec EXCEPT !.mapped = TRUE] = [state |-> rec.state, end |-> rec.end,
                                          hangs |-> rec.hangs, mapped |-> TRUE]
      BY <2>3, <2>4, Zenon
    <2>6. QED  BY <2>1, <2>2, <2>5
  <1>5. [old EXCEPT !.state = st] = r1
    BY <1>1, <1>4
  <1>6. [r1 EXCEPT !.end = e] = r2 /\ [r1 EXCEPT !.mapped = TRUE] = r3
    BY <1>3, <1>4
  <1>7. /\ [old EXCEPT !.state = st, !.end = e] = [[old EXCEPT !.state = st] EXCEPT !.end = e]
        /\ [old EXCEPT !.state = st, !.mapped = TRUE]
              = [[old EXCEPT !.state = st] EXCEPT !.mapped = TRUE]
    OBVIOUS
  <1>8. [old EXCEPT !.state = st, !.end = e] = r2
    BY <1>5, <1>6, <1>7
  <1>9. [old EXCEPT !.state = st, !.mapped = TRUE] = r3
    BY <1>5, <1>6, <1>7
  <1>10. /\ [children EXCEPT ![c].state = st] = [children EXCEPT ![c] = [old EXCEPT !.state = st]]
         /\ [children EXCEPT ![c].state = st, ![c].end = e]
               = [children EXCEPT ![c] = [old EXCEPT !.state = st, !.end = e]]
         /\ [children EXCEPT ![c].state = st, ![c].mapped = TRUE]
               = [children EXCEPT ![c] = [old EXCEPT !.state = st, !.mapped = TRUE]]
    OBVIOUS
  <1>11. /\ [children EXCEPT ![c].state = st] = [children EXCEPT ![c] = r1]
         /\ [children EXCEPT ![c].state = st, ![c].end = e] = [children EXCEPT ![c] = r2]
         /\ [children EXCEPT ![c].state = st, ![c].mapped = TRUE] = [children EXCEPT ![c] = r3]
    BY <1>5, <1>8, <1>9, <1>10, Zenon
  <1>12. /\ r1.state = st /\ r1.end = old.end /\ r1.mapped = old.mapped
         /\ r2.state = st /\ r2.end = e /\ r2.mapped = old.mapped
         /\ r3.state = st /\ r3.end = old.end /\ r3.mapped = TRUE
    OBVIOUS
  <1> HIDE DEF r1, r2, r3
  <1>13. ASSUME NEW rec \in Child
         PROVE  children' = [children EXCEPT ![c] = rec] => Updated(c, rec.state, rec.end, rec.mapped)
    BY <1>2
  <1>14. children' = [children EXCEPT ![c] = r1] => Updated(c, st, old.end, old.mapped)
    BY <1>3, <1>12, <1>13, Zenon
  <1>15. children' = [children EXCEPT ![c] = r2] => Updated(c, st, e, old.mapped)
    BY <1>3, <1>12, <1>13, Zenon
  <1>16. children' = [children EXCEPT ![c] = r3] => Updated(c, st, old.end, TRUE)
    BY <1>3, <1>12, <1>13, Zenon
  <1>17. QED  BY <1>11, <1>14, <1>15, <1>16, Zenon

\* A child that is not reaped is the last one, and nobody was told its status.
LEMMA NotReaped ==
    ASSUME ForkInv, NEW c \in 1..Last, children[c].state # "reaped"
    PROVE  /\ c = Last /\ server \in {"forked", "wait", "aborted"} /\ ctl = <<>>
           /\ Len(answers) < Last /\ Last \in Nat /\ Last > 0 /\ Len(answers) \in Nat
           /\ children # <<>> /\ fuzzer \notin {"start", "idle"}
           /\ \A d \in 1..Last : d # c => children[d].state = "reaped"
  <1>1. ForkTypeOK /\ OneChild /\ Requests /\ Answered /\ Conversation
    BY DEF ForkInv
  <1>2. Last \in Nat /\ Len(answers) \in Nat /\ (children = <<>> <=> Last = 0)
    BY <1>1, Lengths
  <1>3. c = Last /\ server \in {"forked", "wait", "aborted"}
    BY <1>1 DEF OneChild
  <1>4. \A d \in 1..Last : d # c => children[d].state = "reaped"
    BY <1>1, <1>3 DEF OneChild
  <1>5. Len(answers) < Last
    BY <1>1, <1>2, <1>3 DEF Answered
  <1>6. ctl = <<>>
    BY <1>1, <1>3 DEF Requests
  <1>7. fuzzer \notin {"start", "idle"}
    BY <1>1, <1>2, <1>3 DEF Conversation
  <1>8. QED  BY <1>2, <1>3, <1>4, <1>5, <1>6, <1>7

(***************************************************************************)
(* The invariant after a step of the last child, its end by a signal, or   *)
(* its reaping, from what the step says about marks and status.            *)
(***************************************************************************)
LEMMA LastUpdated ==
    ASSUME ForkInv, NEW c \in 1..Last, children[c].state # "reaped",
           NEW st \in ChildStates, NEW e \in Ends \cup {"none"}, NEW mp \in BOOLEAN,
           Updated(c, st, e, mp),
           st \in {"zombie", "reaped"} => e \in Ends,
           UNCHANGED <<underAFL, sameLoc, fuzzer, prevTimedOut, asked, pid, answers, ctl, stp,
                       child_pid, touched>>,
           timedOut' \in BOOLEAN, marker' \in SUBSET Locations,
           \/ server' = server /\ st # "reaped"
           \/ server = "wait" /\ server' = "reply" /\ st = "reaped" /\ status' = e,
           st # "forked",
           mp => marker' = touched[c]
    PROVE  ForkInv'
  <1>1. ForkTypeOK /\ Started /\ OneChild /\ Requests /\ Answered /\ Marks /\ Conversation
    BY DEF ForkInv
  <1>2. /\ c = Last /\ server \in {"forked", "wait", "aborted"} /\ ctl = <<>>
        /\ Len(answers) < Last /\ Last \in Nat /\ Last > 0 /\ Len(answers) \in Nat
        /\ children # <<>> /\ fuzzer \notin {"start", "idle"}
        /\ \A d \in 1..Last : d # c => children[d].state = "reaped"
    BY NotReaped
  <1>3. /\ children' \in Seq(Child) /\ Last' = Last
        /\ children'[c].state = st /\ children'[c].end = e /\ children'[c].mapped = mp
        /\ \A d \in 1..Last : d # c => children'[d] = children[d]
    BY DEF Updated
  <1>4. ForkTypeOK'
    BY <1>1, <1>3 DEF ForkTypeOK
  <1>5. Started'
    BY <1>1, <1>2 DEF Started
  <1>6. OneChild'
    <2>1. child_pid' = Last'
      BY <1>1, <1>3 DEF OneChild
    <2>2. ASSUME NEW d \in 1..Last'
          PROVE  /\ children'[d].state # "reaped" =>
                       d = Last' /\ server' \in {"forked", "wait", "aborted"}
                 /\ ~Alive(d)' => children'[d].end \in Ends
      <3>1. CASE d = c
        BY <1>2, <1>3, <3>1 DEF Alive, ChildStates
      <3>2. CASE d # c
        BY <1>1, <1>2, <1>3, <2>2, <3>2 DEF OneChild, Alive
      <3>3. QED  BY <3>1, <3>2
    <2>3. server' = "reply" => status' = children'[Last'].end
      BY <1>2, <1>3
    <2>4. Last' > 0
      BY <1>2, <1>3
    <2>5. QED  BY <2>1, <2>2, <2>3, <2>4 DEF OneChild
  <1>7. Requests'
    BY <1>1, <1>2, <1>3 DEF Requests, Pending
  <1>8. Answered'
    BY <1>1, <1>2, <1>3 DEF Answered
  <1>9. Marks'
    BY <1>1, <1>2, <1>3 DEF Marks
  <1>10. Conversation'
    BY <1>1, <1>2, <1>3 DEF Conversation
  <1>11. QED  BY <1>4, <1>5, <1>6, <1>7, <1>8, <1>9, <1>10 DEF ForkInv

\* The last child ends: by itself, at its time limit, or without its marks.
LEMMA LastEnds ==
    ASSUME ForkInv, NEW c \in 1..Last, Alive(c), NEW e \in Ends,
           children' = [children EXCEPT ![c].state = "zombie", ![c].end = e],
           UNCHANGED <<underAFL, sameLoc, fuzzer, prevTimedOut, asked, pid, answers, ctl, stp,
                       server, child_pid, status, marker, touched>>,
           timedOut' \in BOOLEAN
    PROVE  ForkInv'
  <1>1. ForkTypeOK /\ Marks /\ children[c].state # "reaped" /\ children[c] \in Child
    BY Lengths DEF ForkInv, Alive
  <1>2. "zombie" \in ChildStates
    BY DEF ChildStates
  <1>3. Updated(c, "zombie", e, children[c].mapped)
    BY <1>1, <1>2, ChildChanged
  <1>4. /\ children[c].mapped \in BOOLEAN /\ marker' \in SUBSET Locations
        /\ children[c].mapped => marker' = touched[c]
    BY <1>1, NotReaped DEF Child, Marks, ForkTypeOK
  <1>5. QED  BY <1>1, <1>2, <1>3, <1>4, LastUpdated

\* A child that maps the marks clears them; one that cannot, ends.
LEMMA MarkerStep ==
    ASSUME ForkInv, NEW c \in 1..Last, SetupMarker(c)
    PROVE  ForkInv'
  <1>1. /\ ForkTypeOK /\ Marks /\ children[c].state = "forked" /\ children[c] \in Child
        /\ c = Last /\ Last > 0
    BY NotReaped, Lengths DEF ForkInv, SetupMarker
  <1>2. /\ UNCHANGED <<underAFL, sameLoc, fuzzer, prevTimedOut, asked, pid, answers, ctl, stp,
                       server, child_pid, status, touched>>
        /\ timedOut' \in BOOLEAN
    BY <1>1 DEF SetupMarker, setup, fuzzerVars, serverVars, ForkTypeOK
  <1>3. CASE children' = [children EXCEPT ![c].state = "running", ![c].mapped = TRUE]
             /\ marker' = {}
    <2>0. "running" \in ChildStates /\ "signal" \in Ends
      BY DEF ChildStates, Ends, ChildEnds
    <2>1. Updated(c, "running", children[c].end, TRUE)
      BY <1>1, <1>3, <2>0, ChildChanged
    <2>2. touched[c] = {} /\ marker' \in SUBSET Locations /\ children[c].end \in Ends \cup {"none"}
      BY <1>1, <1>3 DEF Marks, Child
    <2>3. QED  BY <1>1, <1>2, <1>3, <2>0, <2>1, <2>2, LastUpdated
  <1>4. CASE children' = [children EXCEPT ![c].state = "zombie", ![c].end = "signal"]
             /\ marker' = marker
    <2>1. "signal" \in Ends /\ Alive(c)
      BY <1>1 DEF Ends, ChildEnds, Alive
    <2>2. QED  BY <1>2, <1>4, <2>1, LastEnds
  <1>5. QED  BY <1>3, <1>4 DEF SetupMarker

\* A child ends by itself.
LEMMA EndStep ==
    ASSUME ForkInv, NEW c \in 1..Last, ChildEnd(c)
    PROVE  ForkInv'
  <1>1. /\ UNCHANGED <<underAFL, sameLoc, fuzzer, prevTimedOut, asked, pid, answers, ctl, stp,
                       server, child_pid, status, marker, touched>>
        /\ timedOut' \in BOOLEAN
    BY DEF ChildEnd, setup, fuzzerVars, serverVars, ForkTypeOK, ForkInv
  <1>2. PICK e \in ChildEnds : children' = [children EXCEPT ![c].state = "zombie", ![c].end = e]
    BY DEF ChildEnd
  <1>3. Alive(c) /\ e \in Ends
    BY DEF ChildEnd, Alive, Ends
  <1>4. QED  BY <1>1, <1>2, <1>3, LastEnds

\* The timer kills the child of the run, unless that has ended.
LEMMA TimerStep ==
    ASSUME ForkInv, Timer
    PROVE  ForkInv'
  <1>1. ForkTypeOK /\ Started /\ OneChild /\ Requests /\ Answered /\ Marks /\ Conversation
    BY DEF ForkInv
  <1>2. /\ UNCHANGED <<underAFL, sameLoc, fuzzer, prevTimedOut, asked, pid, answers, ctl, stp,
                       server, child_pid, status, marker, touched>>
        /\ timedOut' \in BOOLEAN /\ fuzzer = "running"
    BY DEF Timer, setup, serverVars
  <1>3. pid \in 1..Last
    BY <1>1, <1>2, Lengths DEF Conversation
  <1>4. CASE Alive(pid)
    <2>1. children' = [children EXCEPT ![pid].state = "zombie", ![pid].end = "killed"]
      BY <1>4 DEF Timer
    <2>2. "killed" \in Ends
      BY DEF Ends
    <2>3. QED  BY <1>2, <1>3, <1>4, <2>1, <2>2, LastEnds
  <1>5. CASE ~Alive(pid)
    <2>1. children' = children
      BY <1>5 DEF Timer
    <2>2. ForkTypeOK'
      BY <1>1, <1>2, <2>1 DEF ForkTypeOK
    <2>3. Last' = Last /\ Status' = Status
      BY <2>1 DEF Last, Status
    <2>4. OneChild' /\ Answered' /\ Marks'
      BY <1>1, <1>2, <2>1, <2>3 DEF OneChild, Answered, Marks, Alive
    <2>5. Started' /\ Requests'
      BY <1>1, <1>2, <2>1, <2>3, Zenon DEF Started, Requests, Pending
    <2>6. Conversation'
      BY <1>1, <1>2, <2>1, <2>3 DEF Conversation
    <2>7. QED  BY <2>2, <2>4, <2>5, <2>6 DEF ForkInv
  <1>6. QED  BY <1>4, <1>5

\* The wait for the child of the request reaps it.
LEMMA WaitStep ==
    ASSUME ForkInv, WaitChild
    PROVE  ForkInv'
  <1>1. ForkTypeOK /\ OneChild /\ Marks
    BY DEF ForkInv
  <1>2. /\ server = "wait" /\ children[child_pid].state = "zombie"
        /\ status' = children[child_pid].end /\ server' = "reply"
        /\ children' = [children EXCEPT ![child_pid].state = "reaped"]
        /\ UNCHANGED <<underAFL, sameLoc, fuzzer, timedOut, prevTimedOut, asked, pid, answers,
                       ctl, stp, child_pid, marker, touched>>
    BY DEF WaitChild, setup, fuzzerVars
  <1>3. child_pid = Last /\ child_pid \in 1..Last /\ children[child_pid] \in Child
    BY <1>1, <1>2, Lengths DEF OneChild
  <1>4. /\ children[child_pid].end \in Ends /\ children[child_pid].mapped \in BOOLEAN
        /\ timedOut' \in BOOLEAN /\ marker' \in SUBSET Locations
        /\ children[child_pid].mapped => marker' = touched[child_pid]
    BY <1>1, <1>2, <1>3 DEF OneChild, Alive, Child, ForkTypeOK, Marks
  <1>5. "reaped" \in ChildStates
    BY DEF ChildStates
  <1>6. "signal" \in Ends
    BY DEF Ends, ChildEnds
  <1>7. Updated(child_pid, "reaped", children[child_pid].end, children[child_pid].mapped)
    BY <1>1, <1>2, <1>3, <1>5, <1>6, ChildChanged
  <1>8. QED  BY <1>2, <1>3, <1>4, <1>5, <1>7, LastUpdated

\* A running child passes a location: its marks and its history grow alike.
LEMMA PassStep ==
    ASSUME ForkInv, NEW c \in 1..Last, NEW loc \in Locations, Pass(c, loc)
    PROVE  ForkInv'
  <1> DEFINE bits == {l \in Locations : sameLoc \/ l = loc}
  <1>1. ForkTypeOK /\ Started /\ OneChild /\ Requests /\ Answered /\ Marks /\ Conversation
    BY DEF ForkInv
  <1>2. /\ children[c].state = "running" /\ marker' = marker \cup Entry(loc)
        /\ touched' = [touched EXCEPT ![c] = @ \cup bits]
        /\ UNCHANGED <<underAFL, sameLoc, fuzzer, timedOut, prevTimedOut, asked, pid, answers,
                       ctl, stp, server, child_pid, status, children>>
    BY DEF Pass, setup, fuzzerVars, serverVars
  <1>3. Entry(loc) = bits /\ bits \in SUBSET Locations
    BY DEF Entry, Locations
  <1>4. c = Last /\ Len(answers) < Last /\ Last \in Nat /\ Len(answers) \in Nat
    BY <1>2, NotReaped
  <1> HIDE DEF bits
  <1>5. touched \in Seq(SUBSET Locations) /\ Len(touched) = Last /\ touched[c] \in SUBSET Locations
    BY <1>1, <1>4, ElementOfSeq DEF ForkTypeOK, Marks
  <1>6. /\ touched' \in Seq(SUBSET Locations) /\ Len(touched') = Last
        /\ \A d \in 1..Last : touched'[d] = IF d = c THEN touched[c] \cup bits ELSE touched[d]
    <2>1. touched[c] \cup bits \in SUBSET Locations
      BY <1>3, <1>5
    <2>2. touched' = [touched EXCEPT ![c] = touched[c] \cup bits]
      BY <1>2
    <2>3. QED  BY <1>5, <2>1, <2>2, ExceptSeq
  <1>7. Last' = Last /\ Status' = Status
    BY <1>2 DEF Last, Status
  <1>8. ForkTypeOK'
    BY <1>1, <1>2, <1>3, <1>6 DEF ForkTypeOK
  <1>9. OneChild'
    BY <1>1, <1>2, <1>7 DEF OneChild, Alive
  <1>10. Started' /\ Requests'
    BY <1>1, <1>2, <1>7, Zenon DEF Started, Requests, Pending
  <1>11. Answered'
    BY <1>1, <1>2, <1>4, <1>6, <1>7 DEF Answered
  <1>12. Marks'
    BY <1>1, <1>2, <1>3, <1>4, <1>6, <1>7 DEF Marks
  <1>13. Conversation'
    BY <1>1, <1>2, <1>7 DEF Conversation
  <1>14. QED  BY <1>8, <1>9, <1>10, <1>11, <1>12, <1>13 DEF ForkInv

\* The fork gives the request its child, or ends the server.
LEMMA ForkStep ==
    ASSUME ForkInv, Fork
    PROVE  ForkInv'
  <1>1. ForkTypeOK /\ Started /\ OneChild /\ Requests /\ Answered /\ Marks /\ Conversation
    BY DEF ForkInv
  <1>2. /\ Last \in Nat /\ Len(answers) \in Nat /\ (children = <<>> <=> Last = 0)
        /\ asked \in Nat
    BY <1>1, Lengths DEF ForkTypeOK
  <1>3. /\ server = "fork"
        /\ UNCHANGED <<underAFL, sameLoc, fuzzer, timedOut, prevTimedOut, asked, pid, answers,
                       ctl, stp, status, marker>>
    BY DEF Fork, setup, fuzzerVars
  <1>4. ctl = <<>> /\ Last < asked /\ \A c \in 1..Last : children[c].state = "reaped"
    BY <1>1, <1>3 DEF Requests, Pending, OneChild
  <1>5. CASE server' = "aborted" /\ UNCHANGED <<children, touched, child_pid>>
    <2>1. Last' = Last /\ Status' = Status
      BY <1>5 DEF Last, Status
    <2>2. ForkTypeOK'
      BY <1>1, <1>3, <1>5 DEF ForkTypeOK
    <2>3. OneChild' /\ Answered' /\ Marks'
      BY <1>1, <1>3, <1>5, <2>1 DEF OneChild, Answered, Marks, Alive
    <2>4. Started' /\ Requests'
      BY <1>1, <1>3, <1>4, <1>5, <2>1 DEF Started, Requests, Pending
    <2>5. Conversation'
      BY <1>1, <1>3, <1>4, <1>5, <2>1 DEF Conversation
    <2>6. QED  BY <2>2, <2>3, <2>4, <2>5 DEF ForkInv
  <1>6. CASE server' # "aborted"
    <2>1. PICK h \in BOOLEAN :
             children' = Append(children, [state |-> "forked", end |-> "none", hangs |-> h,
                                           mapped |-> FALSE])
      BY <1>6 DEF Fork
    <2>2. touched' = Append(touched, {}) /\ child_pid' = Last + 1 /\ server' = "forked"
      BY <1>6 DEF Fork, Last
    <2> DEFINE new == [state |-> "forked", end |-> "none", hangs |-> h, mapped |-> FALSE]
    <2>3. new \in Child /\ new.state = "forked" /\ new.mapped = FALSE
      BY DEF Child, ChildStates
    <2> HIDE DEF new
    <2>4. /\ children' \in Seq(Child) /\ Last' = Last + 1
          /\ \A c \in 1..Last : children'[c] = children[c]
          /\ children'[Last + 1] = new
      <3>1. children' = Append(children, new)
        BY <2>1 DEF new
      <3>2. QED  BY <1>1, <2>3, <3>1, AppendProperties DEF ForkTypeOK, Last
    <2>5. /\ touched' \in Seq(SUBSET Locations) /\ Len(touched') = Last + 1
          /\ \A c \in 1..Last : touched'[c] = touched[c]
          /\ touched'[Last + 1] = {}
      <3>1. touched \in Seq(SUBSET Locations) /\ Len(touched) = Last /\ {} \in SUBSET Locations
        BY <1>1 DEF ForkTypeOK, Marks
      <3>2. QED  BY <2>2, <3>1, AppendProperties
    <2>6. ForkTypeOK'
      BY <1>1, <1>3, <2>2, <2>4, <2>5 DEF ForkTypeOK
    <2>7. Started'
      BY <1>1, <1>3, <2>2 DEF Started
    <2>8. OneChild'
      <3>1. ASSUME NEW c \in 1..Last'
            PROVE  /\ children'[c].state # "reaped" =>
                         c = Last' /\ server' \in {"forked", "wait", "aborted"}
                   /\ ~Alive(c)' => children'[c].end \in Ends
        <4>1. CASE c \in 1..Last
          BY <1>1, <1>4, <2>4, <4>1 DEF OneChild, Alive
        <4>2. CASE c = Last + 1
          BY <2>2, <2>3, <2>4, <4>2 DEF Alive
        <4>3. QED  BY <1>2, <2>4, <4>1, <4>2
      <3>2. QED  BY <1>2, <2>2, <2>4, <3>1 DEF OneChild
    <2>9. Requests'
      BY <1>1, <1>2, <1>3, <1>4, <2>2, <2>4 DEF Requests, Pending
    <2>10. Answered'
      BY <1>1, <1>2, <1>3, <2>4, <2>5 DEF Answered
    <2>11. Marks'
      BY <1>2, <2>3, <2>4, <2>5 DEF Marks
    <2>12. Conversation'
      BY <1>1, <1>2, <1>3, <1>4, <2>2, <2>4 DEF Conversation
    <2>13. QED  BY <2>6, <2>7, <2>8, <2>9, <2>10, <2>11, <2>12 DEF ForkInv
  <1>7. QED  BY <1>5, <1>6 DEF Fork

\* Every step of the server, of a child and of afl-fuzz preserves the invariant.
LEMMA ForkInvNext == ForkInv /\ [Next]_vars => ForkInv'
  <1> SUFFICES ASSUME ForkInv, [Next]_vars PROVE ForkInv'
    OBVIOUS
  <1>1. DOMAIN children = 1..Last
    BY Lengths DEF ForkInv
  <1>2. CASE ServerStep
    BY <1>2, TalkOfServer, StaleWait, ForkStep, WaitStep DEF ServerStep
  <1>3. CASE ChildStep
    BY <1>1, <1>3, MarkerStep, PassStep, EndStep DEF ChildStep
  <1>4. CASE FuzzerStep \/ TimeOver
    BY <1>4, TalkOfFuzzer, TimerStep, StatusRead DEF FuzzerStep
  <1>5. CASE UNCHANGED vars
    <2>1. /\ UNCHANGED <<underAFL, sameLoc, fuzzer, timedOut, prevTimedOut, asked, pid, answers,
                         ctl, stp, server, child_pid, status, children, marker, touched>>
      BY <1>5 DEF vars, setup, fuzzerVars, serverVars, childVars
    <2>2. Last' = Last /\ Status' = Status
      BY <2>1 DEF Last, Status
    <2>3. ForkTypeOK' /\ OneChild' /\ Answered' /\ Marks'
      BY <2>1, <2>2 DEF ForkInv, ForkTypeOK, OneChild, Answered, Marks, Alive
    <2>4. Started' /\ Requests'
      BY <2>1, <2>2, Zenon DEF ForkInv, Started, Requests, Pending
    <2>5. Conversation'
      BY <2>1, <2>2 DEF ForkInv, Conversation
    <2>6. QED  BY <2>3, <2>4, <2>5 DEF ForkInv
  <1>6. QED  BY <1>2, <1>3, <1>4, <1>5 DEF Next

-----------------------------------------------------------------------------
\* The inductive invariant holds throughout the life of a fork server.
THEOREM ForkInvariant == Spec => []ForkInv
  BY ForkInvInit, ForkInvNext, PTL DEF Spec

(***************************************************************************)
(* The fork server's child_pid is never read before it is written, a stale *)
(* wait never blocks, two children are never alive, and the pid that       *)
(* afl-fuzz kills is that of the run it waits for.                         *)
(***************************************************************************)
THEOREM ForkWaitsForOwnChild == Spec => []WaitsForOwnChild
  <1>1. ForkInv => WaitsForOwnChild
    <2> SUFFICES ASSUME ForkInv PROVE WaitsForOwnChild
      OBVIOUS
    <2>1. ForkTypeOK /\ OneChild /\ Requests /\ Conversation
      BY DEF ForkInv
    <2>2. DOMAIN children = 1..Last /\ Last \in Nat
      BY <2>1, Lengths
    <2>3. server = "stale" => child_pid # Uninitialized /\ children[child_pid].state = "reaped"
      BY <2>1, <2>2 DEF OneChild, Requests, Uninitialized
    <2>4. \A c \in DOMAIN children : Alive(c) => c = Len(children) /\ server \notin {"read", "fork"}
      BY <2>1, <2>2 DEF OneChild, Alive, Last
    <2>5. fuzzer = "running" => pid = Len(answers) + 1
      BY <2>1 DEF Conversation
    <2>6. QED  BY <2>3, <2>4, <2>5 DEF WaitsForOwnChild
  <1>2. QED  BY <1>1, ForkInvariant, PTL

(***************************************************************************)
(* When afl-fuzz reads the status of a run whose child could map the       *)
(* marks, the marks are the locations that this child passed.              *)
(***************************************************************************)
THEOREM ForkMarksOfThisRun == Spec => []MarksOfThisRun
  <1>1. ForkInv => MarksOfThisRun
    BY Lengths DEF ForkInv, Answered, MarksOfThisRun
  <1>2. QED  BY <1>1, ForkInvariant, PTL

-----------------------------------------------------------------------------
\* The refinement mapping: how the runs that ended did end, and what was told.
Truth == [i \in 1..EndedRuns |-> children[i].end]
Told == [i \in DOMAIN answers |-> answers[i].end]

RunEnds == Ends \cup {"none"}

\* A sequence with one more element than another is that one with it appended.
LEMMA Extended ==
    ASSUME NEW S, NEW s \in Seq(S), NEW t \in Seq(S), NEW e \in S,
           Len(t) = Len(s) + 1, \A i \in 1..Len(s) : t[i] = s[i], t[Len(s) + 1] = e
    PROVE  t = Append(s, e)
  <1> DEFINE u == Append(s, e)
  <1>1. /\ u \in Seq(S) /\ Len(u) = Len(s) + 1 /\ u[Len(s) + 1] = e
        /\ \A i \in 1..Len(s) : u[i] = s[i]
    BY AppendProperties
  <1> HIDE DEF u
  <1>2. \A i \in 1..Len(t) : t[i] = u[i]
    BY <1>1
  <1>3. t = u
    BY <1>1, <1>2, SeqEqual, Zenon
  <1>4. QED  BY <1>3 DEF u

\* The mapped histories are sequences, as long as the runs they are about.
MappedOK ==
    /\ EndedRuns \in Nat /\ Last \in Nat /\ Len(answers) \in Nat
    /\ Truth \in Seq(RunEnds) /\ Len(Truth) = EndedRuns
    /\ \A i \in 1..EndedRuns : i \in 1..Last /\ Truth[i] = children[i].end
    /\ Told \in Seq(RunEnds) /\ Len(Told) = Len(answers)
    /\ \A i \in 1..Len(answers) : Told[i] = answers[i].end
    /\ EndedRuns = IF Last > 0 /\ Alive(Last) THEN Last - 1 ELSE Last

\* This holds whenever the invariant does.
LEMMA Mapped == ForkInv => MappedOK
  <1> SUFFICES ASSUME ForkInv PROVE MappedOK
    OBVIOUS
  <1>1. ForkTypeOK /\ Last \in Nat /\ Len(answers) \in Nat /\ DOMAIN answers = 1..Len(answers)
        /\ (children = <<>> <=> Last = 0) /\ \A c \in 1..Last : children[c] \in Child
    BY Lengths DEF ForkInv
  <1>2. /\ EndedRuns \in Nat /\ EndedRuns <= Last
        /\ EndedRuns = IF Last > 0 /\ Alive(Last) THEN Last - 1 ELSE Last
    BY <1>1 DEF EndedRuns, Last
  <1>3. \A i \in 1..Last : children[i].end \in RunEnds
    BY <1>1 DEF Child, RunEnds
  <1>4. \A i \in 1..Len(answers) : answers[i].end \in RunEnds
    <2>1. answers \in Seq(Answer)
      BY <1>1 DEF ForkTypeOK
    <2>2. \A i \in 1..Len(answers) : answers[i] \in Answer
      BY <2>1, ElementOfSeq
    <2>3. QED  BY <2>2 DEF Answer, RunEnds
  <1>5. \A i \in 1..EndedRuns : i \in 1..Last
    BY <1>1, <1>2
  <1>6. /\ Truth \in Seq(RunEnds) /\ Len(Truth) = EndedRuns
        /\ \A i \in 1..EndedRuns : Truth[i] = children[i].end
    BY <1>2, <1>3, <1>5 DEF Truth
  <1>7. /\ Told \in Seq(RunEnds) /\ Len(Told) = Len(answers)
        /\ \A i \in 1..Len(answers) : Told[i] = answers[i].end
    BY <1>1, <1>4 DEF Told
  <1>8. QED  BY <1>1, <1>2, <1>5, <1>6, <1>7 DEF MappedOK

\* ... and so after a step.
LEMMA MappedNext == ForkInv' => MappedOK'
  BY Mapped, PTL

\* A step that ends no run, and asks for none, is not seen by the service.
LEMMA Unseen ==
    ASSUME ForkInv, ForkInv', UNCHANGED <<asked, answers>>, EndedRuns' = EndedRuns,
           \A i \in 1..EndedRuns : children'[i].end = children[i].end
    PROVE  UNCHANGED Service!vars
  <1>1. Truth' = Truth /\ Told' = Told
    BY DEF Truth, Told
  <1>2. QED  BY <1>1 DEF Service!vars, Truth, Told

\* The end of the last child is a run of the service.
LEMMA EndIsRun ==
    ASSUME ForkInv, ForkInv', NEW c \in 1..Last, Alive(c), NEW e \in Ends,
           Updated(c, "zombie", e, children[c].mapped), UNCHANGED <<asked, answers>>
    PROVE  Service!Run
  <1>1. ForkTypeOK /\ Requests /\ children[c].state # "reaped"
    BY DEF ForkInv, Alive
  <1>2. c = Last /\ Last > 0
    BY <1>1, NotReaped
  <1>3. /\ Last' = Last /\ children'[Last].state = "zombie" /\ children'[Last].end = e
        /\ \A d \in 1..Last : d # Last => children'[d] = children[d]
    BY <1>2 DEF Updated
  <1>4. MappedOK /\ MappedOK'
    BY Mapped, MappedNext
  <1>5. /\ Last \in Nat /\ EndedRuns = Last - 1 /\ Len(Truth) = EndedRuns
        /\ Truth \in Seq(RunEnds)
        /\ \A i \in 1..EndedRuns : Truth[i] = children[i].end
    BY <1>2, <1>4 DEF MappedOK
  <1>6. /\ EndedRuns' = Last /\ Len(Truth') = Last /\ Truth' \in Seq(RunEnds)
        /\ \A i \in 1..Last : Truth'[i] = children'[i].end
    <2>1. ~Alive(Last)'
      BY <1>3 DEF Alive
    <2>2. EndedRuns' = IF Last' > 0 /\ Alive(Last)' THEN Last' - 1 ELSE Last'
      BY <1>4 DEF MappedOK
    <2>3. EndedRuns' = Last
      BY <1>3, <2>1, <2>2
    <2>4. QED  BY <1>4, <2>3 DEF MappedOK
  <1>7. /\ \A i \in 1..Len(Truth) : Truth'[i] = Truth[i]
        /\ Truth'[Len(Truth) + 1] = e
    BY <1>2, <1>3, <1>5, <1>6
  <1>8. e \in RunEnds
    BY DEF RunEnds
  <1>9. Truth' = Append(Truth, e)
    BY <1>5, <1>6, <1>7, <1>8, Extended
  <1>10. Len(Truth) < asked /\ Told' = Told
    BY <1>1, <1>5 DEF Requests, ForkTypeOK, Told
  <1>11. QED  BY <1>9, <1>10 DEF Service!Run, Truth, Told

\* A step that changes no child ends no run.
LEMMA QuietStep ==
    ASSUME ForkInv, ForkInv', UNCHANGED <<children, asked, answers>>
    PROVE  UNCHANGED Service!vars
  <1>1. EndedRuns' = EndedRuns
    BY DEF EndedRuns, Alive
  <1>2. QED  BY <1>1, Unseen

\* A child that is prepared or reaped ends no run either.
LEMMA StateOnly ==
    ASSUME ForkInv, ForkInv', NEW c \in 1..Last, NEW st, NEW mp, c = Last,
           Updated(c, st, children[c].end, mp), UNCHANGED <<asked, answers>>,
           st \in {"forked", "running"} <=> Alive(c)
    PROVE  UNCHANGED Service!vars
  <1>1. MappedOK /\ MappedOK'
    BY Mapped, MappedNext
  <1>2. Alive(Last)' <=> Alive(Last)
    BY DEF Updated, Alive
  <1>3. EndedRuns' = EndedRuns
    BY <1>1, <1>2 DEF MappedOK, Updated
  <1>4. \A i \in 1..EndedRuns : children'[i].end = children[i].end
    BY <1>1 DEF MappedOK, Updated
  <1>5. QED  BY <1>3, <1>4, Unseen

\* The server's steps are not seen: a new child has not ended, a reaped one had.
LEMMA ServerRefines ==
    ASSUME ForkInv, ForkInv', ServerStep
    PROVE  UNCHANGED Service!vars
  <1>1. ForkTypeOK /\ OneChild /\ Requests
    BY DEF ForkInv
  <1>2. CASE MapShm \/ PhoneHome \/ ReadRequest \/ WritePid \/ Reply
    <2>1. UNCHANGED <<children, asked, answers>>
      BY <1>2 DEF MapShm, PhoneHome, ReadRequest, WritePid, Reply, fuzzerVars, childVars
    <2>2. QED  BY <2>1, QuietStep
  <1>3. CASE WaitStale
    <2>1. Last \in Nat
      BY <1>1, Lengths
    <2>2. children[child_pid].state = "reaped"
      BY <1>1, <1>3, <2>1 DEF WaitStale, Requests, OneChild
    <2>3. UNCHANGED <<children, asked, answers>>
      BY <1>3, <2>2 DEF WaitStale, fuzzerVars
    <2>4. QED  BY <2>3, QuietStep
  <1>4. CASE Fork
    <2>1. server = "fork" /\ UNCHANGED <<asked, answers>>
      BY <1>4 DEF Fork, fuzzerVars
    <2>2. CASE children' = children
      BY <2>1, <2>2, QuietStep
    <2>3. CASE children' # children
      <3>1. PICK h \in BOOLEAN :
               children' = Append(children, [state |-> "forked", end |-> "none", hangs |-> h,
                                             mapped |-> FALSE])
        BY <1>4, <2>3 DEF Fork
      <3> DEFINE new == [state |-> "forked", end |-> "none", hangs |-> h, mapped |-> FALSE]
      <3>2. new \in Child /\ new.state = "forked"
        BY DEF Child, ChildStates
      <3> HIDE DEF new
      <3>3. /\ Last' = Last + 1 /\ children'[Last + 1] = new
            /\ \A c \in 1..Last : children'[c] = children[c]
        <4>1. children' = Append(children, new)
          BY <3>1 DEF new
        <4>2. QED  BY <1>1, <3>2, <4>1, AppendProperties DEF ForkTypeOK, Last
      <3>4. MappedOK /\ MappedOK'
        BY Mapped, MappedNext
      <3>5. Alive(Last)'
        BY <3>2, <3>3 DEF Alive
      <3>6. Last > 0 => ~Alive(Last)
        BY <1>1, <2>1, <3>4 DEF OneChild, Alive, MappedOK
      <3>7. EndedRuns' = EndedRuns /\ EndedRuns = Last
        BY <3>3, <3>4, <3>5, <3>6 DEF MappedOK
      <3>8. QED  BY <2>1, <3>3, <3>7, Unseen
    <2>4. QED  BY <2>2, <2>3
  <1>5. CASE WaitChild
    <2>1. /\ server = "wait" /\ children[child_pid].state = "zombie"
          /\ children' = [children EXCEPT ![child_pid].state = "reaped"]
          /\ UNCHANGED <<asked, answers>>
      BY <1>5 DEF WaitChild, fuzzerVars
    <2>2. child_pid = Last /\ child_pid \in 1..Last
      BY <1>1, <2>1, Lengths DEF OneChild
    <2>3. "reaped" \in ChildStates /\ "signal" \in Ends
      BY DEF ChildStates, Ends, ChildEnds
    <2>4. Updated(child_pid, "reaped", children[child_pid].end, children[child_pid].mapped)
      BY <1>1, <2>1, <2>2, <2>3, ChildChanged
    <2>5. ~Alive(child_pid)
      BY <2>1 DEF Alive
    <2>6. QED  BY <2>1, <2>2, <2>4, <2>5, StateOnly
  <1>6. QED  BY <1>2, <1>3, <1>4, <1>5 DEF ServerStep

\* A child's steps are not seen but its end, which is a run.
LEMMA ChildRefines ==
    ASSUME ForkInv, ForkInv', NEW c \in 1..Last,
           SetupMarker(c) \/ (\E loc \in Locations : Pass(c, loc)) \/ ChildEnd(c)
    PROVE  Service!Run \/ UNCHANGED Service!vars
  <1>1. ForkTypeOK /\ UNCHANGED <<asked, answers>>
    BY DEF ForkInv, SetupMarker, Pass, ChildEnd, fuzzerVars
  <1>2. "zombie" \in ChildStates /\ "running" \in ChildStates /\ "signal" \in Ends
    BY DEF ChildStates, Ends, ChildEnds
  <1>3. CASE SetupMarker(c)
    <2>1. children[c].state = "forked" /\ c = Last /\ Alive(c)
      BY <1>3, NotReaped DEF SetupMarker, Alive
    <2>2. CASE children' = [children EXCEPT ![c].state = "running", ![c].mapped = TRUE]
      <3>1. Updated(c, "running", children[c].end, TRUE)
        BY <1>1, <1>2, <2>2, ChildChanged
      <3>2. QED  BY <1>1, <2>1, <3>1, StateOnly
    <2>3. CASE children' = [children EXCEPT ![c].state = "zombie", ![c].end = "signal"]
      <3>1. Updated(c, "zombie", "signal", children[c].mapped)
        BY <1>1, <1>2, <2>3, ChildChanged
      <3>2. QED  BY <1>1, <1>2, <2>1, <3>1, EndIsRun
    <2>4. QED  BY <1>3, <2>2, <2>3 DEF SetupMarker
  <1>4. CASE \E loc \in Locations : Pass(c, loc)
    <2>1. children' = children
      BY <1>4 DEF Pass
    <2>2. QED  BY <1>1, <2>1, QuietStep
  <1>5. CASE ChildEnd(c)
    <2>1. PICK e \in ChildEnds : children' = [children EXCEPT ![c].state = "zombie", ![c].end = e]
      BY <1>5 DEF ChildEnd
    <2>2. Alive(c) /\ e \in Ends
      BY <1>5 DEF ChildEnd, Alive, Ends
    <2>3. Updated(c, "zombie", e, children[c].mapped)
      BY <1>1, <1>2, <2>1, <2>2, ChildChanged
    <2>4. QED  BY <1>1, <2>2, <2>3, EndIsRun
  <1>6. QED  BY <1>3, <1>4, <1>5

\* A request asks for a run, a status read is its answer, a kill ends a run.
LEMMA FuzzerRefines ==
    ASSUME ForkInv, ForkInv', FuzzerStep \/ TimeOver
    PROVE  Service!Next \/ UNCHANGED Service!vars
  <1>1. ForkTypeOK /\ OneChild /\ Answered /\ Conversation
    BY DEF ForkInv
  <1>2. MappedOK /\ MappedOK'
    BY Mapped, MappedNext
  <1>3. CASE Hello \/ GetPid \/ TimeOver
    <2>1. UNCHANGED <<children, asked, answers>>
      BY <1>3 DEF Hello, GetPid, TimeOver, childVars
    <2>2. QED  BY <2>1, QuietStep
  <1>4. CASE Request
    <2>1. fuzzer = "idle" /\ asked' = asked + 1 /\ UNCHANGED <<children, answers>>
      BY <1>4 DEF Request, childVars
    <2>2. asked = Len(Told)
      BY <1>1, <1>2, <2>1 DEF Conversation, MappedOK
    <2>3. EndedRuns' = EndedRuns
      BY <2>1 DEF EndedRuns, Alive
    <2>4. Truth' = Truth /\ Told' = Told
      BY <2>1, <2>3 DEF Truth, Told
    <2>5. QED  BY <2>1, <2>2, <2>4 DEF Service!Next, Service!Request, Truth, Told
  <1>5. CASE Timer
    <2>1. fuzzer = "running" /\ UNCHANGED <<asked, answers>>
      BY <1>5 DEF Timer
    <2>2. pid \in 1..Last
      BY <1>1, <2>1, Lengths DEF Conversation
    <2>3. CASE Alive(pid)
      <3>1. children' = [children EXCEPT ![pid].state = "zombie", ![pid].end = "killed"]
        BY <1>5, <2>3 DEF Timer
      <3>2. "killed" \in Ends /\ "zombie" \in ChildStates
        BY DEF Ends, ChildStates
      <3>3. Updated(pid, "zombie", "killed", children[pid].mapped)
        BY <1>1, <2>2, <3>1, <3>2, ChildChanged
      <3>4. Service!Run
        BY <2>1, <2>2, <2>3, <3>2, <3>3, EndIsRun
      <3>5. QED  BY <3>4 DEF Service!Next
    <2>4. CASE ~Alive(pid)
      <3>1. children' = children
        BY <1>5, <2>4 DEF Timer
      <3>2. QED  BY <2>1, <3>1, QuietStep
    <2>5. QED  BY <2>3, <2>4
  <1>6. CASE GetStatus
    <2>1. fuzzer = "running" /\ UNCHANGED <<children, asked>> /\ stp # <<>>
      BY <1>6 DEF GetStatus, childVars
    <2>2. server = "read" /\ Last = Len(answers) + 1 /\ fuzzer' = "idle"
      BY <1>1, <1>6, <2>1 DEF Conversation, GetStatus
    <2>3. Last > 0 /\ ~Alive(Last)
      BY <1>1, <1>2, <2>2 DEF OneChild, Alive, MappedOK
    <2>4. EndedRuns = Last /\ EndedRuns' = EndedRuns
      BY <1>2, <2>1, <2>3 DEF MappedOK, EndedRuns, Alive
    <2>5. Truth' = Truth /\ Len(Told) < Len(Truth) /\ Truth[Len(Told) + 1] = children[Last].end
      <3>1. Truth' = Truth
        BY <2>1, <2>4 DEF Truth
      <3>2. /\ Len(Truth) = EndedRuns /\ Len(Told) = Len(answers) /\ Last \in Nat
            /\ Len(answers) \in Nat /\ \A i \in 1..EndedRuns : Truth[i] = children[i].end
        BY <1>2 DEF MappedOK
      <3>3. QED  BY <2>2, <2>4, <3>1, <3>2
    <2>6. /\ Len(answers') = Len(answers) + 1
          /\ \A k \in 1..Len(answers) : answers'[k] = answers[k]
      <3>1. answers \in Seq(Answer) /\ answers' \in Seq(Answer)
        BY <1>1 DEF ForkInv, ForkTypeOK
      <3>2. PICK a : answers' = Append(answers, a)
        BY <1>6 DEF GetStatus
      <3>3. QED  BY <3>1, <3>2
    <2>7. answers'[Len(answers) + 1].end = children[Last].end
      BY <1>2, <2>1, <2>2, <2>6 DEF ForkInv, Answered, MappedOK
    <2>8. /\ Told \in Seq(RunEnds) /\ Told' \in Seq(RunEnds) /\ Len(Told') = Len(Told) + 1
          /\ \A i \in 1..Len(Told) : Told'[i] = Told[i]
          /\ Told'[Len(Told) + 1] = children[Last].end
      <3>1. /\ Told \in Seq(RunEnds) /\ Len(Told) = Len(answers) /\ Len(answers) \in Nat
            /\ \A i \in 1..Len(answers) : Told[i] = answers[i].end
        BY <1>2 DEF MappedOK
      <3>2. /\ Told' \in Seq(RunEnds) /\ Len(Told') = Len(answers')
            /\ \A i \in 1..Len(answers') : Told'[i] = answers'[i].end
        BY <1>2 DEF MappedOK
      <3>3. \A i \in 1..Len(Told) : Told'[i] = Told[i]
        BY <2>6, <3>1, <3>2
      <3>4. Told'[Len(Told) + 1] = children[Last].end
        BY <2>6, <2>7, <3>1, <3>2
      <3>5. QED  BY <2>6, <3>1, <3>2, <3>3, <3>4
    <2>9. children[Last].end \in RunEnds
      BY <1>1, <1>2, <2>3 DEF OneChild, RunEnds, MappedOK
    <2>10. Told' = Append(Told, children[Last].end)
      BY <2>8, <2>9, Extended
    <2>11. QED  BY <2>1, <2>5, <2>10 DEF Service!Next, Service!Answer, Truth, Told
  <1>7. QED  BY <1>3, <1>4, <1>5, <1>6 DEF FuzzerStep

(***************************************************************************)
(* The fork server implements the abstract service, for any number of runs *)
(* and however they are killed, timed out or end: the answer to the n-th   *)
(* request that afl-fuzz reads is how the n-th child of the server ended.  *)
(***************************************************************************)
THEOREM ForkRefinesService == Spec => ImplementsRunService
  <1>1. Init => Service!Init
    <2> SUFFICES ASSUME Init PROVE Service!Init
      OBVIOUS
    <2>1. asked = 0 /\ children = <<>> /\ answers = <<>>
      BY DEF Init
    <2>2. EndedRuns = 0
      BY <2>1 DEF EndedRuns
    <2>3. QED  BY <2>1, <2>2 DEF Service!Init
  <1>2. ForkInv /\ ForkInv' /\ [Next]_vars => [Service!Next]_Service!vars
    <2> SUFFICES ASSUME ForkInv, ForkInv', [Next]_vars PROVE [Service!Next]_Service!vars
      OBVIOUS
    <2>1. CASE ServerStep
      BY <2>1, ServerRefines
    <2>2. CASE ChildStep
      <3>1. DOMAIN children = 1..Last
        BY Lengths DEF ForkInv
      <3>2. QED  BY <2>2, <3>1, ChildRefines DEF ChildStep, Service!Next
    <2>3. CASE FuzzerStep \/ TimeOver
      BY <2>3, FuzzerRefines
    <2>4. CASE UNCHANGED vars
      <3>1. UNCHANGED <<children, asked, answers>>
        BY <2>4 DEF vars, fuzzerVars, childVars
      <3>2. QED  BY <3>1, QuietStep
    <2>5. QED  BY <2>1, <2>2, <2>3, <2>4 DEF Next
  <1>3. QED  BY <1>1, <1>2, ForkInvariant, PTL DEF Spec, ImplementsRunService, Service!Spec
=============================================================================
