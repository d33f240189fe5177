------------------------- MODULE SnapshotFileProofs -------------------------
(***************************************************************************)
(* Proofs about the snapshot file, for any number of runs, of executions   *)
(* and of mutation targets, with and without timeouts.  The invariant adds *)
(* what snapshot.out holds while the process runs: once it has executed    *)
(* the fix location, exactly its own executions so far, the last one in    *)
(* part if the process stopped there.                                      *)
(***************************************************************************)
EXTENDS SnapshotFile, TLAPS

\* The executions of a run form a sequence, and the next one extends it.
LEMMA ExecutionsExtend ==
    ASSUME NEW r \in Nat, NEW n \in Nat, NEW t \in Nat
    PROVE  /\ Executions(r, n, t) \in Seq(Entry)
           /\ Len(Executions(r, n, t)) = n
           /\ Append(Executions(r, n, t), [run |-> r, n |-> n + 1, state |-> StateOf(n + 1, t)])
                 = Executions(r, n + 1, t)
           /\ Executions(r, 0, t) = <<>>
  <1> DEFINE e == [run |-> r, n |-> n + 1, state |-> StateOf(n + 1, t)]
  <1>1. \A i \in 1..n : [run |-> r, n |-> i, state |-> StateOf(i, t)] \in Entry
    BY DEF Entry, StateOf
  <1>2. Executions(r, n, t) \in Seq(Entry) /\ Len(Executions(r, n, t)) = n
    BY <1>1 DEF Executions
  <1>3. e \in Entry
    BY DEF Entry, StateOf
  <1>4. Append(Executions(r, n, t), e) = Executions(r, n + 1, t)
    BY <1>2, <1>3 DEF Executions
  <1>5. Executions(r, 0, t) = <<>>
    BY DEF Executions
  <1>6. QED  BY <1>2, <1>4, <1>5

\* No execution is a part of one.
LEMMA ExecutionsAreWhole ==
    ASSUME NEW file, NEW r \in Nat, NEW n \in Nat, NEW t \in Nat,
           file.snaps = Executions(r, n, t)
    PROVE  ~Cut(file)
  <1>1. Len(Executions(r, n, t)) = n
    BY ExecutionsExtend
  <1>2. CASE n = 0
    BY <1>2, ExecutionsExtend DEF Cut
  <1>3. CASE n > 0
    <2>1. Executions(r, n, t)[n] = [run |-> r, n |-> n, state |-> StateOf(n, t)]
      BY <1>3 DEF Executions
    <2>2. StateOf(n, t) # "part"
      BY DEF StateOf
    <2>3. QED  BY <1>1, <2>1, <2>2 DEF Cut
  <1>4. QED  BY <1>2, <1>3

\* A file that ends within a snapshot, without it.
LEMMA WholePart ==
    ASSUME NEW file, NEW before \in Seq(Entry), NEW e \in Entry,
           file.snaps = Append(before, e)
    PROVE  Whole(file) = before
  BY DEF Whole

\* The part of a snapshot at which a process stopped.
Part(r, n) == [run |-> r, n |-> n, state |-> "part"]

\* What snapshot.out holds while a process is running, or has stopped.
OwnWhileRunning ==
    pc # "idle" /\ execution_counter > 0 =>
        /\ raw.exists
        /\ pc = "running" => raw.snaps = Executions(run, execution_counter, k)
        /\ pc = "stopped" => raw.snaps = Append(Executions(run, execution_counter - 1, k),
                                                Part(run, execution_counter))
        /\ k = 1 /\ raw.cert => reached

FileInv ==
    /\ TypeOK
    /\ kind = "snapshot" => k = 0
    /\ pc = "stopped" => execution_counter > 0
    /\ ~raw.exists => raw = NoFile
    /\ OwnWhileRunning
    /\ OwnSnapshotsInOrder
    /\ FirstMutationCertified
    /\ RawRemovedBetweenRuns

\* Before the first run there is no file and no outcome.
LEMMA FileInvInit == Init => FileInv
  <1> SUFFICES ASSUME Init PROVE FileInv
    OBVIOUS
  <1>1. NoFile \in File /\ <<>> \in Seq(Entry)
    BY DEF NoFile, File
  <1>2. TypeOK
    <2>1. /\ run = 0 /\ k = 0 /\ execution_counter = 0 /\ reached = FALSE
          /\ kind = "snapshot" /\ pc = "idle" /\ processed = <<>> /\ raw = NoFile
          /\ same_loc \in BOOLEAN
      BY BoundsAssumption DEF Init
    <2>2. outcome = [res |-> "none", run |-> 0, kind |-> "snapshot", k |-> 0, hits |-> 0,
                     stopped |-> FALSE, valid |-> FALSE, snaps |-> <<>>, reached |-> FALSE]
      BY <2>1 DEF Init, Ended
    <2>3. 0 \in 0..MaxRuns /\ 0 \in 0..MaxHits
      BY BoundsAssumption
    <2>4. QED  BY <1>1, <2>1, <2>2, <2>3 DEF TypeOK
  <1>3. outcome.res = "none" /\ raw = NoFile /\ ~raw.exists /\ pc = "idle" /\ k = 0
    BY DEF Init, Ended, NoFile
  <1>4. QED
    BY <1>2, <1>3 DEF FileInv, OwnWhileRunning, OwnSnapshotsInOrder,
                      FirstMutationCertified, RawRemovedBetweenRuns

\* The file after a snapshot, or a part of one, was added to it.
LEMMA PrintedFile ==
    ASSUME FileInv, pc = "running", execution_counter < MaxHits, NEW entry \in Entry
    PROVE  LET n == execution_counter + 1
               file == PrintSnapshot(raw, n, entry)
           IN  /\ n \in 1..MaxHits
               /\ file \in File /\ file.exists
               /\ file.snaps = Append(Executions(run, execution_counter, k), entry)
               /\ n = 1 => ~file.cert
               /\ n # 1 => file.cert = raw.cert
  <1> DEFINE n == execution_counter + 1
             file == PrintSnapshot(raw, n, entry)
  <1>1. /\ run \in Nat /\ k \in Nat /\ execution_counter \in Nat /\ n \in 1..MaxHits
        /\ raw \in File
    BY BoundsAssumption DEF FileInv, TypeOK
  <1>2. Append(Executions(run, execution_counter, k), entry) \in Seq(Entry)
    <2>1. Executions(run, execution_counter, k) \in Seq(Entry)
      BY <1>1, ExecutionsExtend
    <2>2. QED  BY <2>1
  <1>3. CASE n = 1
    <2>1. file = [exists |-> TRUE, snaps |-> <<entry>>, cert |-> FALSE]
      BY <1>3 DEF PrintSnapshot
    <2>2. execution_counter = 0 /\ Executions(run, 0, k) = <<>>
      BY <1>1, <1>3 DEF Executions
    <2>3. <<entry>> = Append(Executions(run, execution_counter, k), entry)
      BY <2>2
    <2>4. file \in File /\ file.exists /\ ~file.cert /\ file.snaps = <<entry>>
      <3>1. [exists |-> TRUE, snaps |-> <<entry>>, cert |-> FALSE] \in File
        BY <1>2, <2>3, Zenon DEF File
      <3>2. QED  BY <2>1, <3>1
    <2>5. QED  BY <1>1, <1>3, <2>3, <2>4
  <1>4. CASE n # 1
    <2>1. execution_counter > 0
      BY <1>1, <1>4
    <2>2. raw.exists /\ raw.snaps = Executions(run, execution_counter, k)
      BY <2>1 DEF FileInv, OwnWhileRunning
    <2>3. file = [raw EXCEPT !.snaps = Append(raw.snaps, entry)]
      BY <1>4, <2>2 DEF PrintSnapshot
    <2>4. QED  BY <1>1, <1>2, <1>4, <2>2, <2>3 DEF File
  <1>5. QED  BY <1>3, <1>4

\* The file after the fix location has been executed once more.
LEMMA ExecutedFile ==
    ASSUME FileInv, pc = "running", execution_counter < MaxHits,
           NEW entry, entry = [run |-> run, n |-> execution_counter + 1,
                               state |-> StateOf(execution_counter + 1, k)]
    PROVE  LET n == execution_counter + 1
               file == PrintSnapshot(raw, n, entry)
           IN  /\ n \in 1..MaxHits
               /\ file \in File /\ file.exists
               /\ file.snaps = Executions(run, n, k)
               /\ n = 1 => ~file.cert
               /\ n # 1 => file.cert = raw.cert
  <1>1. run \in Nat /\ k \in Nat /\ execution_counter \in Nat
    BY BoundsAssumption DEF FileInv, TypeOK
  <1>2. entry \in Entry
    BY <1>1 DEF Entry, StateOf
  <1>3. Append(Executions(run, execution_counter, k), entry)
           = Executions(run, execution_counter + 1, k)
    BY <1>1, ExecutionsExtend
  <1>4. QED  BY <1>2, <1>3, PrintedFile

\* A step that only changes the file and the counter keeps the outcome's facts.
LEMMA OutcomeKept ==
    ASSUME FileInv, pc' # "idle", outcome' = outcome
    PROVE  OwnSnapshotsInOrder' /\ FirstMutationCertified' /\ RawRemovedBetweenRuns'
  BY DEF FileInv, OwnSnapshotsInOrder, FirstMutationCertified, RawRemovedBetweenRuns

\* Every step of the driver and of the process preserves the invariant.
LEMMA FileInvNext == FileInv /\ [Next]_vars => FileInv'
  <1> SUFFICES ASSUME FileInv, [Next]_vars PROVE FileInv'
    OBVIOUS
  <1> USE BoundsAssumption
  <1>0. TypeOK
    BY DEF FileInv
  <1>1. ASSUME NEW kd \in {"snapshot", "mutate"}, NEW t \in Ks \cup {0}, RunBin(kd, t),
               kd = "snapshot" => t = 0
        PROVE  FileInv'
    <2>1. /\ pc' = "running" /\ run' \in 0..MaxRuns /\ kind' = kd /\ k' = t
          /\ execution_counter' = 0 /\ reached' \in BOOLEAN
          /\ UNCHANGED <<same_loc, raw, processed, outcome>>
      <3>1. run' \in 0..MaxRuns
        BY <1>0, <1>1 DEF RunBin, TypeOK
      <3>2. reached' \in BOOLEAN
        BY <1>1, Zenon DEF RunBin
      <3>3. QED  BY <1>1, <3>1, <3>2 DEF RunBin
    <2>2. TypeOK'
      <3>1. k' \in Ks \cup {0} /\ kind' \in {"snapshot", "mutate"} /\ 0 \in 0..MaxHits
        BY <2>1
      <3>2. QED  BY <1>0, <2>1, <3>1 DEF TypeOK
    <2>3. OwnWhileRunning' /\ RawRemovedBetweenRuns'
      BY <2>1 DEF OwnWhileRunning, RawRemovedBetweenRuns
    <2>4. OwnSnapshotsInOrder' /\ FirstMutationCertified'
      BY <2>1 DEF FileInv, OwnSnapshotsInOrder, FirstMutationCertified
    <2>5. QED  BY <1>1, <2>1, <2>2, <2>3, <2>4 DEF FileInv
  <1>2. CASE SnapshotAtFixLocation
    <2> DEFINE n == execution_counter + 1
               entry == [run |-> run, n |-> n, state |-> "original"]
               file == PrintSnapshot(raw, n, entry)
    <2>1. /\ pc = "running" /\ kind = "snapshot" /\ execution_counter < MaxHits
          /\ execution_counter' = n /\ raw' = Certify(file, n)
          /\ UNCHANGED <<same_loc, processed, pc, run, kind, k, reached, outcome>>
      BY <1>2 DEF SnapshotAtFixLocation
    <2>2. k = 0 /\ execution_counter \in Nat
      BY <1>0, <2>1 DEF FileInv, TypeOK
    <2>3. entry = [run |-> run, n |-> execution_counter + 1,
                   state |-> StateOf(execution_counter + 1, k)]
      BY <2>2 DEF StateOf
    <2>4. /\ n \in 1..MaxHits /\ file \in File /\ file.exists
          /\ file.snaps = Executions(run, n, k)
      BY <2>1, <2>3, ExecutedFile
    <2>5. /\ raw' \in File /\ raw'.exists /\ raw'.snaps = Executions(run, n, k)
      BY <2>1, <2>4 DEF Certify, File
    <2>6. TypeOK'
      BY <1>0, <2>1, <2>4, <2>5 DEF TypeOK
    <2>7. OwnWhileRunning'
      BY <2>1, <2>2, <2>5 DEF OwnWhileRunning
    <2>8. QED  BY <2>1, <2>2, <2>5, <2>6, <2>7, OutcomeKept DEF FileInv
  <1>3. CASE MutateAtFixLocation
    <2> DEFINE n == execution_counter + 1
               entry == [run |-> run, n |-> n, state |-> StateOf(n, k)]
               file == PrintSnapshot(raw, n, entry)
    <2>1. /\ pc = "running" /\ kind = "mutate" /\ execution_counter < MaxHits
          /\ execution_counter' = n
          /\ raw' = IF same_loc THEN Certify(file, n) ELSE file
          /\ reached' = IF same_loc /\ n >= k THEN TRUE ELSE reached
          /\ UNCHANGED <<same_loc, processed, pc, run, kind, k, outcome>>
      BY <1>3 DEF MutateAtFixLocation
    <2>2. execution_counter \in Nat /\ k \in Nat /\ reached \in BOOLEAN /\ same_loc \in BOOLEAN
      BY <1>0 DEF TypeOK
    <2>3. /\ n \in 1..MaxHits /\ file \in File /\ file.exists
          /\ file.snaps = Executions(run, n, k)
          /\ n = 1 => ~file.cert
          /\ n # 1 => file.cert = raw.cert
      BY <2>1, ExecutedFile
    <2> HIDE DEF file
    <2>4. /\ raw' \in File /\ raw'.exists /\ raw'.snaps = Executions(run, n, k)
      BY <2>1, <2>3 DEF Certify, File
    <2>5. TypeOK'
      <3>1. reached' \in BOOLEAN
        BY <2>1, <2>2
      <3>2. /\ UNCHANGED <<same_loc, processed, pc, run, kind, k, outcome>>
            /\ execution_counter' \in 0..MaxHits /\ raw' \in File
        BY <2>1, <2>3, <2>4
      <3>3. QED  BY <1>0, <3>1, <3>2 DEF TypeOK
    <2>6. ASSUME k = 1, raw'.cert
          PROVE  reached'
      <3>1. CASE same_loc
        BY <2>1, <2>2, <2>6, <3>1
      <3>2. CASE ~same_loc
        <4>1. n # 1 /\ raw.cert
          BY <2>1, <2>3, <2>6, <3>2
        <4>2. reached
          BY <2>1, <2>2, <2>6, <4>1 DEF FileInv, OwnWhileRunning
        <4>3. QED  BY <2>1, <4>2
      <3>3. QED  BY <2>2, <3>1, <3>2
    <2>7. OwnWhileRunning'
      BY <2>1, <2>4, <2>6 DEF OwnWhileRunning
    <2>8. QED  BY <2>1, <2>4, <2>5, <2>7, OutcomeKept DEF FileInv
  <1>4. CASE PostMutateAtCrashLocation
    <2>1. /\ pc = "running" /\ kind = "mutate"
          /\ raw' = Certify(raw, execution_counter)
          /\ reached' = IF execution_counter >= k THEN TRUE ELSE reached
          /\ UNCHANGED <<same_loc, processed, pc, run, kind, k, execution_counter, outcome>>
      BY <1>4 DEF PostMutateAtCrashLocation
    <2>2. /\ execution_counter \in Nat /\ k \in Nat /\ reached \in BOOLEAN /\ raw \in File
      BY <1>0 DEF TypeOK
    <2>3. /\ raw' \in File /\ raw'.exists = raw.exists /\ raw'.snaps = raw.snaps
          /\ execution_counter # 1 => raw' = raw
      BY <2>1, <2>2 DEF Certify, File
    <2>4. reached' \in BOOLEAN
      BY <2>1, <2>2
    <2>5. TypeOK'
      BY <1>0, <2>1, <2>3, <2>4 DEF TypeOK
    <2>6. ~raw'.exists => raw' = NoFile
      BY <2>1, <2>2, <2>3 DEF FileInv, OwnWhileRunning
    <2>7. OwnWhileRunning'
      <3>1. SUFFICES ASSUME execution_counter > 0
                     PROVE  /\ raw'.exists
                            /\ raw'.snaps = Executions(run, execution_counter, k)
                            /\ k = 1 => reached'
        BY <2>1 DEF OwnWhileRunning
      <3>2. raw'.exists /\ raw'.snaps = Executions(run, execution_counter, k)
        BY <2>1, <2>3, <3>1 DEF FileInv, OwnWhileRunning
      <3>3. k = 1 => reached'
        BY <2>1, <2>2, <3>1
      <3>4. QED  BY <3>2, <3>3
    <2>8. QED  BY <2>1, <2>5, <2>6, <2>7, OutcomeKept DEF FileInv
  <1>5. CASE StopsPrinting
    <2> DEFINE n == execution_counter + 1
               file == PrintSnapshot(raw, n, Part(run, n))
    <2>1. /\ pc = "running" /\ pc' = "stopped" /\ execution_counter < MaxHits
          /\ execution_counter' = n /\ raw' = file
          /\ UNCHANGED <<same_loc, processed, run, kind, k, reached, outcome>>
      BY <1>5 DEF StopsPrinting, Part
    <2>2. execution_counter \in Nat /\ run \in Nat /\ k \in Nat
      BY <1>0 DEF TypeOK
    <2>3. Part(run, n) \in Entry
      BY <2>2 DEF Part, Entry
    <2>4. /\ n \in 1..MaxHits /\ file \in File /\ file.exists
          /\ file.snaps = Append(Executions(run, execution_counter, k), Part(run, n))
          /\ n = 1 => ~file.cert
          /\ n # 1 => file.cert = raw.cert
      BY <2>1, <2>3, PrintedFile
    <2> HIDE DEF file
    <2>5. TypeOK'
      BY <1>0, <2>1, <2>4 DEF TypeOK
    <2>6. k = 1 /\ raw'.cert => reached'
      <3>1. n # 1 => execution_counter > 0
        BY <2>2
      <3>2. QED  BY <2>1, <2>4, <3>1 DEF FileInv, OwnWhileRunning
    <2>7. OwnWhileRunning'
      <3>1. execution_counter' - 1 = execution_counter
        BY <2>1, <2>2
      <3>2. QED  BY <2>1, <2>4, <2>6, <3>1 DEF OwnWhileRunning
    <2>8. execution_counter' > 0
      BY <2>1, <2>2
    <2>9. QED  BY <2>1, <2>4, <2>5, <2>7, <2>8, OutcomeKept DEF FileInv
  <1>6. CASE ProcessExits
    <2>1. /\ pc \in {"running", "stopped"} /\ pc' = "idle"
          /\ UNCHANGED <<same_loc, run, kind, k, execution_counter, reached>>
      BY <1>6 DEF ProcessExits
    <2>2. /\ run \in Nat /\ k \in Nat /\ execution_counter \in Nat /\ raw \in File
      BY <1>0 DEF TypeOK
    <2>3. Cut(raw) => Whole(raw) \in Seq(Entry)
      <3>1. raw.snaps \in Seq(Entry)
        BY <2>2 DEF File
      <3>2. SUFFICES ASSUME Cut(raw) PROVE SubSeq(raw.snaps, 1, Len(raw.snaps) - 1) \in Seq(Entry)
        BY DEF Whole
      <3>3. Len(raw.snaps) \in Nat /\ Len(raw.snaps) > 0
        BY <3>1, <3>2 DEF Cut
      <3>4. \A i \in 1..(Len(raw.snaps) - 1) : raw.snaps[i] \in Entry
        BY <3>1, <3>3
      <3>5. QED  BY <3>1, <3>3, <3>4
    <2>4. CASE /\ outcome' = Ended("exception", FALSE, <<>>) /\ UNCHANGED raw
               /\ processed' \in Seq(Entry)
               /\ raw.exists => Cut(raw)
      <3>1. TypeOK'
        <4>1. (pc = "stopped") \in BOOLEAN /\ <<>> \in Seq(Entry)
          OBVIOUS
        <4>2. QED  BY <1>0, <2>1, <2>4, <4>1 DEF TypeOK, Ended
      <3>2. outcome'.res = "exception" /\ (Cut(raw)' <=> Cut(raw))
        BY <2>4 DEF Ended, Cut
      <3>3. QED
        BY <2>1, <2>4, <3>1, <3>2
           DEF FileInv, OwnWhileRunning, OwnSnapshotsInOrder,
               FirstMutationCertified, RawRemovedBetweenRuns
    <2>5. CASE /\ raw.exists
               /\ processed' = raw.snaps \/ (Cut(raw) /\ processed' = Whole(raw))
               /\ raw' = NoFile
               /\ outcome' = Ended("ok", raw.cert, processed')
      <3>1. processed' \in Seq(Entry) /\ raw.cert \in BOOLEAN /\ NoFile \in File
        BY <2>2, <2>3, <2>5 DEF File, NoFile
      <3>2. TypeOK'
        <4>1. (pc = "stopped") \in BOOLEAN
          OBVIOUS
        <4>2. QED  BY <1>0, <2>1, <2>5, <3>1, <4>1 DEF TypeOK, Ended
      <3>3. /\ outcome'.res = "ok" /\ outcome'.run = run /\ outcome'.hits = execution_counter
            /\ outcome'.k = k /\ outcome'.stopped = (pc = "stopped")
            /\ outcome'.snaps = processed' /\ outcome'.valid = raw.cert
            /\ outcome'.reached = reached
        BY <2>5 DEF Ended
      <3>4. OwnSnapshotsInOrder'
        <4>1. CASE execution_counter > 0 /\ pc = "running"
          <5>1. raw.snaps = Executions(run, execution_counter, k)
            BY <4>1 DEF FileInv, OwnWhileRunning
          <5>2. ~Cut(raw)
            BY <2>2, <5>1, ExecutionsAreWhole
          <5>3. processed' = Executions(run, execution_counter, k)
            BY <2>5, <5>1, <5>2
          <5>4. QED  BY <3>3, <4>1, <5>3 DEF OwnSnapshotsInOrder
        <4>2. CASE execution_counter > 0 /\ pc = "stopped"
          <5> DEFINE before == Executions(run, execution_counter - 1, k)
          <5>1. raw.snaps = Append(before, Part(run, execution_counter))
            BY <4>2 DEF FileInv, OwnWhileRunning
          <5>2. execution_counter - 1 \in Nat /\ Part(run, execution_counter) \in Entry
            BY <2>2, <4>2 DEF Part, Entry
          <5>3. before \in Seq(Entry)
            BY <2>2, <5>2, ExecutionsExtend
          <5> HIDE DEF before
          <5>4. Whole(raw) = before
            BY <5>1, <5>2, <5>3, WholePart
          <5>5. processed' \in {before, Append(before, Part(run, execution_counter))}
            BY <2>5, <5>1, <5>4
          <5>6. QED  BY <3>3, <4>2, <5>5 DEF OwnSnapshotsInOrder, Part, before
        <4>3. CASE ~(execution_counter > 0)
          BY <3>3, <4>3 DEF OwnSnapshotsInOrder
        <4>4. QED  BY <2>1, <4>1, <4>2, <4>3
      <3>5. FirstMutationCertified'
        BY <2>1, <3>3 DEF FileInv, OwnWhileRunning, FirstMutationCertified
      <3>6. ~raw'.exists
        BY <2>5 DEF NoFile
      <3>7. QED
        BY <2>1, <2>5, <3>2, <3>4, <3>5, <3>6
           DEF FileInv, OwnWhileRunning, RawRemovedBetweenRuns
    <2>6. QED
      <3>1. processed \in Seq(Entry)
        BY <1>0 DEF TypeOK
      <3>2. QED  BY <1>6, <2>3, <2>4, <2>5, <3>1 DEF ProcessExits, Removed
  <1>7. CASE TimeoutExpired
    <2>1. /\ pc' = "idle" /\ outcome' = Ended("timeout", FALSE, <<>>)
          /\ UNCHANGED <<same_loc, raw, processed, run, kind, k, execution_counter, reached>>
      BY <1>7 DEF TimeoutExpired
    <2>2. TypeOK'
      <3>1. (pc = "stopped") \in BOOLEAN /\ <<>> \in Seq(Entry)
        OBVIOUS
      <3>2. QED  BY <1>0, <2>1, <3>1 DEF TypeOK, Ended
    <2>3. outcome'.res = "timeout"
      BY <2>1 DEF Ended
    <2>4. QED
      BY <2>1, <2>2, <2>3 DEF FileInv, OwnWhileRunning, OwnSnapshotsInOrder,
                              FirstMutationCertified, RawRemovedBetweenRuns
  <1>8. CASE UNCHANGED vars
    BY <1>8 DEF vars, FileInv, TypeOK, OwnWhileRunning, OwnSnapshotsInOrder,
                FirstMutationCertified, RawRemovedBetweenRuns, Cut
  <1>9. QED
    BY <1>1, <1>2, <1>3, <1>4, <1>5, <1>6, <1>7, <1>8
       DEF Next, Driver, Process, RunBinSnapshot, RunBinMutate

-----------------------------------------------------------------------------
\* The inductive invariant of snapshot.out and what the driver made of it.
THEOREM FileInvariant == Spec => []FileInv
  <1>1. QED  BY FileInvInit, FileInvNext, PTL DEF Spec

\* The variables of the exchange keep their types.
THEOREM FileTyped == Spec => []TypeOK
  <1>1. FileInv => TypeOK
    BY DEF FileInv
  <1>2. QED  BY <1>1, FileInvariant, PTL

\* run_bin_snapshot and run_bin_mutate give a run that executed the fix
\* location exactly its own snapshots, in order, whatever ran before; the last
\* one in part, or not at all, only if the process died while it printed it.
THEOREM FileOwnSnapshots == Spec => []OwnSnapshotsInOrder
  <1>1. FileInv => OwnSnapshotsInOrder
    BY DEF FileInv
  <1>2. QED  BY <1>1, FileInvariant, PTL

\* The certificate is sound for mutations of the first execution.
THEOREM FileFirstMutation == Spec => []FirstMutationCertified
  <1>1. FileInv => FirstMutationCertified
    BY DEF FileInv
  <1>2. QED  BY <1>1, FileInvariant, PTL

\* Only a timeout, or an exception of cleanup_snapshot_file over a file that ends
\* within a snapshot, leaves snapshot.out behind.
THEOREM FileRawRemoved == Spec => []RawRemovedBetweenRuns
  <1>1. FileInv => RawRemovedBetweenRuns
    BY DEF FileInv
  <1>2. QED  BY <1>1, FileInvariant, PTL

=============================================================================
