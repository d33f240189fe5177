--------------------------- MODULE PatchGenProofs ---------------------------
(***************************************************************************)
(* Proofs about patch generation, for any source file, fix line, list of   *)
(* invariants and list of failing inputs.  The invariant says what holds   *)
(* while an option is in work: the options before it were rejected on the  *)
(* same backup, and during validation the binary is the one of the file,   *)
(* which is the option applied to the backup.                              *)
(***************************************************************************)
EXTENDS PatchGen, FiniteSetTheorems, WellFoundedInduction, TLAPS

\* The source an option of the invariant in work asks for.
Wanted(n) == ApplyOption(backup_file, backup_file, ends, Invs[inv], OptionsFor(backup_file)[n])

EarlierRejected ==
    pc \in {"try", "validate"} =>
        /\ option \in Nat
        /\ \A n \in 1..(option - 1) : Wanted(n) \in rejected

Validating ==
    pc = "validate" =>
        /\ bin_orig = fix_file
        /\ fix_file = Wanted(option)
        /\ next \in Nat
        /\ \A j \in 1..(next - 1) : <<bin_orig, FailInputs[j]>> \in clean

PatchInv ==
    /\ Len(FailInputs) \in Nat
    /\ EarlierRejected
    /\ Validating
    /\ SavedPatchesValidated
    /\ OneOptionPerPatch
    /\ OthersRejected

\* Nothing has been tried or saved when main reaches the loop.
LEMMA PatchInvInit == Init => PatchInv
  BY InputsAssumption
  DEF Init, PatchInv, EarlierRejected, Validating, SavedPatchesValidated,
      OneOptionPerPatch, OthersRejected

\* Facts about saved patches survive as long as what was rejected only grows.
LEMMA SavedKept ==
    ASSUME PatchInv, patches' = patches, rejected \subseteq rejected'
    PROVE  SavedPatchesValidated' /\ OneOptionPerPatch' /\ OthersRejected'
  BY DEF PatchInv, SavedPatchesValidated, OneOptionPerPatch, OthersRejected

\* Every step of main, and a reset, preserves the invariant.
LEMMA PatchInvNext == PatchInv /\ [Next]_vars => PatchInv'
  <1> SUFFICES ASSUME PatchInv, [Next]_vars PROVE PatchInv'
    OBVIOUS
  <1> DEFINE Saved == SavedPatchesValidated' /\ OneOptionPerPatch' /\ OthersRejected'
  <1>0. Len(FailInputs) \in Nat
    BY DEF PatchInv
  <1>q. ASSUME EarlierRejected', Validating', Saved PROVE PatchInv'
    BY <1>0, <1>q DEF PatchInv
  <1>1. CASE NewGenerator
    <2>1. option' = 1 /\ pc' = "try" /\ Saved
      BY <1>1, SavedKept DEF NewGenerator
    <2>2. EarlierRejected' /\ Validating'
      BY <2>1 DEF EarlierRejected, Validating
    <2>3. QED  BY <1>q, <2>1, <2>2
  <1>2. CASE TryOption
    <2>1. /\ pc = "try" /\ backup_file' = backup_file /\ inv' = inv /\ ends' = ends
          /\ fix_file' = Wanted(option)
      BY <1>2 DEF TryOption, Candidate, Restored, Wanted
    <2>2. option \in Nat /\ \A n \in 1..(option - 1) : Wanted(n) \in rejected
      BY <2>1 DEF PatchInv, EarlierRejected
    <2>3. \A n : Wanted(n)' = Wanted(n)
      BY <2>1 DEF Wanted
    <2>4. rejected \subseteq rejected' /\ Saved
      <3>1. rejected \subseteq rejected' /\ patches' = patches
        BY <1>2 DEF TryOption
      <3>2. QED  BY <2>1, <3>1, SavedKept
    <2>5. CASE pc' = "validate"
      <3>1. bin_orig' = fix_file' /\ next' = 1 /\ option' = option /\ rejected' = rejected
        BY <1>2, <2>1, <2>5 DEF TryOption
      <3>2. EarlierRejected'
        BY <2>2, <2>3, <3>1 DEF EarlierRejected
      <3>3. Validating'
        BY <2>1, <2>3, <3>1 DEF Validating
      <3>4. QED  BY <1>q, <2>4, <3>2, <3>3
    <2>6. CASE pc' # "validate"
      <3>1. option' = option + 1 /\ rejected' = rejected \cup {Wanted(option)}
        BY <1>2, <2>1, <2>6 DEF TryOption
      <3>2. EarlierRejected'
        BY <2>2, <2>3, <3>1 DEF EarlierRejected
      <3>3. Validating'
        BY <2>6 DEF Validating
      <3>4. QED  BY <1>q, <2>4, <3>2, <3>3
    <2>7. QED  BY <2>5, <2>6
  <1>3. CASE InputDoesNotFail
    <2>1. /\ pc' = "validate" /\ pc = "validate" /\ next' = next + 1
          /\ clean' = clean \cup {<<bin_orig, FailInputs[next]>>}
          /\ UNCHANGED <<fix_file, backup_file, bin_orig, inv, ends, option, patches, rejected>>
      BY <1>3 DEF InputDoesNotFail
    <2>2. Saved
      BY <2>1, SavedKept
    <2>3. \A n : Wanted(n)' = Wanted(n)
      BY <2>1 DEF Wanted
    <2>4. EarlierRejected'
      BY <2>1, <2>3 DEF PatchInv, EarlierRejected
    <2>5. Validating'
      BY <2>1, <2>3 DEF PatchInv, Validating
    <2>6. QED  BY <1>q, <2>2, <2>4, <2>5
  <1>4. CASE InputFails
    <2>1. /\ pc' = "try" /\ pc = "validate" /\ option' = option + 1
          /\ rejected' = rejected \cup {bin_orig}
          /\ UNCHANGED <<backup_file, inv, ends, patches>>
      BY <1>4 DEF InputFails
    <2>2. Saved
      BY <2>1, SavedKept
    <2>3. \A n : Wanted(n)' = Wanted(n)
      BY <2>1 DEF Wanted
    <2>4. bin_orig = Wanted(option) /\ option \in Nat
      BY <2>1 DEF PatchInv, Validating, EarlierRejected
    <2>5. EarlierRejected'
      BY <2>1, <2>3, <2>4 DEF PatchInv, EarlierRejected
    <2>6. Validating'
      BY <2>1 DEF Validating
    <2>7. QED  BY <1>q, <2>2, <2>5, <2>6
  <1>5. CASE SavePatch
    <2> DEFINE new == [inv |-> Invs[inv], from |-> backup_file, to |-> fix_file,
                       ends |-> ends, option |-> option, clean |-> clean]
    <2>1. /\ pc' = "loop" /\ pc = "validate" /\ next > Len(FailInputs)
          /\ patches' = patches \cup {new}
          /\ rejected' = rejected
      BY <1>5 DEF SavePatch
    <2>2. /\ fix_file = Wanted(option) /\ next \in Nat /\ option \in Nat
          /\ \A j \in 1..(next - 1) : <<fix_file, FailInputs[j]>> \in clean
          /\ \A n \in 1..(option - 1) : Wanted(n) \in rejected
      BY <2>1 DEF PatchInv, Validating, EarlierRejected
    <2>3. new.inv = Invs[inv] /\ new.from = backup_file /\ new.to = fix_file
          /\ new.option = option /\ new.ends = ends /\ new.clean = clean
      OBVIOUS
    <2>4. SavedPatchesValidated'
      <3>1. \A j \in 1..Len(FailInputs) : <<new.to, FailInputs[j]>> \in new.clean
        BY <1>0, <2>1, <2>2, <2>3
      <3> HIDE DEF new
      <3>2. QED  BY <2>1, <3>1 DEF PatchInv, SavedPatchesValidated
    <2>5. OneOptionPerPatch'
      <3>1. new.to = ApplyOption(new.from, new.from, new.ends, new.inv, OptionsFor(new.from)[new.option])
        BY <2>2, <2>3 DEF Wanted
      <3> HIDE DEF new
      <3>2. QED  BY <2>1, <3>1 DEF PatchInv, OneOptionPerPatch
    <2>6. OthersRejected'
      <3>1. \A n \in 1..(new.option - 1) :
               ApplyOption(new.from, new.from, new.ends, new.inv, OptionsFor(new.from)[n]) \in rejected
        BY <2>2, <2>3 DEF Wanted
      <3> HIDE DEF new
      <3>2. QED  BY <2>1, <3>1 DEF PatchInv, OthersRejected
    <2>7. EarlierRejected' /\ Validating'
      BY <2>1 DEF EarlierRejected, Validating
    <2>8. QED  BY <1>q, <2>4, <2>5, <2>6, <2>7
  <1>6. CASE InputTimesOut \/ NoPatch \/ Finish \/ ResetBench
    <2>1. pc' \in {"loop", "done", "reset"} /\ UNCHANGED <<patches, rejected>>
      BY <1>6 DEF InputTimesOut, NoPatch, Finish, ResetBench
    <2>2. Saved
      BY <2>1, SavedKept
    <2>3. EarlierRejected' /\ Validating'
      BY <2>1 DEF EarlierRejected, Validating
    <2>4. QED  BY <1>q, <2>2, <2>3
  <1>7. CASE UNCHANGED vars
    BY <1>7 DEF vars, PatchInv, EarlierRejected, Validating, Wanted,
                SavedPatchesValidated, OneOptionPerPatch, OthersRejected
  <1>8. QED  BY <1>1, <1>2, <1>3, <1>4, <1>5, <1>6, <1>7 DEF Next, Main

\* The inductive invariant holds in every reachable state of patch generation.
THEOREM PatchInvariant == Spec => []PatchInv
  BY PatchInvInit, PatchInvNext, PTL DEF Spec

(***************************************************************************)
(* A saved patch was validated by a binary built from exactly the patched  *)
(* file, whatever builds failed before it (rebuild_and_validate_patch).    *)
(***************************************************************************)
THEOREM PatchesValidated == Spec => []SavedPatchesValidated
  BY PatchInvariant, PTL DEF PatchInv

(***************************************************************************)
(* A saved patch is the first option of its invariant that was not         *)
(* rejected, and holds exactly that option: restoring the backup erases    *)
(* the ones tried before (gen, enumerate_patch_options).                   *)
(***************************************************************************)
THEOREM PatchesAreFirstValid == Spec => []FirstValidOption
  <1>1. PatchInv => FirstValidOption
    BY DEF PatchInv, FirstValidOption
  <1>2. QED  BY <1>1, PatchInvariant, PTL

(***************************************************************************)
(* Second part: the types, and that no line of the program is lost.  The   *)
(* lines of the vulnerable file are found in a file by an increasing map   *)
(* that reaches all lines which were not inserted; an insertion shifts the *)
(* map, and an edit that keeps a line's own text leaves it alone.  After a *)
(* search for the end of a condition has failed, only the types are left.  *)
(***************************************************************************)

\* A set of natural numbers has a smallest one.
LEMMA MinIsMember ==
    ASSUME NEW S \in SUBSET Nat, S # {}
    PROVE  Min(S) \in S
  <1>1. PICK x \in S : \A y \in S : ~(<<y, x>> \in OpToRel(<, Nat))
    BY NatLessThanWellFounded, WFMin
  <1>2. \A y \in S : ~(y < x)
    BY <1>1 DEF OpToRel
  <1>3. x \in S /\ \A y \in S : x =< y
    BY <1>2
  <1>4. QED  BY <1>3 DEF Min

\* The number of a line below which an include can go.
LEMMA IncludeLine ==
    ASSUME NEW file, Len(file) \in Nat
    PROVE  FirstIncludeLine(file) \in 0..Len(file)
  <1> DEFINE I == {i \in 1..Len(file) : file[i].kind \in {"include", "ghost"}}
  <1>1. FirstIncludeLine(file) = IF I # {} THEN Min(I) ELSE 0
    BY DEF FirstIncludeLine, SelectInSeq
  <1>2. I \in SUBSET Nat /\ I \subseteq 1..Len(file)
    OBVIOUS
  <1> HIDE DEF I
  <1>3. I # {} => Min(I) \in 1..Len(file)
    BY <1>2, MinIsMember
  <1>4. QED  BY <1>1, <1>3

\* What InsertAt does to a sequence.
LEMMA Insertion ==
    ASSUME NEW S, NEW s \in Seq(S), NEW k \in 1..(Len(s) + 1), NEW e \in S
    PROVE  /\ InsertAt(s, k, e) \in Seq(S)
           /\ Len(InsertAt(s, k, e)) = Len(s) + 1
           /\ InsertAt(s, k, e)[k] = e
           /\ \A i \in 1..(k - 1) : InsertAt(s, k, e)[i] = s[i]
           /\ \A i \in k..Len(s) : InsertAt(s, k, e)[i + 1] = s[i]
  <1> DEFINE a == SubSeq(s, 1, k - 1)
             b == SubSeq(s, k, Len(s))
             ae == a \o <<e>>
  <1>0. Len(s) \in Nat
    OBVIOUS
  <1>1. a \in Seq(S) /\ Len(a) = k - 1 /\ \A i \in 1..(k - 1) : a[i] = s[i]
    BY <1>0
  <1>2. b \in Seq(S) /\ Len(b) = Len(s) - k + 1 /\ \A i \in 1..(Len(s) - k + 1) : b[i] = s[k + i - 1]
    BY <1>0
  <1>3. <<e>> \in Seq(S) /\ Len(<<e>>) = 1 /\ <<e>>[1] = e
    OBVIOUS
  <1>4. InsertAt(s, k, e) = ae \o b
    BY DEF InsertAt
  <1> HIDE DEF a, b
  <1>5. /\ ae \in Seq(S) /\ Len(ae) = k
        /\ ae[k] = e /\ \A i \in 1..(k - 1) : ae[i] = s[i]
    BY <1>0, <1>1, <1>3
  <1> HIDE DEF ae
  <1>6. /\ ae \o b \in Seq(S) /\ Len(ae \o b) = Len(s) + 1
        /\ \A i \in 1..k : (ae \o b)[i] = ae[i]
        /\ \A i \in 1..Len(b) : (ae \o b)[k + i] = b[i]
    <2>1. ae \o b \in Seq(S) /\ Len(ae \o b) = k + Len(b)
      <3>1. ae \in Seq(S) /\ b \in Seq(S)
        BY <1>2, <1>5
      <3>2. Len(ae \o b) = Len(ae) + Len(b)
        BY <3>1
      <3>3. QED  BY <1>5, <3>1, <3>2
    <2>2. \A i \in 1..k : (ae \o b)[i] = ae[i]
      BY <1>0, <1>2, <1>5
    <2>3. ASSUME NEW i \in 1..Len(b) PROVE (ae \o b)[k + i] = b[i]
      BY <1>0, <1>2, <1>5
    <2>4. QED  BY <1>0, <1>2, <2>1, <2>2, <2>3
  <1>7. ASSUME NEW i \in k..Len(s) PROVE (ae \o b)[i + 1] = s[i]
    <2>1. (i + 1 - k) \in 1..Len(b) /\ k + (i + 1 - k) = i + 1 /\ k + (i + 1 - k) - 1 = i
      BY <1>0, <1>2
    <2>2. (ae \o b)[k + (i + 1 - k)] = b[i + 1 - k] /\ b[i + 1 - k] = s[k + (i + 1 - k) - 1]
      BY <1>2, <1>6, <2>1
    <2>3. QED  BY <2>1, <2>2
  <1>8. QED  BY <1>4, <1>5, <1>6, <1>7

\* Where the lines of the vulnerable file are in a file.
Places(file, f) ==
    /\ f \in [1..Len(Source) -> 1..Len(file)]
    /\ \A i, j \in 1..Len(Source) : i < j => f[i] < f[j]
    /\ \A i \in 1..Len(Source) : SameLine(file[f[i]], Source[i])
    /\ \A m \in OwnLines(file) : \E i \in 1..Len(Source) : f[i] = m

\* A file of lines that has the fix line.
FileOK(file) == file \in Seq(Line) /\ FixLine \in 1..Len(file)

\* A file as patch generation leaves it while the ends of conditions are found.
PatchedFile(file) == FileOK(file) /\ \E f : Places(file, f)

\* An inserted line leaves a file of lines that has the fix line.
LEMMA InsertedOK ==
    ASSUME NEW file, FileOK(file), NEW k \in 1..(Len(file) + 1), NEW e \in Line
    PROVE  FileOK(InsertAt(file, k, e))
  <1>1. file \in Seq(Line) /\ FixLine \in 1..Len(file) /\ Len(file) \in Nat
    BY DEF FileOK
  <1>2. InsertAt(file, k, e) \in Seq(Line) /\ Len(InsertAt(file, k, e)) = Len(file) + 1
    <2>1. ASSUME NEW S, NEW s \in Seq(S), NEW i \in 1..(Len(s) + 1), NEW l \in S
          PROVE  InsertAt(s, i, l) \in Seq(S) /\ Len(InsertAt(s, i, l)) = Len(s) + 1
      BY Insertion
    <2>2. QED  BY <1>1, <2>1
  <1>3. QED  BY <1>1, <1>2 DEF FileOK

\* So does a line that sed replaces.
LEMMA SedOK ==
    ASSUME NEW file, FileOK(file), NEW n, NEW new \in Line
    PROVE  FileOK(Sed(file, n, new)) /\ Len(Sed(file, n, new)) = Len(file)
  BY DEF FileOK, Sed

\* Inserting a line that is not the program's keeps the program in place.
LEMMA InsertedLine ==
    ASSUME NEW file, PatchedFile(file), NEW k \in 1..(Len(file) + 1),
           NEW e \in Line, e.kind \in {"ghost", "guard"}
    PROVE  PatchedFile(InsertAt(file, k, e))
  <1> DEFINE file2 == InsertAt(file, k, e)
  <1>1. PICK f : Places(file, f)
    BY DEF PatchedFile
  <1>2. file \in Seq(Line) /\ FixLine \in 1..Len(file) /\ Len(file) \in Nat
    BY DEF PatchedFile, FileOK
  <1>3. /\ file2 \in Seq(Line) /\ Len(file2) = Len(file) + 1 /\ file2[k] = e
        /\ \A i \in 1..(k - 1) : file2[i] = file[i]
        /\ \A i \in k..Len(file) : file2[i + 1] = file[i]
    BY <1>2, Insertion
  <1> HIDE DEF file2
  <1> DEFINE g == [i \in 1..Len(Source) |-> IF f[i] < k THEN f[i] ELSE f[i] + 1]
  <1>4. Len(Source) \in Nat
    BY SourceAssumption
  <1>5. /\ f \in [1..Len(Source) -> 1..Len(file)]
        /\ \A i, j \in 1..Len(Source) : i < j => f[i] < f[j]
        /\ \A i \in 1..Len(Source) : SameLine(file[f[i]], Source[i])
        /\ \A m \in OwnLines(file) : \E i \in 1..Len(Source) : f[i] = m
    BY <1>1 DEF Places
  <1>6. g \in [1..Len(Source) -> 1..Len(file2)]
    BY <1>2, <1>3, <1>5
  <1>7. ASSUME NEW i \in 1..Len(Source), NEW j \in 1..Len(Source), i < j
        PROVE  g[i] < g[j]
    <2>1. f[i] \in Int /\ f[j] \in Int /\ f[i] < f[j]
      BY <1>5, <1>7
    <2>2. QED  BY <2>1
  <1>8. ASSUME NEW i \in 1..Len(Source) PROVE file2[g[i]] = file[f[i]]
    <2>1. f[i] \in 1..Len(file)
      BY <1>5
    <2>2. QED  BY <1>2, <1>3, <2>1
  <1>9. ASSUME NEW m \in OwnLines(file2) PROVE \E i \in 1..Len(Source) : g[i] = m
    <2>1. m \in 1..Len(file2) /\ file2[m].kind \notin {"ghost", "guard"}
      BY DEF OwnLines
    <2>2. m # k
      BY <1>3, <2>1
    <2>3. CASE m < k
      <3>1. m \in 1..Len(file) /\ file2[m] = file[m]
        BY <1>2, <1>3, <2>1, <2>3
      <3>2. m \in OwnLines(file)
        BY <2>1, <3>1 DEF OwnLines
      <3>3. PICK i \in 1..Len(Source) : f[i] = m
        BY <1>5, <3>2
      <3>4. g[i] = m
        BY <2>3, <3>3
      <3>5. QED  BY <3>4
    <2>4. CASE m > k
      <3>1. m - 1 \in k..Len(file) /\ (m - 1) + 1 = m /\ m - 1 \in 1..Len(file)
        BY <1>2, <1>3, <2>1, <2>4
      <3>2. file2[m] = file[m - 1]
        <4>1. file2[(m - 1) + 1] = file[m - 1]
          BY <1>3, <3>1
        <4>2. QED  BY <3>1, <4>1
      <3>3. m - 1 \in OwnLines(file)
        BY <2>1, <3>1, <3>2 DEF OwnLines
      <3>4. PICK i \in 1..Len(Source) : f[i] = m - 1
        BY <1>5, <3>3
      <3>5. g[i] = m
        BY <2>4, <3>1, <3>4
      <3>6. QED  BY <3>5
    <2>5. QED  BY <1>2, <1>3, <2>1, <2>2, <2>3, <2>4
  <1>10. Places(file2, g)
    <2> HIDE DEF g
    <2>1. \A i \in 1..Len(Source) : SameLine(file2[g[i]], Source[i])
      BY <1>5, <1>8
    <2>2. QED  BY <1>6, <1>7, <1>9, <2>1 DEF Places
  <1>11. FixLine \in 1..Len(file2)
    BY <1>2, <1>3
  <1>12. QED
    <2> HIDE DEF g
    <2>1. PatchedFile(file2)
      BY <1>3, <1>10, <1>11 DEF PatchedFile, FileOK
    <2>2. QED  BY <2>1 DEF file2

\* A map that is one to one keeps the size of a set.
LEMMA SameSize ==
    ASSUME NEW S, NEW T, IsFiniteSet(S), NEW f \in [S -> T],
           \A a, b \in S : f[a] = f[b] => a = b,
           \A t \in T : \E a \in S : f[a] = t
    PROVE  Cardinality(T) = Cardinality(S)
  <1>1. f \in Bijection(S, T)
    BY DEF Bijection, Injection, Surjection, IsInjective
  <1>2. QED  BY <1>1, FS_Bijection DEF ExistsBijection

\* A new line that keeps the program's text of the line it replaces.
Keeps(new, line) ==
    /\ new \in Line /\ new.kind = line.kind
    /\ \A orig : SameLine(line, orig) => SameLine(new, orig)

\* What is inserted is not the program's own text.
LEMMA PartPutBefore ==
    ASSUME NEW line \in Line, NEW p \in Part, p # Own
    PROVE  Keeps(Before(line, p), line)
  <1> DEFINE text == line.text
             new == Before(line, p)
  <1>1. text \in Seq(Part) /\ Len(text) \in Nat
    BY DEF Line
  <1>2. <<p>> \in Seq(Part) /\ Len(<<p>>) = 1 /\ <<p>>[1] = p
    OBVIOUS
  <1>3. <<p>> \o text \in Seq(Part)
    <2> HIDE DEF text
    <2>1. QED  BY <1>1, <1>2
  <1>4. /\ new \in Line /\ new.kind = line.kind /\ new.id = line.id
        /\ new.text = <<p>> \o text
    BY <1>3 DEF Line, Before
  <1> HIDE DEF new
  <1>5. /\ Len(new.text) = Len(text) + 1 /\ new.text[1] = p
        /\ \A j \in 1..Len(text) : new.text[j + 1] = text[j]
    <2> HIDE DEF text
    <2>1. QED  BY <1>1, <1>2, <1>4
  <1>6. ASSUME NEW j \in 1..Len(text), OwnParts(line) = {j}
        PROVE  OwnParts(new) = {j + 1} /\ j + 1 \in 1..Len(new.text)
    <2>1. \A k \in 1..Len(text) : text[k] = Own <=> k = j
      BY <1>6 DEF OwnParts
    <2> HIDE DEF text
    <2>2. ASSUME NEW k \in 1..(Len(text) + 1) PROVE new.text[k] = Own <=> k = j + 1
      <3>1. CASE k = 1
        BY <1>1, <1>5, <3>1
      <3>2. CASE k # 1
        <4>1. k - 1 \in 1..Len(text) /\ (k - 1) + 1 = k
          BY <1>1, <3>2
        <4>2. new.text[k] = text[k - 1]
          BY <1>5, <4>1
        <4>3. QED  BY <1>1, <2>1, <4>1, <4>2
      <3>3. QED  BY <3>1, <3>2
    <2>3. j + 1 \in 1..(Len(text) + 1)
      BY <1>1
    <2>4. QED  BY <1>5, <2>2, <2>3 DEF OwnParts
  <1>7. ASSUME NEW orig, SameLine(line, orig) PROVE SameLine(new, orig)
    BY <1>4, <1>6, <1>7 DEF SameLine
  <1>8. QED  BY <1>4, <1>7 DEF Keeps, new

\* Nor is what is put behind it.
LEMMA PartPutBehind ==
    ASSUME NEW line \in Line, NEW p \in Part, p # Own
    PROVE  Keeps(Behind(line, p), line)
  <1> DEFINE text == line.text
             new == Behind(line, p)
  <1>1. text \in Seq(Part) /\ Len(text) \in Nat
    BY DEF Line
  <1>2. <<p>> \in Seq(Part) /\ Len(<<p>>) = 1 /\ <<p>>[1] = p
    OBVIOUS
  <1>3. text \o <<p>> \in Seq(Part)
    <2> HIDE DEF text
    <2>1. QED  BY <1>1, <1>2
  <1>4. /\ new \in Line /\ new.kind = line.kind /\ new.id = line.id
        /\ new.text = text \o <<p>>
    BY <1>3 DEF Line, Behind
  <1> HIDE DEF new
  <1>5. /\ Len(new.text) = Len(text) + 1 /\ new.text[Len(text) + 1] = p
        /\ \A j \in 1..Len(text) : new.text[j] = text[j]
    <2> HIDE DEF text
    <2>1. QED  BY <1>1, <1>2, <1>4
  <1>6. ASSUME NEW j \in 1..Len(text), OwnParts(line) = {j}
        PROVE  OwnParts(new) = {j} /\ j \in 1..Len(new.text)
    <2>1. \A k \in 1..Len(text) : text[k] = Own <=> k = j
      BY <1>6 DEF OwnParts
    <2> HIDE DEF text
    <2>2. \A k \in 1..(Len(text) + 1) : k \in 1..Len(text) \/ k = Len(text) + 1
      BY <1>1
    <2>3. j \in 1..(Len(text) + 1) /\ j # Len(text) + 1
      BY <1>1
    <2>4. \A k \in 1..(Len(text) + 1) : new.text[k] = Own <=> k = j
      BY <1>5, <2>1, <2>2, <2>3
    <2>5. QED  BY <1>5, <2>3, <2>4 DEF OwnParts
  <1>7. ASSUME NEW orig, SameLine(line, orig) PROVE SameLine(new, orig)
    BY <1>4, <1>6, <1>7 DEF SameLine
  <1>8. QED  BY <1>4, <1>7 DEF Keeps, new

\* Replacing a line by one that keeps its text keeps the program in place.
LEMMA EditedLine ==
    ASSUME NEW file, PatchedFile(file), NEW n \in 1..Len(file),
           NEW new, Keeps(new, file[n])
    PROVE  PatchedFile(Sed(file, n, new))
  <1> DEFINE file2 == Sed(file, n, new)
  <1>1. PICK f : Places(file, f)
    BY DEF PatchedFile
  <1>2. file \in Seq(Line) /\ FixLine \in 1..Len(file) /\ Len(file) \in Nat
    BY DEF PatchedFile, FileOK
  <1>3. /\ new \in Line /\ new.kind = file[n].kind
        /\ \A orig : SameLine(file[n], orig) => SameLine(new, orig)
    BY DEF Keeps
  <1>4. /\ file2 \in Seq(Line) /\ Len(file2) = Len(file) /\ file2[n] = new
        /\ \A m \in 1..Len(file) : m # n => file2[m] = file[m]
    BY <1>2, <1>3 DEF Sed
  <1> HIDE DEF file2
  <1>5. \A m \in 1..Len(file) : /\ file2[m].kind = file[m].kind
                                /\ \A orig : SameLine(file[m], orig) => SameLine(file2[m], orig)
    BY <1>3, <1>4
  <1>6. OwnLines(file2) = OwnLines(file)
    BY <1>4, <1>5 DEF OwnLines
  <1>7. Places(file2, f)
    BY <1>1, <1>4, <1>5, <1>6 DEF Places
  <1>8. PatchedFile(file2)
    BY <1>2, <1>4, <1>7 DEF PatchedFile, FileOK
  <1>9. QED  BY <1>8 DEF file2

(***************************************************************************)
(* The edits of a condition whose ends were found, on one line, on two, or *)
(* twice on one, keep the program in place; if they were not, a file of    *)
(* lines is left.                                                          *)
(***************************************************************************)
LEMMA Integrated ==
    ASSUME NEW file, FileOK(file), NEW e \in EndsOf(file), NEW i \in Range(Invs), NEW opt
    PROVE  /\ FileOK(Integrate(file, file, e, i, opt))
           /\ Len(Integrate(file, file, e, i, opt)) = Len(file)
           /\ PatchedFile(file) /\ e.close # -1 =>
                  PatchedFile(Integrate(file, file, e, i, opt))
  <1> DEFINE c == [what |-> IF opt \in {"inv && c", "c && inv"} THEN "inv" ELSE "!inv",
                   inv |-> i]
             first == opt \in {"inv && c", "!inv && c"}
             op == IF first THEN c ELSE Paren
             cl == IF first THEN Paren ELSE c
             n1 == FixLine + e.open
             n2 == FixLine + e.close
             open_line == LineAt(file, e.open)
             close_line == LineAt(file, e.close)
             new1 == Before(open_line, op)
             new2 == Behind(close_line, cl)
             both == Behind(new1, cl)
             file1 == Sed(file, n1, new1)
             file2 == IF e.close = 0 THEN Sed(file, n1, both) ELSE Sed(file1, n2, new2)
  <1>1. file \in Seq(Line) /\ FixLine \in 1..Len(file) /\ Len(file) \in Nat
    BY DEF FileOK
  <1>2. /\ e.open \in Int /\ e.close \in Int
        /\ e.open \in 0..(Len(file) - FixLine) \/ e.open = -1
        /\ e.close \in 0..(Len(file) - FixLine) \/ e.close = -1
        /\ e.close # -1 => e.open # -1
    BY <1>1 DEF EndsOf
  <1>3. op \in Part /\ op # Own /\ cl \in Part /\ cl # Own
    BY DEF Part, Own, Paren
  <1>4. open_line \in Line /\ close_line \in Line
    <2>1. Last(file) \in Line
      BY <1>1 DEF Last
    <2>2. QED  BY <1>1, <1>2, <2>1 DEF LineAt
  <1>5. Integrate(file, file, e, i, opt) = file2
    BY DEF Integrate
  <1> HIDE DEF op, cl, open_line, close_line
  <1>6. Keeps(new1, open_line) /\ Keeps(new2, close_line)
    BY <1>3, <1>4, PartPutBefore, PartPutBehind
  <1>7. new1 \in Line /\ new2 \in Line
    BY <1>6 DEF Keeps
  <1> HIDE DEF new1, new2
  <1>8. Keeps(both, new1)
    BY <1>3, <1>7, PartPutBehind
  <1>9. both \in Line /\ Keeps(both, open_line)
    BY <1>6, <1>8 DEF Keeps
  <1> HIDE DEF both, n1, n2
  <1>10. FileOK(file1) /\ Len(file1) = Len(file)
    BY <1>7, SedOK
  <1>11. FileOK(file2) /\ Len(file2) = Len(file)
    <2>1. FileOK(Sed(file, n1, both)) /\ Len(Sed(file, n1, both)) = Len(file)
      BY <1>9, SedOK
    <2> HIDE DEF file1
    <2>2. FileOK(Sed(file1, n2, new2)) /\ Len(Sed(file1, n2, new2)) = Len(file1)
      BY <1>7, <1>10, SedOK
    <2>3. QED  BY <1>10, <2>1, <2>2
  <1>12. ASSUME PatchedFile(file), e.close # -1 PROVE PatchedFile(file2)
    <2>1. /\ n1 \in 1..Len(file) /\ n2 \in 1..Len(file)
          /\ open_line = file[n1] /\ close_line = file[n2]
      BY <1>1, <1>2, <1>12 DEF n1, n2, open_line, close_line, LineAt
    <2>2. PatchedFile(Sed(file, n1, both))
      BY <1>9, <1>12, <2>1, EditedLine
    <2>3. PatchedFile(file1)
      BY <1>6, <1>12, <2>1, EditedLine
    <2>4. CASE n1 = n2
      <3>1. Sed(file1, n2, new2) = Sed(file, n2, new2)
        BY <1>1, <1>7, <1>10, <2>1, <2>4 DEF Sed
      <3>2. PatchedFile(Sed(file, n2, new2))
        BY <1>6, <1>12, <2>1, EditedLine
      <3>3. QED  BY <2>2, <3>1, <3>2
    <2>5. CASE n1 # n2
      <3>1. file1[n2] = file[n2] /\ n2 \in 1..Len(file1)
        BY <1>1, <1>10, <2>1, <2>5 DEF Sed
      <3> HIDE DEF file1
      <3>2. PatchedFile(Sed(file1, n2, new2))
        BY <1>6, <2>1, <2>3, <3>1, EditedLine
      <3>3. QED  BY <2>2, <3>2
    <2>6. QED  BY <2>4, <2>5
  <1>13. QED  BY <1>5, <1>11, <1>12

(***************************************************************************)
(* Every option of every invariant leaves a file of lines, and keeps the   *)
(* program in place if the ends of the condition were found.  The number   *)
(* of the include's line is that of the backup, also when the walkaround   *)
(* was inserted above it.                                                  *)
(***************************************************************************)
LEMMA OptionApplied ==
    ASSUME NEW file, FileOK(file), NEW e \in EndsOf(file), NEW i \in Range(Invs), NEW opt
    PROVE  /\ FileOK(ApplyOption(file, file, e, i, opt))
           /\ PatchedFile(file) /\ e.close # -1 =>
                  PatchedFile(ApplyOption(file, file, e, i, opt))
  <1> DEFINE guard == [kind |-> "guard", id |-> 0, text |-> <<[what |-> "!inv", inv |-> i]>>]
             ghost == [kind |-> "ghost", id |-> 0, text |-> <<>>]
             file2 == IF opt = "walkaround" THEN InsertAt(file, FixLine, guard)
                      ELSE Integrate(file, file, e, i, opt)
             n == FirstIncludeLine(file) + 1
             kept == PatchedFile(file) /\ e.close # -1
  <1>1. guard \in Line /\ guard.kind = "guard"
    <2>1. <<[what |-> "!inv", inv |-> i]>> \in Seq(Part)
      BY DEF Part
    <2>2. QED  BY <2>1 DEF Line
  <1>2. ghost \in Line /\ ghost.kind = "ghost"
    BY DEF Line
  <1>3. ApplyOption(file, file, e, i, opt) = InsertInclude(file2, file, i)
    BY DEF ApplyOption
  <1>4. InsertInclude(file2, file, i) = IF i \in GhostInvs /\ n <= Len(file2)
                                        THEN InsertAt(file2, n, ghost) ELSE file2
    BY DEF InsertInclude
  <1>5. Len(file) \in Nat /\ FixLine \in 1..(Len(file) + 1) /\ file \in Seq(Line)
    BY DEF FileOK
  <1> HIDE DEF guard, ghost
  <1>6. FileOK(file2)
    BY <1>1, <1>5, InsertedOK, Integrated
  <1>7. kept => PatchedFile(file2)
    BY <1>1, <1>5, InsertedLine, Integrated
  <1> HIDE DEF file2
  <1>8. n \in Nat \ {0} /\ Len(file2) \in Nat
    <2>1. FirstIncludeLine(file) \in 0..Len(file)
      BY <1>5, IncludeLine
    <2>2. QED  BY <1>5, <1>6, <2>1 DEF FileOK
  <1> HIDE DEF n, kept
  <1>9. n <= Len(file2) => n \in 1..(Len(file2) + 1)
    BY <1>8
  <1>10. FileOK(InsertInclude(file2, file, i))
    BY <1>2, <1>4, <1>6, <1>9, InsertedOK
  <1>11. kept => PatchedFile(InsertInclude(file2, file, i))
    BY <1>2, <1>4, <1>7, <1>9, InsertedLine
  <1>12. QED  BY <1>3, <1>10, <1>11 DEF kept

\* The numbers of n lines.
LEMMA Numbers ==
    ASSUME NEW n \in Nat
    PROVE  IsFiniteSet(1..n) /\ Cardinality(1..n) = n
  BY FS_Interval

\* The places are those that the ranks of a file's own lines give.
LEMMA PatchedFileKeepsProgram ==
    ASSUME NEW file, PatchedFile(file)
    PROVE  KeepsProgram(file)
  <1> DEFINE N == Len(Source)
             UpTo(m) == {j \in OwnLines(file) : j <= m}
  <1>1. PICK f : Places(file, f)
    BY DEF PatchedFile
  <1>2. /\ f \in [1..N -> 1..Len(file)]
        /\ \A i, j \in 1..N : i < j => f[i] < f[j]
        /\ \A i \in 1..N : SameLine(file[f[i]], Source[i])
        /\ \A m \in OwnLines(file) : \E i \in 1..N : f[i] = m
    BY <1>1 DEF Places
  <1>3. N \in Nat /\ \A i \in 1..N : Source[i].kind \notin {"ghost", "guard"}
    BY SourceAssumption
  <1>4. \A i \in 1..N : f[i] \in OwnLines(file)
    BY <1>2, <1>3 DEF OwnLines, SameLine
  <1>5. IsFiniteSet(1..N) /\ Cardinality(1..N) = N
    BY <1>3, Numbers
  <1>6. \A i, j \in 1..N : f[i] <= f[j] => i <= j
    <2>1. SUFFICES ASSUME NEW i \in 1..N, NEW j \in 1..N, f[i] <= f[j], ~(i <= j)
                   PROVE  FALSE
      OBVIOUS
    <2>2. j < i /\ f[i] \in Int /\ f[j] \in Int
      BY <1>2, <1>3, <2>1
    <2>3. f[j] < f[i]
      BY <1>2, <2>2
    <2>4. QED  BY <2>1, <2>2, <2>3
  <1>7. \A i, j \in 1..N : f[i] = f[j] => i = j
    BY <1>2, <1>3, <1>6
  <1>8. Cardinality(OwnLines(file)) = N
    <2>1. f \in [1..N -> OwnLines(file)]
      BY <1>2, <1>4
    <2>2. Cardinality(OwnLines(file)) = Cardinality(1..N)
      BY <1>2, <1>5, <1>7, <2>1, SameSize
    <2>3. QED  BY <1>5, <2>2
  <1>9. ASSUME NEW n \in 1..N PROVE Cardinality(UpTo(f[n])) = n
    <2> DEFINE g == [j \in 1..n |-> f[j]]
    <2>1. \A j \in 1..n : j \in 1..N /\ f[j] \in Int /\ f[n] \in Int
      BY <1>2, <1>3
    <2>2. \A j \in 1..n : f[j] <= f[n]
      BY <1>2, <2>1
    <2>3. g \in [1..n -> UpTo(f[n])]
      BY <1>4, <2>1, <2>2
    <2>4. \A a, b \in 1..n : g[a] = g[b] => a = b
      BY <1>7, <2>1
    <2>5. ASSUME NEW m \in UpTo(f[n]) PROVE \E a \in 1..n : g[a] = m
      <3>1. PICK i \in 1..N : f[i] = m
        BY <1>2
      <3>2. i <= n
        BY <1>6, <3>1
      <3>3. i \in 1..n
        BY <1>3, <3>2
      <3>4. QED  BY <3>1, <3>3
    <2>6. IsFiniteSet(1..n) /\ Cardinality(1..n) = n
      BY Numbers
    <2> HIDE DEF g, UpTo
    <2>7. Cardinality(UpTo(f[n])) = Cardinality(1..n)
      BY <2>3, <2>4, <2>5, <2>6, SameSize
    <2>8. QED  BY <2>6, <2>7
  <1>10. ASSUME NEW m \in OwnLines(file) PROVE SameLine(file[m], Source[Cardinality(UpTo(m))])
    <2>1. PICK i \in 1..N : f[i] = m
      BY <1>2
    <2>2. QED  BY <1>2, <1>9, <2>1
  <1>11. QED  BY <1>8, <1>10 DEF KeepsProgram

\* The vulnerable file is such a file.
LEMMA SourcePatched == PatchedFile(Source)
  <1> DEFINE f == [i \in 1..Len(Source) |-> i]
  <1>1. Source \in Seq(Line) /\ FixLine \in 1..Len(Source) /\ Len(Source) \in Nat
    BY SourceAssumption
  <1>2. ASSUME NEW i \in 1..Len(Source) PROVE SameLine(Source[i], Source[i])
    <2>1. Source[i].text = <<Own>>
      BY SourceAssumption
    <2>2. Len(<<Own>>) = 1 /\ <<Own>>[1] = Own
      OBVIOUS
    <2>3. OwnParts(Source[i]) = {1} /\ 1 \in 1..Len(Source[i].text)
      BY <2>1, <2>2 DEF OwnParts
    <2>4. QED  BY <2>3 DEF SameLine
  <1>3. Places(Source, f)
    BY <1>1, <1>2 DEF Places, OwnLines
  <1> HIDE DEF f
  <1>4. QED  BY <1>1, <1>3 DEF PatchedFile, FileOK

(***************************************************************************)
(* The invariant of the files: all of them are files of lines, and patched *)
(* versions of the vulnerable file if no search for the end of a condition *)
(* has failed; an option in work is one of the backup's options, and the   *)
(* ends of the condition belong to the backup.                             *)
(***************************************************************************)
Intact(file) == FileOK(file) /\ (matched => PatchedFile(file))

Files ==
    /\ Intact(fix_file)
    /\ Intact(bin_orig)
    /\ backup_file = NoFile \/ Intact(backup_file)

InWork ==
    /\ pc \in {"try", "validate"} =>
          /\ inv > 0 /\ option > 0 /\ backup_file # NoFile
          /\ ends \in EndsOf(backup_file)
          /\ matched => ends.close # -1
    /\ pc = "try" => option <= Len(OptionsFor(backup_file)) + 1
    /\ pc = "validate" => option <= Len(OptionsFor(backup_file)) /\ next > 0

FilesInv == TypeOK /\ Files /\ InWork

\* There are five options, or one.
LEMMA NumberOfOptions == \A backup : Len(OptionsFor(backup)) \in {1, 5}
  BY DEF OptionsFor

\* Where a condition begins and ends is a pair of numbers.
LEMMA EndsType ==
    ASSUME NEW file, FileOK(file)
    PROVE  EndsOf(file) \subseteq [open : Int, close : Int]
  <1>1. Len(file) \in Nat /\ FixLine \in Nat
    BY DEF FileOK
  <1>2. QED  BY <1>1 DEF EndsOf

\* A file of lines is a sequence of lines, and no file is not one.
LEMMA FileType ==
    ASSUME NEW file, FileOK(file)
    PROVE  file \in Seq(Line) /\ file # NoFile
  BY NoneAssumption DEF FileOK

\* main starts with the vulnerable file.
LEMMA FilesInvInit == Init => FilesInv
  <1> SUFFICES ASSUME Init PROVE FilesInv
    OBVIOUS
  <1>1. Files
    BY SourcePatched DEF Init, Files, Intact, PatchedFile
  <1>2. InWork
    BY DEF Init, InWork
  <1>3. Len(Invs) \in Nat /\ Len(FailInputs) \in Nat
    BY InvsAssumption, InputsAssumption
  <1>4. TypeOK
    BY <1>3, SourceAssumption DEF Init, TypeOK
  <1>5. QED  BY <1>1, <1>2, <1>4 DEF FilesInv

\* Every step of main, and a reset, preserves the invariant of the files.
LEMMA FilesInvNext == FilesInv /\ [Next]_vars => FilesInv'
  <1> SUFFICES ASSUME FilesInv, [Next]_vars PROVE FilesInv'
    OBVIOUS
  <1> DEFINE n == Len(OptionsFor(backup_file))
             SavedTypes(P) == \A p \in P : /\ p.inv \in Range(Invs)
                                           /\ p.from \in Seq(Line) /\ p.to \in Seq(Line)
                                           /\ p.option \in 1..5
  <1>1. TypeOK /\ Files /\ InWork
    BY DEF FilesInv
  <1>2. /\ pc \in {"loop", "try", "validate", "done", "reset"}
        /\ inv \in 0..Len(Invs) /\ option \in 0..6 /\ next \in 0..(Len(FailInputs) + 1)
        /\ SavedTypes(patches)
        /\ ends \in [open : Int, close : Int] /\ matched \in BOOLEAN
    BY <1>1 DEF TypeOK
  <1>3. /\ Len(Invs) \in Nat /\ Len(FailInputs) \in Nat
        /\ \A i \in 1..Len(Invs) : Invs[i] \in Range(Invs)
    BY InvsAssumption, InputsAssumption DEF Range
  <1>4. n \in {1, 5} /\ \A k \in 0..6 : k <= n => k \in 0..5
    <2>1. n \in {1, 5}
      BY NumberOfOptions
    <2> HIDE DEF n
    <2>2. QED  BY <2>1
  <1> HIDE DEF SavedTypes
  <1>q. ASSUME Files', InWork', SavedTypes(patches'),
               pc' \in {"loop", "try", "validate", "done", "reset"},
               inv' \in 0..Len(Invs), option' \in 0..6, next' \in 0..(Len(FailInputs) + 1),
               ends' \in [open : Int, close : Int], matched' \in BOOLEAN
        PROVE  FilesInv'
    <2>1. /\ fix_file' \in Seq(Line) /\ bin_orig' \in Seq(Line)
          /\ backup_file' \in Seq(Line) \cup {NoFile}
      BY <1>q, FileType DEF Files, Intact
    <2>2. TypeOK'
      BY <1>q, <2>1 DEF TypeOK, SavedTypes
    <2>3. QED  BY <1>q, <2>2 DEF FilesInv
  <1>5. CASE NewGenerator
    <2>1. /\ pc' = "try" /\ inv' = inv + 1 /\ inv < Len(Invs) /\ option' = 1
          /\ backup_file' = fix_file /\ ends' \in EndsOf(fix_file)
          /\ matched' = (matched /\ ends'.close # -1)
          /\ UNCHANGED <<fix_file, bin_orig, next, patches>>
      BY <1>5 DEF NewGenerator
    <2>2. FileOK(fix_file) /\ (matched' => matched) /\ (matched' => ends'.close # -1)
      BY <1>1, <2>1 DEF Files, Intact
    <2>3. Files'
      BY <1>1, <2>1, <2>2 DEF Files, Intact
    <2>4. backup_file' # NoFile /\ ends' \in [open : Int, close : Int]
      BY <2>1, <2>2, FileType, EndsType
    <2>5. Len(OptionsFor(backup_file')) \in {1, 5}
      BY NumberOfOptions
    <2>6. InWork'
      BY <1>2, <2>1, <2>2, <2>4, <2>5 DEF InWork
    <2>7. inv' \in 0..Len(Invs) /\ option' \in 0..6 /\ matched' \in BOOLEAN
      BY <1>2, <1>3, <2>1
    <2>8. QED  BY <1>2, <1>q, <2>1, <2>3, <2>4, <2>6, <2>7
  <1>6. CASE TryOption
    <2>1. /\ pc = "try" /\ option <= n
          /\ fix_file' = ApplyOption(backup_file, backup_file, ends, Invs[inv],
                                     OptionsFor(backup_file)[option])
          /\ UNCHANGED <<backup_file, inv, ends, patches, matched>>
      BY <1>6 DEF TryOption, Candidate, Restored
    <2>2. \/ bin_orig' = fix_file' /\ pc' = "validate" /\ next' = 1 /\ option' = option
          \/ bin_orig' = bin_orig /\ pc' = "try" /\ next' = next /\ option' = option + 1
      BY <1>6, <2>1 DEF TryOption
    <2>3. /\ inv > 0 /\ option > 0 /\ backup_file # NoFile
          /\ ends \in EndsOf(backup_file) /\ (matched => ends.close # -1)
      BY <1>1, <2>1 DEF InWork
    <2>4. Invs[inv] \in Range(Invs)
      BY <1>2, <1>3, <2>3
    <2>5. FileOK(backup_file) /\ (matched => PatchedFile(backup_file))
      BY <1>1, <2>3 DEF Files, Intact
    <2>6. FileOK(fix_file') /\ (matched => PatchedFile(fix_file'))
      BY <2>1, <2>3, <2>4, <2>5, OptionApplied
    <2>7. Files'
      BY <1>1, <2>1, <2>2, <2>6 DEF Files, Intact
    <2>8. Len(OptionsFor(backup_file')) = n
      BY <2>1
    <2>9. InWork'
      BY <1>2, <1>4, <2>1, <2>2, <2>3, <2>8 DEF InWork
    <2>10. option' \in 0..6 /\ next' \in 0..(Len(FailInputs) + 1) /\ pc' \in {"try", "validate"}
      <3>1. option \in 0..5
        BY <1>2, <1>4, <2>1
      <3>2. QED  BY <1>2, <1>3, <2>2, <3>1
    <2>11. QED  BY <1>2, <1>q, <2>1, <2>7, <2>9, <2>10
  <1>7. CASE InputDoesNotFail
    <2>1. /\ pc = "validate" /\ pc' = pc /\ next <= Len(FailInputs) /\ next' = next + 1
          /\ UNCHANGED <<fix_file, backup_file, bin_orig, inv, ends, option, patches, matched>>
      BY <1>7 DEF InputDoesNotFail
    <2>2. Files'
      BY <1>1, <2>1 DEF Files, Intact
    <2>3. InWork'
      BY <1>1, <1>2, <2>1 DEF InWork
    <2>4. next' \in 0..(Len(FailInputs) + 1)
      BY <1>2, <1>3, <2>1
    <2>5. QED  BY <1>2, <1>q, <2>1, <2>2, <2>3, <2>4
  <1>8. CASE InputFails
    <2>1. /\ pc = "validate" /\ pc' = "try" /\ option' = option + 1
          /\ UNCHANGED <<fix_file, backup_file, bin_orig, inv, ends, next, patches, matched>>
      BY <1>8 DEF InputFails
    <2>2. Files'
      BY <1>1, <2>1 DEF Files, Intact
    <2>3. /\ option <= n /\ inv > 0 /\ option > 0 /\ backup_file # NoFile
          /\ ends \in EndsOf(backup_file) /\ (matched => ends.close # -1)
      BY <1>1, <2>1 DEF InWork
    <2>4. Len(OptionsFor(backup_file')) = n
      BY <2>1
    <2>5. InWork'
      BY <1>2, <1>4, <2>1, <2>3, <2>4 DEF InWork
    <2>6. option' \in 0..6
      <3>1. option \in 0..5
        BY <1>2, <1>4, <2>3
      <3>2. QED  BY <2>1, <3>1
    <2>7. QED  BY <1>2, <1>q, <2>1, <2>2, <2>5, <2>6
  <1>9. CASE SavePatch
    <2> DEFINE new == [inv |-> Invs[inv], from |-> backup_file, to |-> fix_file,
                       ends |-> ends, option |-> option, clean |-> clean]
    <2>1. /\ pc = "validate" /\ pc' = "loop" /\ patches' = patches \cup {new}
          /\ UNCHANGED <<fix_file, backup_file, bin_orig, inv, ends, option, next, matched>>
      BY <1>9 DEF SavePatch
    <2>2. option <= n /\ inv > 0 /\ option > 0 /\ backup_file # NoFile
      BY <1>1, <2>1 DEF InWork
    <2>3. Files' /\ InWork'
      BY <1>1, <2>1 DEF Files, Intact, InWork
    <2>4. backup_file \in Seq(Line) /\ fix_file \in Seq(Line)
      BY <1>1, <2>2, FileType DEF Files, Intact
    <2>5. Invs[inv] \in Range(Invs) /\ option \in 1..5
      <3>1. option \in 0..5
        BY <1>2, <1>4, <2>2
      <3>2. QED  BY <1>2, <1>3, <2>2, <3>1
    <2>6. /\ new.inv \in Range(Invs) /\ new.option \in 1..5
          /\ new.from \in Seq(Line) /\ new.to \in Seq(Line)
      BY <2>4, <2>5
    <2> HIDE DEF new
    <2>7. SavedTypes(patches')
      BY <1>2, <2>1, <2>6 DEF SavedTypes
    <2>8. QED  BY <1>2, <1>q, <2>1, <2>3, <2>7
  <1>10. CASE InputTimesOut \/ NoPatch \/ Finish
    <2>1. /\ pc' \in {"loop", "done"}
          /\ UNCHANGED <<fix_file, backup_file, bin_orig, inv, ends, option, next, patches,
                         matched>>
      BY <1>10 DEF InputTimesOut, NoPatch, Finish
    <2>2. Files' /\ InWork'
      BY <1>1, <2>1 DEF Files, Intact, InWork
    <2>3. QED  BY <1>2, <1>q, <2>1, <2>2
  <1>11. CASE ResetBench
    <2>1. /\ pc' = "reset" /\ backup_file # NoFile /\ fix_file' = backup_file
          /\ bin_orig' \in {fix_file', bin_orig}
          /\ UNCHANGED <<backup_file, inv, ends, option, next, patches, matched>>
      BY <1>11 DEF ResetBench
    <2>2. Files'
      BY <1>1, <2>1 DEF Files, Intact
    <2>3. InWork'
      BY <2>1 DEF InWork
    <2>4. QED  BY <1>2, <1>q, <2>1, <2>2, <2>3
  <1>12. CASE UNCHANGED vars
    BY <1>1, <1>12 DEF FilesInv, TypeOK, Files, Intact, InWork, vars
  <1>13. QED
    BY <1>5, <1>6, <1>7, <1>8, <1>9, <1>10, <1>11, <1>12 DEF Next, Main

\* The invariant of the files holds in every reachable state.
THEOREM FilesInvariant == Spec => []FilesInv
  BY FilesInvInit, FilesInvNext, PTL DEF Spec

(***************************************************************************)
(* The variables of patch generation have their types: in particular every *)
(* edit leaves a file of well-formed lines, in which the fix line exists.  *)
(***************************************************************************)
THEOREM PatchGenTypes == Spec => []TypeOK
  BY FilesInvariant, PTL DEF FilesInv

(***************************************************************************)
(* As long as the ends of the conditions at the fix line are found, no     *)
(* line and no condition of the program is lost, doubled or moved past     *)
(* another by the sed commands of patch_gen.py, which address lines by     *)
(* number: for conditions of any number of lines, however many invariants  *)
(* are tried on top of one another, whatever builds fail, and also after a *)
(* reset.                                                                  *)
(***************************************************************************)
THEOREM PatchGenKeepsProgram == Spec => []ProgramKept
  <1>1. FilesInv => ProgramKept
    BY PatchedFileKeepsProgram DEF FilesInv, Files, Intact, ProgramKept
  <1>2. QED  BY <1>1, FilesInvariant, PTL

=============================================================================
