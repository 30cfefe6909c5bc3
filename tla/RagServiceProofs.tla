--------------------------- MODULE RagServiceProofs ---------------------------
(***************************************************************************)
(* Proofs about RagService and the modules it is made of, for any number   *)
(* of tasks, workers, builders, readers and slots, and documents of any    *)
(* length.                                                                 *)
(***************************************************************************)
EXTENDS RagService, FiniteSetTheorems, SequenceTheorems, TLAPS

-----------------------------------------------------------------------------
(* split_text: the turns of its loop start at the multiples of chunk_size  *)
(* - overlap, and the last is the first that reaches the end.              *)

\* Min of the community modules, for two numbers.
LEMMA MinOfTwo ==
    ASSUME NEW a \in Int, NEW b \in Int
    PROVE  Min({a, b}) = IF a <= b THEN a ELSE b
<1>1. \E x \in {a, b} : \A y \in {a, b} : x <= y
  OBVIOUS
<1>2. Min({a, b}) \in {a, b} /\ \A y \in {a, b} : Min({a, b}) <= y
  BY <1>1 DEF Min
<1> QED
  BY <1>2

\* Arithmetic of the turns.
LEMMA Quotient ==
    ASSUME NEW a \in Nat, NEW d \in Nat \ {0}
    PROVE  /\ a \div d \in Nat
           /\ (a \div d) * d <= a
           /\ a < (a \div d) * d + d
OBVIOUS

LEMMA Further ==
    ASSUME NEW m \in Nat, NEW n \in Nat, NEW d \in Nat \ {0}, m < n
    PROVE  m * d + d <= n * d
OBVIOUS

LEMMA Steps ==
    ASSUME NEW n \in Nat, NEW d \in Nat \ {0}
    PROVE  n * d \in Nat /\ n <= n * d /\ (n + 1) * d = n * d + d
OBVIOUS

\* The turn that reaches the end of the text, and the last one.
LEMMA LastTurn ==
    ASSUME NEW i \in Lengths, Accepted(i)
    PROVE  LET step == i.size - i.overlap
           IN  \E last \in 0..(i.length - 1) :
                 /\ last * step < i.length
                 /\ last * step + i.size >= i.length
                 /\ \A n \in 0..(last - 1) : n * step + i.size < i.length
<1> DEFINE step == i.size - i.overlap
           rest == i.length - i.size + step - 1
           last == rest \div step
<1>1. /\ i.length \in Nat \ {0} /\ i.size \in Nat \ {0} /\ i.overlap \in Nat
      /\ step \in Nat \ {0} /\ step <= i.size
  BY DEF Lengths, Accepted
<1> HIDE DEF step
<1>2. CASE i.size >= i.length
  <2>1. 0 * step = 0
    BY <1>1
  <2> QED
    BY <1>1, <1>2, <2>1 DEF step
<1>3. CASE i.size < i.length
  <2>1. rest \in Nat
    BY <1>1, <1>3
  <2>2. last \in Nat /\ last * step <= rest /\ rest < last * step + step
    BY <1>1, <2>1, Quotient
  <2> HIDE DEF last
  <2>3. last * step + i.size >= i.length /\ last * step < i.length
    BY <1>1, <2>1, <2>2
  <2>4. last <= last * step
    BY <1>1, <2>2, Steps
  <2>5. last \in 0..(i.length - 1)
    BY <1>1, <2>1, <2>2, <2>3, <2>4
  <2>6. ASSUME NEW n \in 0..(last - 1) PROVE n * step + i.size < i.length
    <3>1. n \in Nat /\ n < last
      BY <2>2
    <3>2. n * step + step <= last * step
      BY <1>1, <2>2, <3>1, Further
    <3> QED
      BY <1>1, <2>1, <2>2, <3>1, <3>2, Steps
  <2> QED
    BY <2>3, <2>5, <2>6 DEF step
<1> QED
  BY <1>1, <1>2, <1>3

\* The chunks of a document cover it without a gap, whatever its length, the
\* chunk size and an overlap that split_text accepts.
THEOREM ChunksCover == \A i \in Lengths : Accepted(i) => ChunksCoverTheDocument(i)
<1> SUFFICES ASSUME NEW i \in Lengths, Accepted(i) PROVE ChunksCoverTheDocument(i)
  OBVIOUS
<1> DEFINE step == i.size - i.overlap
           turns == {n * step : n \in 0..(i.length - 1)}
           End(s) == IF s + i.size <= i.length THEN s + i.size ELSE i.length
<1>1. /\ i.length \in Nat \ {0} /\ i.size \in Nat \ {0} /\ i.overlap \in Nat
      /\ step \in Nat \ {0} /\ step <= i.size /\ step = i.size - i.overlap
  BY DEF Lengths, Accepted
<1>2. PICK last \in 0..(i.length - 1) :
        /\ last * step < i.length
        /\ last * step + i.size >= i.length
        /\ \A n \in 0..(last - 1) : n * step + i.size < i.length
  BY LastTurn
<1>3. Starts(i) = {s \in turns : s < i.length /\ \A r \in turns : r < s => ~Reaches(r, i)}
  BY DEF Starts
<1> HIDE DEF step
<1>4. ASSUME NEW n \in 0..last PROVE n * step \in Starts(i)
  <2>1. n \in Nat /\ n * step \in Nat /\ n * step \in turns
    BY <1>1, <1>2, <1>4, Steps
  <2>2. n * step < i.length
    <3>1. CASE n = last
      BY <1>2, <3>1
    <3>2. CASE n < last
      BY <1>1, <1>2, <2>1, <3>2
    <3> QED
      BY <1>2, <3>1, <3>2
  <2>3. ASSUME NEW r \in turns, r < n * step PROVE ~Reaches(r, i)
    <3>1. PICK m \in 0..(i.length - 1) : r = m * step
      BY <2>3
    <3>2. m < n
      <4>1. CASE m = n
        BY <2>3, <3>1, <4>1, <2>1
      <4>2. CASE m > n
        <5>1. m \in Nat /\ n * step + step <= m * step
          BY <1>1, <2>1, <3>1, <4>2, Further
        <5> QED
          BY <1>1, <2>1, <2>3, <3>1, <5>1, Steps
      <4> QED
        BY <2>1, <3>1, <4>1, <4>2
    <3>3. r + i.size < i.length /\ r \in Nat
      BY <1>1, <1>2, <2>1, <3>1, <3>2, Steps
    <3> QED
      BY <1>1, <3>3 DEF Reaches
  <2> QED
    BY <1>3, <2>1, <2>2, <2>3
<1>5. ASSUME NEW s \in Starts(i) PROVE \E n \in 0..last : s = n * step
  <2>1. PICK n \in 0..(i.length - 1) : s = n * step
    BY <1>3, <1>5
  <2>2. n <= last
    <3> SUFFICES ASSUME last < n PROVE FALSE
      BY <1>1, <1>2, <2>1
    <3>1. last \in Nat /\ n \in Nat /\ last * step \in turns
      BY <1>1, <1>2, <2>1
    <3>2. last * step + step <= n * step /\ last * step \in Nat
      BY <1>1, <3>1, Further, Steps
    <3>3. last * step < s
      BY <1>1, <2>1, <3>1, <3>2, Steps
    <3>4. Reaches(last * step, i)
      BY <1>2 DEF Reaches
    <3> QED
      BY <1>3, <1>5, <3>1, <3>3, <3>4
  <2> QED
    BY <1>1, <1>2, <2>1, <2>2
<1> HIDE DEF turns
<1>6. ASSUME NEW s \in Starts(i)
      PROVE  s \in Nat /\ Min({s + i.size, i.length}) = End(s)
  <2>1. s \in Nat
    BY <1>1, <1>2, <1>5, Steps
  <2> QED
    BY <1>1, <2>1, MinOfTwo
<1>7. Chunks(i) = {<<s, End(s)>> : s \in Starts(i)}
  BY <1>6 DEF Chunks
<1>8. UNION {c[1]..(c[2] - 1) : c \in Chunks(i)} = 0..(i.length - 1)
  <2>1. ASSUME NEW x \in 0..(i.length - 1)
        PROVE  \E s \in Starts(i) : x \in s..(End(s) - 1)
    <3> DEFINE q == x \div step
    <3>0. x \in Nat
      BY <1>1, <2>1
    <3>1. q \in Nat /\ q * step <= x /\ x < q * step + step
      BY <1>1, <3>0, Quotient
    <3> HIDE DEF q
    <3>2. CASE q <= last
      <4>1. q * step \in Starts(i) /\ q * step \in Nat
        BY <1>1, <1>4, <3>1, <3>2, Steps
      <4>2. x \in (q * step)..(End(q * step) - 1)
        BY <1>1, <2>1, <3>0, <3>1, <4>1
      <4> QED
        BY <4>1, <4>2
    <3>3. CASE last < q
      <4>1. last \in Nat /\ last * step \in Nat /\ last * step \in Starts(i)
        BY <1>1, <1>2, <1>4, Steps
      <4>2. last * step + step <= q * step
        BY <1>1, <3>1, <3>3, <4>1, Further
      <4>3. q * step \in Nat
        BY <1>1, <3>1, Steps
      <4>4. x \in (last * step)..(End(last * step) - 1)
        BY <1>1, <1>2, <2>1, <3>0, <3>1, <4>1, <4>2, <4>3
      <4> QED
        BY <4>1, <4>4
    <3> QED
      BY <1>1, <1>2, <3>1, <3>2, <3>3
  <2>2. ASSUME NEW s \in Starts(i) PROVE s \in Nat /\ End(s) \in Nat /\ End(s) <= i.length
    <3>1. s \in Nat
      BY <1>6
    <3> QED
      BY <1>1, <3>1
  <2> HIDE DEF End
  <2>3. ASSUME NEW c \in Chunks(i), NEW x \in c[1]..(c[2] - 1)
        PROVE  x \in 0..(i.length - 1)
    <3>1. PICK s \in Starts(i) : c = <<s, End(s)>>
      BY <1>7
    <3>2. x \in s..(End(s) - 1)
      BY <2>3, <3>1
    <3> QED
      BY <1>1, <2>2, <3>2
  <2>4. ASSUME NEW x \in 0..(i.length - 1)
        PROVE  \E c \in Chunks(i) : x \in c[1]..(c[2] - 1)
    <3>1. PICK s \in Starts(i) : x \in s..(End(s) - 1)
      BY <2>1
    <3>2. <<s, End(s)>> \in Chunks(i)
      BY <1>7
    <3> QED
      BY <3>1, <3>2
  <2> QED
    BY <2>3, <2>4
<1>9. ASSUME NEW s \in Starts(i), s + i.size < i.length
      PROVE  \E t \in Starts(i) : t = s + step
  <2>1. PICK n \in 0..last : s = n * step
    BY <1>5
  <2>2. n # last
    BY <1>1, <1>2, <1>9, <2>1
  <2>3. n + 1 \in 0..last /\ (n + 1) * step = s + step
    BY <1>1, <1>2, <2>1, <2>2, Steps
  <2> QED
    BY <1>4, <2>3
<1>10. ASSUME NEW s \in Starts(i), NEW t \in Starts(i), s < t
       PROVE  s + i.size < i.length
  <2>1. PICK m \in 0..last, n \in 0..last : s = m * step /\ t = n * step
    BY <1>5
  <2>2. m < n
    <3> SUFFICES ASSUME n <= m PROVE FALSE
      BY <1>2, <2>1
    <3>1. n \in Nat /\ m \in Nat /\ n * step \in Nat
      BY <1>1, <1>2, <2>1, Steps
    <3>2. CASE n = m
      BY <1>10, <2>1, <3>1, <3>2
    <3>3. CASE n < m
      <4>1. n * step + step <= m * step
        BY <1>1, <3>1, <3>3, Further
      <4> QED
        BY <1>1, <1>6, <1>10, <2>1, <3>1, <4>1
    <3> QED
      BY <3>1, <3>2, <3>3
  <2> QED
    BY <1>1, <1>2, <2>1, <2>2
<1>11. ASSUME NEW c \in Chunks(i), NEW d \in Chunks(i), c[1] < d[1] PROVE c[2] < d[2]
  <2>1. PICK s \in Starts(i), t \in Starts(i) : c = <<s, End(s)>> /\ d = <<t, End(t)>>
    BY <1>7
  <2>2. s < t /\ s \in Nat /\ t \in Nat
    BY <1>6, <1>11, <2>1
  <2>3. s + i.size < i.length
    BY <1>10, <2>2
  <2>4. End(s) < End(t)
    BY <1>1, <2>2, <2>3
  <2> QED
    BY <2>1, <2>4
<1>12. ASSUME NEW c \in Chunks(i), c[2] < i.length
       PROVE  c[2] - c[1] = i.size /\ \E d \in Chunks(i) : d[1] = c[2] - i.overlap
  <2>1. PICK s \in Starts(i) : c = <<s, End(s)>>
    BY <1>7
  <2>2. s \in Nat /\ End(s) < i.length
    BY <1>6, <1>12, <2>1
  <2>6. s + i.size < i.length /\ End(s) = s + i.size
    BY <1>1, <2>2
  <2>3. PICK t \in Starts(i) : t = s + step
    BY <1>9, <2>6
  <2>4. <<t, End(t)>> \in Chunks(i)
    BY <1>7
  <2>5. t = c[2] - i.overlap
    BY <1>1, <2>1, <2>2, <2>6, <2>3
  <2> QED
    BY <1>1, <2>1, <2>2, <2>6, <2>4, <2>5
<1> QED
  BY <1>8, <1>11, <1>12 DEF ChunksCoverTheDocument

-----------------------------------------------------------------------------
(* The files.                                                              *)

\* Only who has a document that splits comes to write a file, and what load_index
\* accepts has been written by somebody.
GoodFile(file) == /\ file \in File
                  /\ file.by \in Builders => Accepted(InputOf[file.by])
                  /\ file.whole => file.by # "nobody"

FilesInv ==
    /\ GoodFile(index) /\ IndexIsWhole
    /\ build \in [Builders -> Build]
    /\ \A b \in Builders :
         /\ GoodFile(build[b].temp)
         /\ build[b].pc = "write" => build[b].temp.by # "nobody"
         /\ build[b].pc \in {"sync", "replace"} => build[b].temp.whole
         /\ build[b].pc = "replace" => build[b].temp.synced

\* What a step of the service does to the files.
FilesStep ==
    \/ \E b \in Builders : Enter(b) \/ BuildStep(b) \/ Return(b)
    \/ PowerFails
    \/ UNCHANGED indexVars

LEMMA FilesOfAStep == ServiceNext => FilesStep
<1> SUFFICES ASSUME ServiceNext PROVE FilesStep
  OBVIOUS
<1>1. Builders = IndexTasks \cup Direct \cup CommandLine /\ IndexTasks \subseteq Tasks
  BY ServiceAssumption DEF IndexTasks
<1>2. CASE StartUp \/ ShutDown \/ ClearResources \/ Exit \/ PowerLoss
  BY <1>2 DEF StartUp, ShutDown, ClearResources, Exit, PowerLoss, FilesStep, indexVars
<1>3. CASE \E t \in Tasks : PostTask(t)
  BY <1>3 DEF PostTask, FilesStep
<1>4. ASSUME NEW w \in Workers, TakeTask(w) \/ SettleTask(w) PROVE FilesStep
  BY <1>1, <1>4 DEF TakeTask, SettleTask, FilesStep
<1>5. CASE \E t \in IndexTasks : AcquireSlot(t)
  BY <1>1, <1>5 DEF AcquireSlot, FilesStep
<1>6. CASE \E d \in Direct : PostIndex(d) \/ RespondIndex(d)
  BY <1>1, <1>6 DEF PostIndex, RespondIndex, FilesStep
<1>7. CASE \E c \in CommandLine : RunMain(c)
  BY <1>1, <1>7 DEF RunMain, FilesStep
<1>8. CASE \/ \E b \in Builders : RunBuild(b)
           \/ \E b \in Threads : ReleaseSlot(b)
           \/ \E q \in Readers : Ask(q)
  BY <1>8 DEF RunBuild, ReleaseSlot, Ask, FilesStep
<1> QED
  BY <1>2, <1>3, <1>4, <1>5, <1>6, <1>7, <1>8 DEF ServiceNext

LEMMA FilesKept == FilesInv /\ FilesStep => FilesInv'
<1> SUFFICES ASSUME FilesInv, FilesStep PROVE FilesInv'
  OBVIOUS
<1>1. index \in File /\ build \in [Builders -> Build] /\ NoFile \in File
      /\ GoodFile(NoFile)
  BY BuilderAssumption DEF FilesInv, File, NoFile, GoodFile
<1>2. ASSUME NEW b \in Builders, NEW new \in Build, UNCHANGED index,
             build' = [build EXCEPT ![b] = new], GoodFile(new.temp),
             new.pc = "write" => new.temp.by # "nobody",
             new.pc \in {"sync", "replace"} => new.temp.whole,
             new.pc = "replace" => new.temp.synced
      PROVE  FilesInv'
  BY <1>1, <1>2 DEF FilesInv, IndexIsWhole, GoodFile
<1>3. NoBuild \in Build /\ NoBuild.temp = NoFile /\ NoBuild.pc = "out"
  BY <1>1 DEF NoBuild, Build
<1>4. ASSUME NEW b \in Builders, Enter(b) \/ BuildStep(b) \/ Return(b)
      PROVE  FilesInv'
  <2>1. /\ build[b] \in Build /\ GoodFile(build[b].temp) /\ build[b].temp \in File
        /\ build[b].pc = "write" => build[b].temp.by # "nobody"
        /\ build[b].pc \in {"sync", "replace"} => build[b].temp.whole
        /\ build[b].pc = "replace" => build[b].temp.synced
    BY <1>1 DEF FilesInv, GoodFile
  <2>2. CASE Enter(b)
    <3> DEFINE new == [build[b] EXCEPT !.pc = "load"]
    <3>1. new \in Build /\ new.temp = build[b].temp /\ new.pc = "load"
      BY <2>1 DEF Build
    <3>2. build' = [build EXCEPT ![b] = new] /\ UNCHANGED index
      BY <1>1, <2>2 DEF Enter, GoTo
    <3> HIDE DEF new
    <3> QED
      BY <1>2, <2>1, <3>1, <3>2
  <2>3. CASE CreateTemp(b)
    <3> DEFINE new == [pc |-> "write", temp |-> NewFile(b)]
    <3>1. /\ new \in Build /\ GoodFile(new.temp) /\ new.pc = "write"
          /\ new.temp.by # "nobody"
      BY <2>3, BuilderAssumption DEF Build, NewFile, File, GoodFile, CreateTemp
    <3>2. build' = [build EXCEPT ![b] = new] /\ UNCHANGED index
      BY <2>3 DEF CreateTemp
    <3> HIDE DEF new
    <3> QED
      BY <1>2, <3>1, <3>2
  <2>4. CASE WriteTemp(b)
    <3> DEFINE new == [build[b] EXCEPT !.pc = "sync", !.temp.whole = TRUE]
    <3>1. /\ new \in Build /\ new.pc = "sync" /\ new.temp.whole
          /\ new.temp \in File /\ new.temp.by = build[b].temp.by
      BY <2>1 DEF Build, File
    <3>2. build' = [build EXCEPT ![b] = new] /\ UNCHANGED index /\ build[b].pc = "write"
      BY <1>1, <2>4 DEF WriteTemp
    <3> HIDE DEF new
    <3> QED
      BY <1>2, <2>1, <3>1, <3>2 DEF GoodFile
  <2>5. CASE SyncTemp(b)
    <3> DEFINE new == [build[b] EXCEPT !.pc = "replace", !.temp.synced = TRUE]
    <3>1. /\ new \in Build /\ new.pc = "replace" /\ new.temp.synced
          /\ new.temp.whole = build[b].temp.whole
          /\ new.temp \in File /\ new.temp.by = build[b].temp.by
      BY <2>1 DEF Build, File
    <3>2. build' = [build EXCEPT ![b] = new] /\ UNCHANGED index /\ build[b].pc = "sync"
      BY <1>1, <2>5 DEF SyncTemp
    <3> HIDE DEF new
    <3> QED
      BY <1>2, <2>1, <3>1, <3>2 DEF GoodFile
  <2>6. CASE Replace(b)
    <3> DEFINE new == [pc |-> "returned", temp |-> NoFile]
    <3>1. new \in Build /\ new.pc = "returned" /\ new.temp = NoFile
      BY <1>1 DEF Build
    <3>2. build' = [build EXCEPT ![b] = new] /\ index' = build[b].temp
          /\ build[b].pc = "replace"
      BY <2>6 DEF Replace
    <3> HIDE DEF new
    <3> QED
      BY <1>1, <2>1, <3>1, <3>2 DEF FilesInv, IndexIsWhole, GoodFile
  <2>7. CASE RaiseInBuild(b)
    <3> DEFINE new == [pc |-> "raised", temp |-> NoFile]
    <3>1. new \in Build /\ new.pc = "raised" /\ new.temp = NoFile
      BY <1>1 DEF Build
    <3>2. build' = [build EXCEPT ![b] = new] /\ UNCHANGED index
      BY <2>7 DEF RaiseInBuild
    <3> HIDE DEF new
    <3> QED
      BY <1>1, <1>2, <3>1, <3>2
  <2>8. CASE Return(b)
    <3>1. build' = [build EXCEPT ![b] = NoBuild] /\ UNCHANGED index
      BY <2>8 DEF Return
    <3> QED
      BY <1>1, <1>2, <1>3, <3>1
  <2> QED
    BY <1>4, <2>2, <2>3, <2>4, <2>5, <2>6, <2>7, <2>8 DEF BuildStep
<1>5. CASE PowerFails
  <2> DEFINE left == AfterPowerLoss(index)
  <2>1. /\ left \in File /\ left.by = index.by /\ left.synced
        /\ left.whole = (index.whole /\ index.synced)
    BY <1>1 DEF AfterPowerLoss, File
  <2>2. index = NoFile => left = NoFile
    <3>1. index = NoFile => left.by = "nobody" /\ left.whole = FALSE /\ left.synced = TRUE
      BY <2>1 DEF NoFile, File
    <3> QED
      BY <2>1, <3>1 DEF NoFile, File
  <2>3. index' = left /\ build' = [b \in Builders |-> NoBuild]
    BY <1>5 DEF PowerFails
  <2> HIDE DEF left
  <2>4. GoodFile(left) /\ (left # NoFile => left.whole /\ left.synced)
    BY <2>1, <2>2 DEF FilesInv, IndexIsWhole, GoodFile
  <2> QED
    BY <1>1, <1>3, <2>3, <2>4 DEF FilesInv, IndexIsWhole, GoodFile
<1>6. CASE UNCHANGED indexVars
  BY <1>6 DEF indexVars, FilesInv, IndexIsWhole, GoodFile
<1> QED
  BY <1>4, <1>5, <1>6 DEF FilesStep

\* The invariant of the files, over every behaviour of the service.
LEMMA FilesInvHolds == ServiceSpec => []FilesInv
<1>1. ServiceInit => FilesInv
  <2> SUFFICES ASSUME ServiceInit PROVE FilesInv
    OBVIOUS
  <2>1. GoodFile(NoFile) /\ GoodFile(OldFile)
    <3>1. GoodFile(NoFile)
      BY BuilderAssumption DEF GoodFile, File, NoFile
    <3>2. GoodFile(OldFile)
      BY BuilderAssumption DEF GoodFile, File, OldFile
    <3> QED
      BY <3>1, <3>2
  <2>2. OldFile.whole /\ OldFile.synced
    BY DEF OldFile
  <2>3. index \in {NoFile, OldFile} /\ build = [b \in Builders |-> NoBuild]
    BY DEF ServiceInit, IndexInit
  <2>4. NoBuild \in Build /\ NoBuild.temp = NoFile /\ NoBuild.pc = "out"
    BY <2>1 DEF NoBuild, Build, GoodFile
  <2> QED
    BY <2>1, <2>2, <2>3, <2>4 DEF FilesInv, IndexIsWhole
<1>2. FilesInv /\ [ServiceNext]_serviceVars => FilesInv'
  <2>1. UNCHANGED serviceVars => FilesStep
    BY DEF serviceVars, FilesStep
  <2> QED
    BY <2>1, FilesOfAStep, FilesKept
<1> QED
  BY <1>1, <1>2, PTL DEF ServiceSpec

\* The index at the output path is whole and on the disk at every moment,
\* whatever builders, power losses and failures do (build_index).
THEOREM IndexIsWholeHolds == ServiceSpec => []IndexIsWhole
<1>1. FilesInv => IndexIsWhole
  BY DEF FilesInv
<1> QED
  BY <1>1, FilesInvHolds, PTL

-----------------------------------------------------------------------------
(* The books of the task manager, for any table r, queue q, hands h of the *)
(* workers and count n.                                                    *)

QueuedIn(r)  == {t \in Tasks : r[t] = "queued"}
RunningIn(r) == {t \in Tasks : r[t] = "running"}

Books(r, q, h, n) ==
    /\ r \in [Tasks -> Status]
    /\ q \in Seq(Tasks)
    /\ h \in [Workers -> Tasks \cup {NULL}]
    /\ \A i, j \in DOMAIN q : q[i] = q[j] => i = j
    /\ \A t \in Tasks : r[t] = "queued" <=> \E i \in DOMAIN q : q[i] = t
    /\ \A t \in Tasks : r[t] = "running" <=> \E w \in Workers : h[w] = t
    /\ \A u, w \in Workers : u # w /\ h[u] # NULL => h[u] # h[w]
    /\ Len(q) = Cardinality(QueuedIn(r))
    /\ n = Cardinality(QueuedIn(r)) + Cardinality(RunningIn(r))

LEMMA Counted ==
    ASSUME NEW r
    PROVE  /\ IsFiniteSet(QueuedIn(r)) /\ IsFiniteSet(RunningIn(r))
           /\ Cardinality(QueuedIn(r)) \in Nat /\ Cardinality(RunningIn(r)) \in Nat
<1>1. QueuedIn(r) \in SUBSET Tasks /\ RunningIn(r) \in SUBSET Tasks
  BY DEF QueuedIn, RunningIn
<1>2. IsFiniteSet(QueuedIn(r)) /\ IsFiniteSet(RunningIn(r))
  BY <1>1, ManagerAssumption, FS_Subset
<1> QED
  BY <1>2, FS_CardinalityType

\* A new task, at the end of the queue.
LEMMA Enlists ==
    ASSUME NEW r, NEW q, NEW h, NEW n, Books(r, q, h, n),
           NEW t \in Tasks, r[t] = "absent"
    PROVE  Books([r EXCEPT ![t] = "queued"], Append(q, t), h, n + 1)
<1> DEFINE s == [r EXCEPT ![t] = "queued"]
           p == Append(q, t)
<1>1. r \in [Tasks -> Status] /\ q \in Seq(Tasks) /\ Len(q) \in Nat
  BY DEF Books
<1>2. s \in [Tasks -> Status] /\ s[t] = "queued" /\ \A u \in Tasks \ {t} : s[u] = r[u]
  BY <1>1 DEF Status
<1>3. /\ p \in Seq(Tasks) /\ Len(p) = Len(q) + 1
      /\ DOMAIN p = 1..(Len(q) + 1) /\ DOMAIN q = 1..Len(q)
      /\ p[Len(q) + 1] = t /\ \A i \in 1..Len(q) : p[i] = q[i]
  BY <1>1
<1>4. \A i \in 1..Len(q) : q[i] # t
  BY <1>3 DEF Books
<1> HIDE DEF s, p
<1>5. \A i, j \in DOMAIN p : p[i] = p[j] => i = j
  BY <1>1, <1>3, <1>4 DEF Books
<1>6. \A u \in Tasks : s[u] = "queued" <=> \E i \in DOMAIN p : p[i] = u
  <2>1. ASSUME NEW u \in Tasks, s[u] = "queued" PROVE \E i \in DOMAIN p : p[i] = u
    <3>1. CASE u = t
      BY <1>1, <1>3, <3>1
    <3>2. CASE u # t
      BY <1>1, <1>2, <1>3, <2>1, <3>2 DEF Books
    <3> QED
      BY <3>1, <3>2
  <2>2. ASSUME NEW i \in DOMAIN p PROVE s[p[i]] = "queued"
    <3>1. CASE i = Len(q) + 1
      BY <1>2, <1>3, <3>1
    <3>2. CASE i # Len(q) + 1
      <4>1. i \in DOMAIN q /\ p[i] = q[i] /\ q[i] \in Tasks
        BY <1>1, <1>3, <2>2, <3>2
      <4> QED
        BY <1>2, <1>3, <4>1 DEF Books
    <3> QED
      BY <3>1, <3>2
  <2> QED
    BY <2>1, <2>2
<1>7. \A u \in Tasks : s[u] = "running" <=> \E w \in Workers : h[w] = u
  BY <1>2 DEF Books
<1>8. QueuedIn(s) = QueuedIn(r) \cup {t} /\ t \notin QueuedIn(r)
      /\ RunningIn(s) = RunningIn(r)
  BY <1>2 DEF QueuedIn, RunningIn
<1>9. Cardinality(QueuedIn(s)) = Cardinality(QueuedIn(r)) + 1
  BY <1>8, Counted, FS_AddElement
<1>10. Len(p) = Cardinality(QueuedIn(s))
       /\ n + 1 = Cardinality(QueuedIn(s)) + Cardinality(RunningIn(s))
  BY <1>3, <1>8, <1>9, Counted DEF Books
<1> QED
  BY <1>2, <1>3, <1>5, <1>6, <1>7, <1>10 DEF Books, s, p

\* The head of the queue, into the free hands of worker w.
LEMMA Gets ==
    ASSUME NEW r, NEW q, NEW h, NEW n, Books(r, q, h, n),
           NEW w \in Workers, h[w] = NULL, q # << >>
    PROVE  /\ Head(q) \in Tasks /\ r[Head(q)] = "queued"
           /\ Books([r EXCEPT ![Head(q)] = "running"], Tail(q),
                    [h EXCEPT ![w] = Head(q)], n)
<1> DEFINE t == Head(q)
           s == [r EXCEPT ![t] = "running"]
           p == Tail(q)
           g == [h EXCEPT ![w] = t]
<1>1. /\ r \in [Tasks -> Status] /\ q \in Seq(Tasks) /\ Len(q) \in Nat
      /\ h \in [Workers -> Tasks \cup {NULL}]
  BY DEF Books
<1>2. /\ t \in Tasks /\ t = q[1] /\ Len(q) >= 1 /\ DOMAIN q = 1..Len(q)
      /\ p \in Seq(Tasks) /\ Len(p) = Len(q) - 1 /\ DOMAIN p = 1..(Len(q) - 1)
      /\ \A i \in 1..(Len(q) - 1) : p[i] = q[i + 1]
  BY <1>1, HeadTailProperties, EmptySeq
<1> HIDE DEF t, p
<1>3. r[t] = "queued" /\ 1 \in DOMAIN q
  BY <1>1, <1>2 DEF Books
<1>4. s \in [Tasks -> Status] /\ s[t] = "running" /\ \A u \in Tasks \ {t} : s[u] = r[u]
  BY <1>1, <1>2 DEF Status
<1>5. /\ g \in [Workers -> Tasks \cup {NULL}] /\ g[w] = t
      /\ \A v \in Workers \ {w} : g[v] = h[v]
  BY <1>1, <1>2
<1> HIDE DEF s, g
<1>6. \A i, j \in DOMAIN p : p[i] = p[j] => i = j
  <2> SUFFICES ASSUME NEW i \in DOMAIN p, NEW j \in DOMAIN p, p[i] = p[j] PROVE i = j
    OBVIOUS
  <2>1. i + 1 \in DOMAIN q /\ j + 1 \in DOMAIN q /\ q[i + 1] = q[j + 1]
    BY <1>1, <1>2
  <2>2. i + 1 = j + 1
    BY <2>1 DEF Books
  <2> QED
    BY <1>1, <1>2, <2>2
<1>7. \A u \in Tasks : s[u] = "queued" <=> \E i \in DOMAIN p : p[i] = u
  <2>1. ASSUME NEW u \in Tasks, s[u] = "queued" PROVE \E i \in DOMAIN p : p[i] = u
    <3>1. u # t /\ r[u] = "queued"
      BY <1>4, <2>1
    <3>2. PICK i \in DOMAIN q : q[i] = u
      BY <3>1 DEF Books
    <3>3. i # 1 /\ i - 1 \in DOMAIN p /\ p[i - 1] = q[(i - 1) + 1] /\ (i - 1) + 1 = i
      BY <1>1, <1>2, <3>1, <3>2
    <3> QED
      BY <3>2, <3>3
  <2>2. ASSUME NEW i \in DOMAIN p PROVE s[p[i]] = "queued"
    <3>1. i + 1 \in DOMAIN q /\ p[i] = q[i + 1] /\ i + 1 # 1 /\ q[i + 1] \in Tasks
      BY <1>1, <1>2
    <3>2. q[i + 1] # t /\ r[q[i + 1]] = "queued"
      BY <1>2, <1>3, <3>1 DEF Books
    <3> QED
      BY <1>4, <3>1, <3>2
  <2> QED
    BY <2>1, <2>2
<1>8. \A v \in Workers : h[v] # t
  BY <1>2, <1>3 DEF Books
<1>9. \A u \in Tasks : s[u] = "running" <=> \E v \in Workers : g[v] = u
  <2>1. ASSUME NEW u \in Tasks, u # t
        PROVE  s[u] = "running" <=> \E v \in Workers : g[v] = u
    <3>1. (\E v \in Workers : g[v] = u) <=> (\E v \in Workers : h[v] = u)
      BY <1>5, <2>1, ManagerAssumption
    <3> QED
      BY <1>4, <2>1, <3>1 DEF Books
  <2> QED
    BY <1>4, <1>5, <2>1
<1>10. \A u, v \in Workers : u # v /\ g[u] # NULL => g[u] # g[v]
  BY <1>5, <1>8 DEF Books
<1>11. /\ QueuedIn(s) = QueuedIn(r) \ {t} /\ t \in QueuedIn(r)
       /\ RunningIn(s) = RunningIn(r) \cup {t} /\ t \notin RunningIn(r)
  BY <1>2, <1>3, <1>4 DEF QueuedIn, RunningIn
<1>12. /\ Cardinality(QueuedIn(s)) = Cardinality(QueuedIn(r)) - 1
       /\ Cardinality(RunningIn(s)) = Cardinality(RunningIn(r)) + 1
  <2>1. Cardinality(QueuedIn(s)) = Cardinality(QueuedIn(r)) - 1
    BY <1>11, Counted, FS_RemoveElement
  <2>2. Cardinality(RunningIn(s)) = Cardinality(RunningIn(r)) + 1
    BY <1>11, Counted, FS_AddElement
  <2> QED
    BY <2>1, <2>2
<1>13. Len(p) = Cardinality(QueuedIn(s))
       /\ n = Cardinality(QueuedIn(s)) + Cardinality(RunningIn(s))
  BY <1>2, <1>12, Counted DEF Books
<1>14. Books(s, p, g, n)
  BY <1>2, <1>4, <1>5, <1>6, <1>7, <1>9, <1>10, <1>13 DEF Books
<1> QED
  BY <1>2, <1>3, <1>14 DEF t, s, p, g

\* The task in the hands of worker w has ended.
LEMMA Settles ==
    ASSUME NEW r, NEW q, NEW h, NEW n, Books(r, q, h, n),
           NEW w \in Workers, h[w] # NULL, NEW status \in {"succeeded", "failed"}
    PROVE  /\ h[w] \in Tasks /\ r[h[w]] = "running"
           /\ Books([r EXCEPT ![h[w]] = status], q, [h EXCEPT ![w] = NULL], n - 1)
<1> DEFINE t == h[w]
           s == [r EXCEPT ![t] = status]
           g == [h EXCEPT ![w] = NULL]
<1>1. /\ r \in [Tasks -> Status] /\ q \in Seq(Tasks)
      /\ h \in [Workers -> Tasks \cup {NULL}]
  BY DEF Books
<1>2. t \in Tasks /\ r[t] = "running"
  BY <1>1 DEF Books
<1>3. /\ \A v \in Workers \ {w} : h[v] # t
  BY DEF Books
<1>4. s \in [Tasks -> Status] /\ s[t] = status /\ \A u \in Tasks \ {t} : s[u] = r[u]
  BY <1>1, <1>2 DEF Status
<1>5. /\ g \in [Workers -> Tasks \cup {NULL}] /\ g[w] = NULL
      /\ \A v \in Workers \ {w} : g[v] = h[v]
  BY <1>1
<1>6. h[w] = t
  OBVIOUS
<1> HIDE DEF t, s, g
<1>7. \A u \in Tasks : s[u] = "queued" <=> \E i \in DOMAIN q : q[i] = u
  <2>1. \A i \in DOMAIN q : q[i] # t
    BY <1>2 DEF Books
  <2> QED
    BY <1>4, <2>1 DEF Books
<1>8. \A u \in Tasks : s[u] = "running" <=> \E v \in Workers : g[v] = u
  <2>1. ASSUME NEW u \in Tasks, u # t
        PROVE  s[u] = "running" <=> \E v \in Workers : g[v] = u
    <3>1. (\E v \in Workers : g[v] = u) <=> (\E v \in Workers : h[v] = u)
      BY <1>5, <1>6, <2>1, ManagerAssumption
    <3> QED
      BY <1>4, <2>1, <3>1 DEF Books
  <2>2. \A v \in Workers : g[v] # t
    BY <1>2, <1>3, <1>5, ManagerAssumption
  <2> QED
    BY <1>4, <2>1, <2>2
<1>9. \A u, v \in Workers : u # v /\ g[u] # NULL => g[u] # g[v]
  BY <1>5 DEF Books
<1>10. /\ QueuedIn(s) = QueuedIn(r)
       /\ RunningIn(s) = RunningIn(r) \ {t} /\ t \in RunningIn(r)
  BY <1>2, <1>4 DEF QueuedIn, RunningIn
<1>11. Cardinality(RunningIn(s)) = Cardinality(RunningIn(r)) - 1
  BY <1>10, Counted, FS_RemoveElement
<1>12. Len(q) = Cardinality(QueuedIn(s))
       /\ n - 1 = Cardinality(QueuedIn(s)) + Cardinality(RunningIn(s))
  BY <1>10, <1>11, Counted DEF Books
<1>13. Books(s, q, g, n - 1)
  BY <1>1, <1>4, <1>5, <1>7, <1>8, <1>9, <1>12 DEF Books
<1> QED
  BY <1>2, <1>6, <1>13 DEF s, g

\* Nothing counted, nothing there.
LEMMA CountedOut ==
    ASSUME NEW r, NEW q, NEW h, Books(r, q, h, 0)
    PROVE  /\ q = << >> /\ h = [w \in Workers |-> NULL]
           /\ \A t \in Tasks : r[t] \notin {"queued", "running"}
<1>1. Cardinality(QueuedIn(r)) = 0 /\ Cardinality(RunningIn(r)) = 0 /\ Len(q) = 0
  BY Counted DEF Books
<1>2. QueuedIn(r) = {} /\ RunningIn(r) = {}
  BY <1>1, Counted, FS_EmptySet
<1>3. \A t \in Tasks : r[t] \notin {"queued", "running"}
  BY <1>2 DEF QueuedIn, RunningIn
<1>4. \A w \in Workers : h[w] = NULL
  BY <1>3 DEF Books
<1>5. q = << >>
  BY <1>1, EmptySeq DEF Books
<1> QED
  BY <1>3, <1>4, <1>5 DEF Books

LEMMA EmptyBooks ==
    Books([t \in Tasks |-> "absent"], << >>, [w \in Workers |-> NULL], 0)
<1> DEFINE r == [t \in Tasks |-> "absent"]
<1>1. QueuedIn(r) = {} /\ RunningIn(r) = {}
  BY DEF QueuedIn, RunningIn
<1>2. << >> \in Seq(Tasks) /\ Len(<< >>) = 0 /\ DOMAIN << >> = {}
  OBVIOUS
<1>3. r \in [Tasks -> Status]
  BY DEF Status
<1>4. [w \in Workers |-> NULL] \in [Workers -> Tasks \cup {NULL}]
  OBVIOUS
<1>5. \A t \in Tasks : r[t] # "queued" /\ r[t] # "running"
  OBVIOUS
<1>6. \A t \in Tasks, w \in Workers : [v \in Workers |-> NULL][w] # t
  BY ManagerAssumption
<1> HIDE DEF r
<1> QED
  BY <1>1, <1>2, <1>3, <1>4, <1>5, <1>6, FS_EmptySet DEF Books, r

-----------------------------------------------------------------------------
(* The manager at its desk: its books balance, the queue is no longer than *)
(* allowed, and before start() and after close() nothing is under way.     *)

Desk ==
    /\ Books(record, queue, worker, unfinished)
    /\ Len(queue) <= QueueCapacity
    /\ phase \in {"new", "accepting", "closing", "closed"}
    /\ phase \in {"new", "closed"} => unfinished = 0

\* What Get(w, r) leaves, for a worker without a task.
LEMMA DeskGets ==
    ASSUME NEW r, NEW h, NEW n, NEW w \in Workers,
           Books(r, queue, h, n), h[w] = NULL, queue # << >>,
           record' = [r EXCEPT ![Head(queue)] = "running"],
           worker' = [h EXCEPT ![w] = Head(queue)],
           queue' = Tail(queue), unfinished' = n
    PROVE  /\ Books(record, queue, worker, unfinished)'
           /\ Len(queue') < Len(queue)
<1>1. queue \in Seq(Tasks)
  BY DEF Books
<1>2. Books([r EXCEPT ![Head(queue)] = "running"], Tail(queue),
            [h EXCEPT ![w] = Head(queue)], n)
  BY Gets
<1>3. Books(record', queue', worker', unfinished')
  BY <1>2
<1>4. Books(record, queue, worker, unfinished)'
  BY <1>3 DEF Books, QueuedIn, RunningIn
<1>5. Len(Tail(queue)) = Len(queue) - 1 /\ Len(queue) \in Nat
  BY <1>1, HeadTailProperties
<1> QED
  BY <1>4, <1>5

\* An operation ends, and its worker takes the next task or waits.
LEMMA DeskSettles ==
    ASSUME Desk, NEW w \in Workers, NEW status \in {"succeeded", "failed"},
           Settle(w, status)
    PROVE  /\ Desk'
           /\ worker[w] \in Tasks
           /\ \A t \in Tasks \ {worker[w]} :
                record[t] = "running" => record'[t] = "running"
<1> DEFINE settled == [record EXCEPT ![worker[w]] = status]
           free    == [worker EXCEPT ![w] = NULL]
<1>1. worker[w] # NULL /\ unfinished' = unfinished - 1 /\ phase' = phase
  BY DEF Settle
<1>2. /\ worker[w] \in Tasks
      /\ Books(settled, queue, free, unfinished - 1)
  BY <1>1, Settles DEF Desk
<1>3. /\ worker \in [Workers -> Tasks \cup {NULL}] /\ record \in [Tasks -> Status]
      /\ queue \in Seq(Tasks)
  BY DEF Desk, Books
<1>4. free[w] = NULL
  BY <1>3
<1>5. phase \notin {"new", "closed"}
  <2> SUFFICES ASSUME phase \in {"new", "closed"} PROVE FALSE
    OBVIOUS
  <2>1. Books(record, queue, worker, 0)
    BY DEF Desk
  <2>2. worker = [v \in Workers |-> NULL]
    BY <2>1, CountedOut
  <2> QED
    BY <1>1, <2>2
<1>6. /\ Books(record, queue, worker, unfinished)'
      /\ Len(queue') <= Len(queue)
      /\ \A t \in Tasks \ {worker[w]} :
           record[t] = "running" => record'[t] = "running"
  <2>1. CASE queue # << >>
    <3>1. /\ record' = [settled EXCEPT ![Head(queue)] = "running"]
          /\ queue' = Tail(queue)
          /\ worker' = [worker EXCEPT ![w] = Head(queue)]
      BY <2>1 DEF Settle, Get
    <3>2. worker' = [free EXCEPT ![w] = Head(queue)]
      BY <1>3, <3>1
    <3> HIDE DEF free, settled
    <3>3. Books(record, queue, worker, unfinished)' /\ Len(queue') < Len(queue)
      BY <1>1, <1>2, <1>4, <2>1, <3>1, <3>2, DeskGets
    <3>4. Len(queue') \in Nat /\ Len(queue) \in Nat
      BY <1>3, <3>3 DEF Books
    <3>5. settled \in [Tasks -> Status]
      BY <1>2 DEF Books
    <3>6. \A t \in Tasks \ {worker[w]} :
             record[t] = "running" => record'[t] = "running"
      BY <1>2, <1>3, <3>1, <3>5 DEF settled
    <3> QED
      BY <3>3, <3>4, <3>6
  <2>2. CASE queue = << >>
    <3>1. record' = settled /\ worker' = free /\ queue' = queue
      BY <2>2 DEF Settle
    <3>2. Books(record', queue', worker', unfinished')
      BY <1>1, <1>2, <3>1
    <3>3. Books(record, queue, worker, unfinished)'
      BY <3>2 DEF Books, QueuedIn, RunningIn
    <3>4. Len(queue) \in Nat /\ Len(queue') = Len(queue)
      BY <1>3, <3>1
    <3> QED
      BY <1>2, <1>3, <3>1, <3>3, <3>4
  <2> QED
    BY <2>1, <2>2
<1>7. Len(queue) \in Nat /\ Len(queue') \in Nat /\ QueueCapacity \in Nat
  BY <1>3, <1>6, ManagerAssumption DEF Books
<1> QED
  BY <1>1, <1>2, <1>5, <1>6, <1>7 DEF Desk

\* A worker that waited takes a task.
LEMMA DeskTakes ==
    ASSUME Desk, NEW w \in Workers, Take(w)
    PROVE  /\ Desk'
           /\ \A t \in Tasks : record[t] = "running" => record'[t] = "running"
<1>1. /\ phase \in {"accepting", "closing"} /\ phase' = phase
      /\ worker[w] = NULL /\ queue # << >> /\ unfinished' = unfinished
      /\ record' = [record EXCEPT ![Head(queue)] = "running"]
      /\ queue' = Tail(queue) /\ worker' = [worker EXCEPT ![w] = Head(queue)]
  BY DEF Take, Get
<1>2. record \in [Tasks -> Status] /\ queue \in Seq(Tasks)
  BY DEF Desk, Books
<1>3. Books(record, queue, worker, unfinished)' /\ Len(queue') < Len(queue)
  BY <1>1, DeskGets DEF Desk
<1>4. Len(queue) \in Nat /\ Len(queue') \in Nat /\ QueueCapacity \in Nat
  BY <1>2, <1>3, ManagerAssumption DEF Books
<1>5. \A t \in Tasks : record[t] = "running" => record'[t] = "running"
  BY <1>1, <1>2
<1> QED
  BY <1>1, <1>3, <1>4, <1>5 DEF Desk

\* A submission is accepted, or leaves nothing behind.
LEMMA DeskSubmits ==
    ASSUME Desk, NEW t \in Tasks, Submit(t)
    PROVE  /\ Desk'
           /\ \A u \in Tasks : record[u] = "running" => record'[u] = "running"
<1>1. phase = "accepting" /\ phase' = phase /\ worker' = worker /\ record[t] = "absent"
  BY DEF Submit
<1>2. record \in [Tasks -> Status] /\ queue \in Seq(Tasks) /\ Len(queue) \in Nat
  BY DEF Desk, Books
<1>3. CASE Len(queue) < QueueCapacity
  <2>1. /\ record' = [record EXCEPT ![t] = "queued"]
        /\ queue' = Append(queue, t) /\ unfinished' = unfinished + 1
    BY <1>3 DEF Submit
  <2>2. Books(record', queue', worker', unfinished')
    BY <1>1, <2>1, Enlists DEF Desk
  <2>3. Books(record, queue, worker, unfinished)'
    BY <2>2 DEF Books, QueuedIn, RunningIn
  <2>4. Len(queue') = Len(queue) + 1
    BY <1>2, <2>1
  <2>5. Len(queue') <= QueueCapacity
    BY <1>2, <1>3, <2>4, ManagerAssumption
  <2>6. \A u \in Tasks : record[u] = "running" => record'[u] = "running"
    BY <1>1, <1>2, <2>1
  <2> QED
    BY <1>1, <2>3, <2>5, <2>6 DEF Desk
<1>4. CASE ~(Len(queue) < QueueCapacity)
  <2>1. record' = record /\ queue' = queue /\ unfinished' = unfinished
    BY <1>4 DEF Submit, RolledBack
  <2> QED
    BY <1>1, <2>1 DEF Desk, Books, QueuedIn, RunningIn
<1> QED
  BY <1>3, <1>4

\* With nothing under way, the desk is that of a new manager.
LEMMA DeskIsEmpty ==
    ASSUME Desk, unfinished = 0
    PROVE  /\ queue = << >> /\ worker = [w \in Workers |-> NULL]
           /\ \A t \in Tasks : record[t] \notin {"queued", "running"}
BY CountedOut DEF Desk

LEMMA DeskCleared ==
    ASSUME record' = [t \in Tasks |-> "absent"], queue' = << >>,
           worker' = [w \in Workers |-> NULL], unfinished' = 0, phase' = "new"
    PROVE  Desk'
<1>1. Books(record', queue', worker', unfinished')
  BY EmptyBooks
<1>2. Books(record, queue, worker, unfinished)'
  BY <1>1 DEF Books, QueuedIn, RunningIn
<1>3. Len(queue') = 0 /\ 0 <= QueueCapacity
  BY ManagerAssumption
<1> QED
  BY <1>2, <1>3 DEF Desk

-----------------------------------------------------------------------------
(* The threads of the service and their slots.                             *)

Building == {b \in Threads : thread[b] = "building"}

Bench ==
    /\ slots \in Nat
    /\ thread \in [Threads -> {"none", "building", "released"}]
    /\ IsFiniteSet(Building)
    /\ BuildSlotsConserved
    /\ \A t \in IndexTasks : thread[t] # "none" => record[t] = "running"
    /\ phase \in {"new", "closing", "closed"} => \A d \in Direct : thread[d] = "none"

ServiceInv == Desk /\ Bench

\* A thread starts or stops to build, and a slot goes with it.
LEMMA SlotTaken ==
    ASSUME Bench, NEW b \in Threads, thread[b] = "none", slots > 0,
           slots' = slots - 1, thread' = [thread EXCEPT ![b] = "building"]
    PROVE  /\ slots' \in Nat
           /\ thread' \in [Threads -> {"none", "building", "released"}]
           /\ IsFiniteSet(Building') /\ BuildSlotsConserved'
<1>1. thread \in [Threads -> {"none", "building", "released"}] /\ slots \in Nat
  BY DEF Bench
<1>2. Building' = Building \cup {b} /\ b \notin Building
  BY <1>1 DEF Building
<1>3. IsFiniteSet(Building) /\ slots + Cardinality(Building) = MaxBuilds
  BY DEF Bench, BuildSlotsConserved, Building
<1>4. /\ IsFiniteSet(Building')
      /\ Cardinality(Building') = Cardinality(Building) + 1
  BY <1>2, <1>3, FS_AddElement
<1>5. Cardinality(Building) \in Nat
  BY <1>3, FS_CardinalityType
<1>6. slots' + Cardinality(Building') = MaxBuilds
  BY <1>1, <1>3, <1>4, <1>5
<1>7. BuildSlotsConserved'
  BY <1>6 DEF BuildSlotsConserved, Building
<1>8. slots' \in Nat
  BY <1>1
<1>9. thread' \in [Threads -> {"none", "building", "released"}]
  BY <1>1
<1> QED
  BY <1>4, <1>7, <1>8, <1>9

LEMMA SlotGivenBack ==
    ASSUME Bench, NEW b \in Threads, thread[b] = "building",
           slots' = slots + 1, thread' = [thread EXCEPT ![b] = "released"]
    PROVE  /\ slots' \in Nat
           /\ thread' \in [Threads -> {"none", "building", "released"}]
           /\ IsFiniteSet(Building') /\ BuildSlotsConserved'
<1>1. thread \in [Threads -> {"none", "building", "released"}] /\ slots \in Nat
  BY DEF Bench
<1>2. Building' = Building \ {b} /\ b \in Building
  BY <1>1 DEF Building
<1>3. IsFiniteSet(Building) /\ slots + Cardinality(Building) = MaxBuilds
  BY DEF Bench, BuildSlotsConserved, Building
<1>4. /\ IsFiniteSet(Building')
      /\ Cardinality(Building') = Cardinality(Building) - 1
  BY <1>2, <1>3, FS_RemoveElement
<1>5. Cardinality(Building) \in Nat
  BY <1>3, FS_CardinalityType
<1>6. slots' + Cardinality(Building') = MaxBuilds
  BY <1>1, <1>3, <1>4, <1>5
<1>7. BuildSlotsConserved'
  BY <1>6 DEF BuildSlotsConserved, Building
<1>8. slots' \in Nat
  BY <1>1
<1>9. thread' \in [Threads -> {"none", "building", "released"}]
  BY <1>1
<1> QED
  BY <1>4, <1>7, <1>8, <1>9

\* A thread that has released its slot is done.
LEMMA ThreadDone ==
    ASSUME Bench, NEW b \in Threads, thread[b] = "released",
           slots' = slots, thread' = [thread EXCEPT ![b] = "none"]
    PROVE  /\ slots' \in Nat
           /\ thread' \in [Threads -> {"none", "building", "released"}]
           /\ IsFiniteSet(Building') /\ BuildSlotsConserved'
<1>1. thread \in [Threads -> {"none", "building", "released"}] /\ slots \in Nat
  BY DEF Bench
<1>2. thread' \in [Threads -> {"none", "building", "released"}]
  BY <1>1
<1>3. Building' = Building
  BY <1>1 DEF Building
<1>4. {c \in Threads : thread'[c] = "building"} = {c \in Threads : thread[c] = "building"}
  BY <1>3 DEF Building
<1> QED
  BY <1>1, <1>2, <1>3, <1>4 DEF Bench, BuildSlotsConserved

\* All threads gone, all slots there.
LEMMA NoThreads ==
    ASSUME thread' = [b \in Threads |-> "none"], slots' = MaxBuilds
    PROVE  Bench'
<1>1. {b \in Threads : thread'[b] = "building"} = {}
  OBVIOUS
<1>2. Building' = {}
  BY <1>1 DEF Building
<1>3. IsFiniteSet({}) /\ Cardinality({}) = 0
  BY FS_EmptySet
<1>4. MaxBuilds \in Nat /\ MaxBuilds + 0 = MaxBuilds
  BY ServiceAssumption
<1>5. BuildSlotsConserved'
  BY <1>1, <1>3, <1>4 DEF BuildSlotsConserved
<1>6. \A t \in IndexTasks : thread'[t] = "none"
  BY DEF Threads
<1>7. \A d \in Direct : thread'[d] = "none"
  BY DEF Threads
<1>8. thread' \in [Threads -> {"none", "building", "released"}]
  OBVIOUS
<1> QED
  BY <1>2, <1>3, <1>4, <1>5, <1>6, <1>7, <1>8 DEF Bench

\* A step that leaves the threads alone and ends no running task.
LEMMA BenchStays ==
    ASSUME Bench, UNCHANGED <<slots, thread>>,
           \A t \in IndexTasks : record[t] = "running" => record'[t] = "running",
           phase' = phase \/ \A d \in Direct : thread[d] = "none"
    PROVE  Bench'
<1>1. Building' = Building /\ BuildSlotsConserved'
  BY DEF Bench, BuildSlotsConserved, Building
<1> QED
  BY <1>1 DEF Bench, BuildSlotsConserved

\* When nothing is under way there are no threads, and every slot is free.
LEMMA BenchIsEmpty ==
    ASSUME ServiceInv, phase \in {"new", "closed"}
    PROVE  /\ \A b \in Threads : thread[b] = "none"
           /\ slots = MaxBuilds
<1>1. \A b \in Threads : thread[b] = "none"
  <2>1. unfinished = 0
    BY DEF ServiceInv, Desk
  <2>2. \A t \in Tasks : record[t] # "running"
    BY <2>1, DeskIsEmpty DEF ServiceInv
  <2>3. \A t \in IndexTasks : thread[t] = "none"
    BY <2>2 DEF IndexTasks, ServiceInv, Bench
  <2>4. \A d \in Direct : thread[d] = "none"
    BY DEF ServiceInv, Bench
  <2> QED
    BY <2>3, <2>4 DEF Threads
<1>2. {b \in Threads : thread[b] = "building"} = {}
  BY <1>1
<1>3. slots + Cardinality({}) = MaxBuilds
  BY <1>2 DEF ServiceInv, Bench, BuildSlotsConserved
<1>4. slots \in Nat /\ Cardinality({}) = 0
  BY FS_EmptySet DEF ServiceInv, Bench
<1> QED
  BY <1>1, <1>3, <1>4

\* A submission, a worker that takes a task, and the steps that leave the
\* manager alone.
LEMMA ServiceStepsOfTasks ==
    ASSUME ServiceInv,
           \/ \E t \in Tasks : PostTask(t)
           \/ \E w \in Workers : TakeTask(w)
           \/ \E c \in CommandLine : RunMain(c)
           \/ \E b \in Builders : RunBuild(b)
           \/ \E q \in Readers : Ask(q)
    PROVE  ServiceInv'
<1>1. ASSUME NEW t \in Tasks, PostTask(t) PROVE ServiceInv'
  <2>1. Desk' /\ \A u \in Tasks : record[u] = "running" => record'[u] = "running"
    BY <1>1, DeskSubmits DEF PostTask, ServiceInv
  <2>2. UNCHANGED <<slots, thread>> /\ phase' = phase
    BY <1>1 DEF PostTask, Submit
  <2>3. Bench'
    BY <2>1, <2>2, BenchStays DEF ServiceInv, IndexTasks
  <2> QED
    BY <2>1, <2>3 DEF ServiceInv
<1>2. ASSUME NEW w \in Workers, TakeTask(w) PROVE ServiceInv'
  <2>1. Desk' /\ \A u \in Tasks : record[u] = "running" => record'[u] = "running"
    BY <1>2, DeskTakes DEF TakeTask, ServiceInv
  <2>2. UNCHANGED <<slots, thread>> /\ phase' = phase
    BY <1>2 DEF TakeTask, Take
  <2>3. Bench'
    BY <2>1, <2>2, BenchStays DEF ServiceInv, IndexTasks
  <2> QED
    BY <2>1, <2>3 DEF ServiceInv
<1>3. ASSUME UNCHANGED <<managerVars, slots, thread>> PROVE ServiceInv'
  <2>1. Desk'
    BY <1>3 DEF ServiceInv, Desk, managerVars, Books, QueuedIn, RunningIn
  <2>2. Bench'
    BY <1>3, BenchStays DEF ServiceInv, managerVars
  <2> QED
    BY <2>1, <2>2 DEF ServiceInv
<1> QED
  BY <1>1, <1>2, <1>3 DEF RunMain, RunBuild, Ask

\* The threads of builds.
LEMMA ServiceStepsOfThreads ==
    ASSUME ServiceInv,
           \/ \E t \in IndexTasks : AcquireSlot(t)
           \/ \E d \in Direct : PostIndex(d) \/ RespondIndex(d)
           \/ \E b \in Threads : ReleaseSlot(b)
    PROVE  ServiceInv'
<1>1. UNCHANGED managerVars
  BY DEF AcquireSlot, PostIndex, RespondIndex, ReleaseSlot
<1>2. Desk'
  BY <1>1 DEF ServiceInv, Desk, managerVars, Books, QueuedIn, RunningIn
<1>3. record' = record /\ phase' = phase
  BY <1>1 DEF managerVars
<1>4. /\ Bench /\ thread \in [Threads -> {"none", "building", "released"}]
      /\ \A t \in IndexTasks : thread[t] # "none" => record[t] = "running"
      /\ phase \in {"new", "closing", "closed"} =>
           \A d \in Direct : thread[d] = "none"
  BY DEF ServiceInv, Bench
<1>5. IndexTasks \subseteq Threads /\ Direct \subseteq Threads
      /\ IndexTasks \cap Direct = {} /\ Threads = IndexTasks \cup Direct
  BY ServiceAssumption DEF Threads, IndexTasks
<1>6. ASSUME NEW t \in IndexTasks, AcquireSlot(t) PROVE Bench'
  <2>1. /\ record[t] = "running" /\ thread[t] = "none" /\ slots > 0
        /\ slots' = slots - 1 /\ thread' = [thread EXCEPT ![t] = "building"]
    BY <1>6 DEF AcquireSlot
  <2>2. /\ slots' \in Nat
        /\ thread' \in [Threads -> {"none", "building", "released"}]
        /\ IsFiniteSet(Building') /\ BuildSlotsConserved'
    BY <1>4, <1>5, <2>1, SlotTaken
  <2>3. \A u \in IndexTasks : thread'[u] # "none" => record'[u] = "running"
    BY <1>3, <1>4, <1>5, <2>1
  <2>4. \A d \in Direct : thread'[d] = thread[d]
    BY <1>4, <1>5, <2>1
  <2> QED
    BY <1>3, <1>4, <2>2, <2>3, <2>4 DEF Bench
<1>7. ASSUME NEW d \in Direct, PostIndex(d) PROVE Bench'
  <2>1. /\ phase = "accepting" /\ thread[d] = "none" /\ slots > 0
        /\ slots' = slots - 1 /\ thread' = [thread EXCEPT ![d] = "building"]
    BY <1>7 DEF PostIndex
  <2>2. /\ slots' \in Nat
        /\ thread' \in [Threads -> {"none", "building", "released"}]
        /\ IsFiniteSet(Building') /\ BuildSlotsConserved'
    BY <1>4, <1>5, <2>1, SlotTaken
  <2>3. \A t \in IndexTasks : thread'[t] = thread[t]
    BY <1>4, <1>5, <2>1
  <2> QED
    BY <1>3, <1>4, <2>1, <2>2, <2>3 DEF Bench
<1>8. ASSUME NEW d \in Direct, RespondIndex(d) PROVE Bench'
  <2>1. /\ thread[d] = "released" /\ slots' = slots
        /\ thread' = [thread EXCEPT ![d] = "none"]
    BY <1>8 DEF RespondIndex
  <2>2. /\ slots' \in Nat
        /\ thread' \in [Threads -> {"none", "building", "released"}]
        /\ IsFiniteSet(Building') /\ BuildSlotsConserved'
    BY <1>4, <1>5, <2>1, ThreadDone
  <2>3. \A t \in IndexTasks : thread'[t] = thread[t]
    BY <1>4, <1>5, <2>1
  <2>4. \A e \in Direct : thread[e] = "none" => thread'[e] = "none"
    BY <1>4, <1>5, <2>1
  <2> QED
    BY <1>3, <1>4, <2>2, <2>3, <2>4 DEF Bench
<1>9. ASSUME NEW b \in Threads, ReleaseSlot(b) PROVE Bench'
  <2>1. /\ thread[b] = "building" /\ slots' = slots + 1
        /\ thread' = [thread EXCEPT ![b] = "released"]
    BY <1>9 DEF ReleaseSlot, SlotsBack
  <2>2. /\ slots' \in Nat
        /\ thread' \in [Threads -> {"none", "building", "released"}]
        /\ IsFiniteSet(Building') /\ BuildSlotsConserved'
    BY <1>4, <2>1, SlotGivenBack
  <2>3. \A c \in Threads : thread'[c] # "none" => thread[c] # "none"
    BY <1>4, <2>1
  <2> QED
    BY <1>3, <1>4, <1>5, <2>2, <2>3 DEF Bench
<1> QED
  BY <1>2, <1>6, <1>7, <1>8, <1>9 DEF ServiceInv

\* A worker learns how an operation ended.
LEMMA ServiceStepSettle ==
    ASSUME ServiceInv, NEW w \in Workers, SettleTask(w)
    PROVE  ServiceInv'
<1> DEFINE t == worker[w]
<1>1. PICK status \in {"succeeded", "failed"} : Settle(w, status)
  BY DEF SettleTask
<1>2. /\ Desk' /\ t \in Tasks
      /\ \A u \in Tasks \ {t} : record[u] = "running" => record'[u] = "running"
  BY <1>1, DeskSettles DEF ServiceInv
<1>3. phase' = phase
  BY <1>1 DEF Settle
<1>4. IndexTasks \subseteq Threads /\ Direct \subseteq Threads
      /\ IndexTasks \subseteq Tasks
      /\ IndexTasks \cap Direct = {} /\ Threads = IndexTasks \cup Direct
  BY ServiceAssumption DEF Threads, IndexTasks
<1> HIDE DEF t
<1>5. CASE t \in DemoTasks
  <2>1. UNCHANGED <<slots, thread>>
    <3>1. t \notin IndexTasks
      BY <1>5 DEF IndexTasks
    <3> QED
      BY <1>5, <3>1 DEF SettleTask, t
  <2>2. \A u \in IndexTasks : record[u] = "running" => record'[u] = "running"
    BY <1>2, <1>4, <1>5 DEF IndexTasks
  <2>3. Bench'
    BY <1>3, <2>1, <2>2, BenchStays DEF ServiceInv
  <2> QED
    BY <1>2, <2>3 DEF ServiceInv
<1>6. CASE t \in IndexTasks
  <2>1. t \notin DemoTasks
    BY <1>6 DEF IndexTasks
  <2>2. /\ thread[t] = "released" /\ slots' = slots
        /\ thread' = [thread EXCEPT ![t] = "none"]
    BY <2>1 DEF SettleTask, t
  <2>3. /\ slots' \in Nat
        /\ thread' \in [Threads -> {"none", "building", "released"}]
        /\ IsFiniteSet(Building') /\ BuildSlotsConserved'
    BY <1>4, <1>6, <2>2, ThreadDone DEF ServiceInv
  <2>4. /\ thread \in [Threads -> {"none", "building", "released"}]
        /\ \A u \in IndexTasks : thread[u] # "none" => record[u] = "running"
        /\ phase \in {"new", "closing", "closed"} =>
             \A d \in Direct : thread[d] = "none"
    BY DEF ServiceInv, Bench
  <2>5. \A u \in IndexTasks : thread'[u] # "none" => record'[u] = "running"
    BY <1>2, <1>4, <1>6, <2>2, <2>4
  <2>6. \A d \in Direct : thread'[d] = thread[d]
    BY <1>4, <1>6, <2>2, <2>4
  <2>7. Bench'
    BY <1>3, <2>3, <2>4, <2>5, <2>6 DEF Bench
  <2> QED
    BY <1>2, <2>7 DEF ServiceInv
<1> QED
  BY <1>2, <1>5, <1>6 DEF IndexTasks

\* Start, shutdown, exit and power loss.
LEMMA ServiceStepsOfLifespan ==
    ASSUME ServiceInv, StartUp \/ ShutDown \/ ClearResources \/ Exit \/ PowerLoss
    PROVE  ServiceInv'
<1>1. CASE StartUp
  <2>1. /\ phase = "new" /\ phase' = "accepting" /\ slots' = MaxBuilds
        /\ UNCHANGED <<record, queue, unfinished, worker, thread>>
    BY <1>1 DEF StartUp, Start
  <2>2. Desk'
    BY <2>1 DEF ServiceInv, Desk, Books, QueuedIn, RunningIn
  <2>3. slots = MaxBuilds /\ \A b \in Threads : thread[b] = "none"
    BY <2>1, BenchIsEmpty
  <2>4. \A d \in Direct : thread[d] = "none"
    BY <2>3 DEF Threads
  <2>5. Bench'
    BY <2>1, <2>3, <2>4, BenchStays DEF ServiceInv
  <2> QED
    BY <2>2, <2>5 DEF ServiceInv
<1>2. CASE ShutDown
  <2>1. /\ phase = "accepting" /\ phase' = "closing"
        /\ \A d \in Direct : thread[d] = "none"
        /\ UNCHANGED <<record, queue, unfinished, worker, slots, thread>>
    BY <1>2 DEF ShutDown, BeginClose
  <2>2. Desk'
    BY <2>1 DEF ServiceInv, Desk, Books, QueuedIn, RunningIn
  <2>3. Bench'
    BY <2>1, BenchStays DEF ServiceInv
  <2> QED
    BY <2>2, <2>3 DEF ServiceInv
<1>3. CASE ClearResources
  <2>1. /\ phase = "closing" /\ unfinished = 0 /\ phase' = "closed"
        /\ worker' = [w \in Workers |-> NULL]
        /\ UNCHANGED <<record, queue, unfinished, slots, thread>>
    BY <1>3 DEF ClearResources, EndClose, Joined
  <2>2. worker = [w \in Workers |-> NULL]
    BY <2>1, DeskIsEmpty DEF ServiceInv
  <2>3. Desk'
    BY <2>1, <2>2 DEF ServiceInv, Desk, Books, QueuedIn, RunningIn
  <2>4. \A d \in Direct : thread[d] = "none"
    BY <2>1 DEF ServiceInv, Bench
  <2>5. Bench'
    BY <2>1, <2>4, BenchStays DEF ServiceInv
  <2> QED
    BY <2>3, <2>5 DEF ServiceInv
<1>4. CASE Exit
  <2>1. /\ phase = "closed" /\ phase' = "new"
        /\ record' = [t \in Tasks |-> "absent"]
        /\ UNCHANGED <<queue, unfinished, worker, slots, thread>>
    BY <1>4 DEF Exit
  <2>2. unfinished = 0
    BY <2>1 DEF ServiceInv, Desk
  <2>3. queue = << >> /\ worker = [w \in Workers |-> NULL]
    BY <2>2, DeskIsEmpty DEF ServiceInv
  <2>4. Desk'
    BY <2>1, <2>2, <2>3, DeskCleared
  <2>5. slots = MaxBuilds /\ thread = [b \in Threads |-> "none"]
    BY <2>1, BenchIsEmpty DEF ServiceInv, Bench
  <2>6. Bench'
    BY <2>1, <2>5, NoThreads
  <2> QED
    BY <2>4, <2>6 DEF ServiceInv
<1>5. CASE PowerLoss
  <2>1. Desk'
    BY <1>5, DeskCleared DEF PowerLoss
  <2>2. Bench'
    BY <1>5, NoThreads DEF PowerLoss
  <2> QED
    BY <2>1, <2>2 DEF ServiceInv
<1> QED
  BY <1>1, <1>2, <1>3, <1>4, <1>5

\* The invariant, over every behaviour of the service.
THEOREM ServiceInvHolds == ServiceSpec => []ServiceInv
<1>1. ServiceInit => ServiceInv
  <2> SUFFICES ASSUME ServiceInit PROVE ServiceInv
    OBVIOUS
  <2>1. Books(record, queue, worker, unfinished)
    BY EmptyBooks DEF ServiceInit, ManagerInit
  <2>2. Desk
    BY <2>1, ManagerAssumption DEF ServiceInit, ManagerInit, Desk
  <2>3. {b \in Threads : thread[b] = "building"} = {}
    BY DEF ServiceInit
  <2>4. IsFiniteSet({}) /\ Cardinality({}) = 0
    BY FS_EmptySet
  <2>5. MaxBuilds \in Nat /\ MaxBuilds + 0 = MaxBuilds
    BY ServiceAssumption
  <2>6. BuildSlotsConserved /\ IsFiniteSet(Building)
    BY <2>3, <2>4, <2>5 DEF ServiceInit, BuildSlotsConserved, Building
  <2>7. Bench
    BY <2>5, <2>6 DEF ServiceInit, Bench, Threads
  <2> QED
    BY <2>2, <2>7 DEF ServiceInv
<1>2. ServiceInv /\ [ServiceNext]_serviceVars => ServiceInv'
  <2> SUFFICES ASSUME ServiceInv, [ServiceNext]_serviceVars PROVE ServiceInv'
    OBVIOUS
  <2>1. CASE UNCHANGED serviceVars
    <3>1. Desk'
      BY <2>1 DEF serviceVars, managerVars, ServiceInv, Desk, Books, QueuedIn, RunningIn
    <3>2. Bench'
      BY <2>1, BenchStays DEF serviceVars, managerVars, ServiceInv
    <3> QED
      BY <3>1, <3>2 DEF ServiceInv
  <2>2. CASE ServiceNext
    BY <2>2, ServiceStepsOfTasks, ServiceStepsOfThreads, ServiceStepSettle,
       ServiceStepsOfLifespan DEF ServiceNext
  <2> QED
    BY <2>1, <2>2
<1> QED
  BY <1>1, <1>2, PTL DEF ServiceSpec

\* The table, the queue and the workers of the task manager tell one story.
THEOREM BooksBalanceHolds == ServiceSpec => []BooksBalance
<1>1. ServiceInv => BooksBalance
  <2> SUFFICES ASSUME ServiceInv PROVE BooksBalance
    OBVIOUS
  <2>1. Books(record, queue, worker, unfinished)
    BY DEF ServiceInv, Desk
  <2>2. Waiting = QueuedIn(record)
    BY DEF Waiting, QueuedIn
  <2>3. InHand = RunningIn(record) /\ InHand = {t \in Tasks : record[t] = "running"}
    BY <2>1, ManagerAssumption DEF Books, InHand, RunningIn
  <2>4. {queue[i] : i \in DOMAIN queue} = Waiting
    BY <2>1 DEF Books, Waiting
  <2> QED
    BY <2>1, <2>2, <2>3, <2>4 DEF BooksBalance, Books
<1> QED
  BY <1>1, ServiceInvHolds, PTL

\* The slots are neither lost nor given back twice.
THEOREM BuildSlotsConservedHolds == ServiceSpec => []BuildSlotsConserved
<1>1. ServiceInv => BuildSlotsConserved
  BY DEF ServiceInv, Bench
<1> QED
  BY <1>1, ServiceInvHolds, PTL

\* The lifespan clears nothing that a task or a thread still uses.
THEOREM ResourcesOutliveTasksHolds == ServiceSpec => []ResourcesOutliveTasks
<1>1. ServiceInv => ResourcesOutliveTasks
  <2> SUFFICES ASSUME ServiceInv, phase = "closed" PROVE ResourcesOutliveTasks
    BY DEF ResourcesOutliveTasks
  <2>1. unfinished = 0
    BY DEF ServiceInv, Desk
  <2>2. \A t \in Tasks : record[t] \notin {"queued", "running"}
    BY <2>1, DeskIsEmpty DEF ServiceInv
  <2>3. \A b \in Threads : thread[b] = "none"
    BY BenchIsEmpty
  <2> QED
    BY <2>2, <2>3 DEF ResourcesOutliveTasks
<1> QED
  BY <1>1, ServiceInvHolds, PTL

-----------------------------------------------------------------------------
(* The questions.                                                          *)

Row == [pc : {"out", "generate", "ended"},
        status : {"none", "unreadable", "wrong_model", "raised",
                  "no_context", "citation_refused", "success"},
        retrieved : Nat, calls : Nat, retries : Nat, cited : SUBSET (1..TopK)]

\* A row is typed and says what AnswersAreGrounded asks of it; while the model
\* is being asked, every call but the one to come has been a retry.
GoodRow(row) ==
    /\ row \in Row
    /\ row.retrieved <= TopK
    /\ row.status # "unreadable"
    /\ row.pc \in {"out", "generate"} => row.status = "none"
    /\ row.pc = "out" => row = NoQuery
    /\ row.pc = "generate" => row.calls = row.retries /\ row.retries <= MaxCitationRetries
    /\ row.status = "success" => /\ row.cited # {}
                                 /\ row.cited \subseteq 1..row.retrieved
                                 /\ row.calls = row.retries + 1
    /\ row.status = "citation_refused" =>
         row.calls = MaxCitationRetries + 1 /\ row.retries = MaxCitationRetries
    /\ row.status = "no_context" => row.calls = 0

QueriesInv == /\ query \in [Readers -> Row]
              /\ \A q \in Readers : GoodRow(query[q])

\* An index has finitely many records, so no more than top_k are retrieved.
LEMMA ChosenAtMostTopK ==
    ASSUME NEW file, file.by \in Builders, Accepted(InputOf[file.by]), NEW n \in Chosen(file)
    PROVE  n \in Nat /\ n <= TopK
<1> DEFINE i == InputOf[file.by]
<1>1. i \in Lengths
  BY BuilderAssumption
<1>2. i.length \in Nat \ {0} /\ i.size \in Nat \ {0} /\ i.overlap \in Nat
      /\ i.size - i.overlap \in Nat
  BY <1>1 DEF Lengths, Accepted
<1>3. Starts(i) \subseteq 0..(i.length - 1)
  <2> SUFFICES ASSUME NEW s \in Starts(i) PROVE s \in 0..(i.length - 1)
    OBVIOUS
  <2>1. PICK m \in 0..(i.length - 1) : s = m * (i.size - i.overlap)
    BY DEF Starts
  <2>2. s \in Nat
    BY <1>2, <2>1
  <2>3. s < i.length
    BY DEF Starts
  <2> QED
    BY <1>2, <2>2, <2>3
<1>4. Chunks(i) \subseteq (0..(i.length - 1)) \X (0..i.length)
  <2>1. ASSUME NEW s \in Starts(i)
        PROVE  <<s, Min({s + i.size, i.length})>> \in (0..(i.length - 1)) \X (0..i.length)
    <3>1. s \in 0..(i.length - 1) /\ s + i.size \in Nat
      BY <1>2, <1>3
    <3>2. Min({s + i.size, i.length}) \in 0..i.length
      BY <1>2, <3>1, MinOfTwo
    <3> QED
      BY <3>1, <3>2
  <2> QED
    BY <2>1 DEF Chunks
<1>5. IsFiniteSet(0..(i.length - 1)) /\ IsFiniteSet(0..i.length)
  <2>1. 0 \in Int /\ i.length - 1 \in Int /\ i.length \in Int
    BY <1>2
  <2> QED
    BY <2>1, FS_Interval
<1>6. IsFiniteSet(Chunks(i))
  BY <1>4, <1>5, FS_Product, FS_Subset
<1>7. Cardinality(Chunks(i)) \in Nat
  BY <1>6, FS_CardinalityType
<1>8. Chosen(file) = 0..Min({TopK, Cardinality(Chunks(i))})
  BY DEF Chosen
<1>9. Min({TopK, Cardinality(Chunks(i))}) \in Nat
      /\ Min({TopK, Cardinality(Chunks(i))}) <= TopK
  BY <1>7, QueryAssumption, MinOfTwo
<1> QED
  BY <1>8, <1>9, QueryAssumption

LEMMA NewRow == GoodRow(NoQuery) /\ NoQuery \in Row
  BY QueryAssumption DEF GoodRow, NoQuery, Row

\* Loading and retrieving.
LEMMA RowAfterRetrieve ==
    ASSUME FilesInv, QueriesInv, NEW q \in Readers, Retrieve(q)
    PROVE  \E new \in Row : GoodRow(new) /\ query' = [query EXCEPT ![q] = new]
<1>1. index # NoFile /\ query[q] = NoQuery
  BY DEF Retrieve, QueriesInv, GoodRow
<1>2. index.whole
  BY <1>1 DEF FilesInv, IndexIsWhole
<1>3. ASSUME NEW status \in {"wrong_model", "raised", "no_context"}, Ends(q, status)
      PROVE  \E new \in Row : GoodRow(new) /\ query' = [query EXCEPT ![q] = new]
  <2>1. /\ Ended(NoQuery, status) \in Row /\ GoodRow(Ended(NoQuery, status))
    BY <1>3, NewRow, QueryAssumption DEF Ended, NoQuery, GoodRow, Row
  <2> QED
    BY <1>3, <2>1 DEF Ends
<1>4. ASSUME index.by # "another", NEW n \in Chosen(index), n # 0,
             query' = [query EXCEPT ![q].pc = "generate", ![q].retrieved = n]
      PROVE  \E new \in Row : GoodRow(new) /\ query' = [query EXCEPT ![q] = new]
  <2> DEFINE new == [NoQuery EXCEPT !.pc = "generate", !.retrieved = n]
  <2>1. index \in File /\ index.by # "nobody"
    BY <1>2 DEF FilesInv, GoodFile
  <2>2. index.by \in Builders /\ Accepted(InputOf[index.by])
    BY <1>4, <2>1 DEF FilesInv, GoodFile, File
  <2>3. n \in Nat /\ n <= TopK
    BY <2>2, ChosenAtMostTopK
  <2>4. new \in Row /\ GoodRow(new)
    <3>1. /\ new.pc = "generate" /\ new.status = "none" /\ new.calls = 0
          /\ new.retries = 0 /\ new.retrieved = n
      BY DEF NoQuery
    <3>2. new \in Row
      BY <2>3 DEF NoQuery, Row
    <3> HIDE DEF new
    <3> QED
      BY <2>3, <3>1, <3>2, QueryAssumption DEF GoodRow
  <2>5. query' = [query EXCEPT ![q] = new]
    BY <1>1, <1>4 DEF QueriesInv
  <2> QED
    BY <2>4, <2>5
<1> QED
  BY <1>2, <1>3, <1>4 DEF Retrieve

\* A turn of the loop.
LEMMA RowAfterGenerate ==
    ASSUME QueriesInv, NEW q \in Readers, Generate(q)
    PROVE  \E new \in Row : GoodRow(new) /\ query' = [query EXCEPT ![q] = new]
<1> DEFINE row  == query[q]
           done == [row EXCEPT !.calls = @ + 1]
<1>1. row \in Row /\ GoodRow(row) /\ row.pc = "generate"
  BY DEF Generate, QueriesInv
<1>2. /\ row.status = "none" /\ row.calls = row.retries
      /\ row.retries <= MaxCitationRetries /\ row.retrieved <= TopK
      /\ row.calls \in Nat /\ row.retries \in Nat /\ row.retrieved \in Nat
  BY <1>1 DEF GoodRow, Row
<1>3. done \in Row /\ done.calls = row.calls + 1 /\ done.retries = row.retries
      /\ done.retrieved = row.retrieved /\ done.pc = "generate" /\ done.status = "none"
  BY <1>1, <1>2 DEF Row
<1>4. PICK cites \in SUBSET (0..(TopK + 1)) :
        query' = [query EXCEPT ![q] =
               CASE Valid(cites, row.retrieved) ->
                      Ended([done EXCEPT !.cited = cites \cap 1..TopK], "success")
                 [] ~Valid(cites, row.retrieved) /\ row.calls = MaxCitationRetries ->
                      Ended(done, "citation_refused")
                 [] OTHER -> [done EXCEPT !.retries = @ + 1]]
  BY DEF Generate
<1> HIDE DEF row, done
<1>5. CASE Valid(cites, row.retrieved)
  <2> DEFINE cited == cites \cap 1..TopK
             new   == Ended([done EXCEPT !.cited = cited], "success")
  <2>1. query' = [query EXCEPT ![q] = new]
    BY <1>4, <1>5
  <2>2. cited # {} /\ cited \subseteq 1..row.retrieved /\ cited \in SUBSET (1..TopK)
    <3>1. 1..row.retrieved \subseteq 1..TopK
      BY <1>2, QueryAssumption
    <3>2. cites # {} /\ cites \subseteq 1..row.retrieved
      BY <1>5 DEF Valid
    <3>3. cited = cites
      BY <3>1, <3>2
    <3> QED
      BY <3>1, <3>2, <3>3
  <2> HIDE DEF cited
  <2>3. new \in Row /\ GoodRow(new)
    BY <1>2, <1>3, <2>2 DEF Ended, GoodRow, Row
  <2> QED
    BY <2>1, <2>3
<1>6. CASE ~Valid(cites, row.retrieved) /\ row.calls = MaxCitationRetries
  <2>1. query' = [query EXCEPT ![q] = Ended(done, "citation_refused")]
    BY <1>4, <1>6
  <2>2. Ended(done, "citation_refused") \in Row /\ GoodRow(Ended(done, "citation_refused"))
    BY <1>2, <1>3, <1>6 DEF Ended, GoodRow, Row
  <2> QED
    BY <2>1, <2>2
<1>7. CASE ~Valid(cites, row.retrieved) /\ row.calls # MaxCitationRetries
  <2>1. query' = [query EXCEPT ![q] = [done EXCEPT !.retries = @ + 1]]
    BY <1>4, <1>7
  <2>2. row.retries + 1 <= MaxCitationRetries
    BY <1>2, <1>7, QueryAssumption
  <2>3. [done EXCEPT !.retries = @ + 1] \in Row /\ GoodRow([done EXCEPT !.retries = @ + 1])
    BY <1>2, <1>3, <2>2 DEF GoodRow, Row
  <2> QED
    BY <2>1, <2>3
<1> QED
  BY <1>5, <1>6, <1>7

\* A question is never turned away by a half-written index, and an answer
\* cites only what was retrieved for it (run_rag_query).
THEOREM AnswersAreGroundedHolds == ServiceSpec => []AnswersAreGrounded
<1>1. ServiceInit => QueriesInv
  BY NewRow DEF ServiceInit, QueryInit, QueriesInv
<1>2. FilesInv /\ QueriesInv /\ [ServiceNext]_serviceVars => QueriesInv'
  <2> SUFFICES ASSUME FilesInv, QueriesInv, [ServiceNext]_serviceVars PROVE QueriesInv'
    OBVIOUS
  <2>1. CASE UNCHANGED query
    BY <2>1 DEF QueriesInv
  <2>2. CASE query' = [q \in Readers |-> NoQuery]
    BY <2>2, NewRow DEF QueriesInv
  <2>3. ASSUME NEW q \in Readers, QueryStep(q) PROVE QueriesInv'
    <3>1. \E new \in Row : GoodRow(new) /\ query' = [query EXCEPT ![q] = new]
      <4>1. CASE Retrieve(q)
        BY <4>1, RowAfterRetrieve
      <4>2. CASE Generate(q)
        BY <4>2, RowAfterGenerate
      <4>3. CASE QueryRaises(q)
        <5>1. Ended(NoQuery, "raised") \in Row /\ GoodRow(Ended(NoQuery, "raised"))
          BY NewRow, QueryAssumption DEF Ended, NoQuery, GoodRow, Row
        <5> QED
          BY <4>3, <5>1 DEF QueryRaises, Ends
      <4>4. CASE Forget(q)
        BY <4>4, NewRow DEF Forget
      <4> QED
        BY <2>3, <4>1, <4>2, <4>3, <4>4 DEF QueryStep
    <3> QED
      BY <3>1 DEF QueriesInv
  <2>4. UNCHANGED serviceVars => UNCHANGED query
    BY DEF serviceVars
  <2>5. ServiceNext => \/ UNCHANGED query
                       \/ query' = [q \in Readers |-> NoQuery]
                       \/ \E q \in Readers : QueryStep(q)
    BY DEF ServiceNext, StartUp, ShutDown, ClearResources, Exit, PowerLoss, PostTask,
           TakeTask, SettleTask, AcquireSlot, PostIndex, RespondIndex, RunMain,
           RunBuild, ReleaseSlot, Ask
  <2> QED
    BY <2>1, <2>2, <2>3, <2>4, <2>5
<1>3. QueriesInv => AnswersAreGrounded
  BY DEF QueriesInv, AnswersAreGrounded, GoodRow
<1> QED
  BY <1>1, <1>2, <1>3, FilesInvHolds, PTL DEF ServiceSpec
=============================================================================
