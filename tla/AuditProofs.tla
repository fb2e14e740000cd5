---------------------------- MODULE AuditProofs ----------------------------
(***************************************************************************)
(* Proofs about AuditChain and AuditWitness, for any number of goroutines,  *)
(* entries and restarts: an entry synced as a line of its own survives      *)
(* every fault, the chain does not break before a line is torn or an fsync  *)
(* fails, the breaker bounds what goes unlogged, and a commitment on        *)
(* GarudaChain names one entry, which stays.                                *)
(***************************************************************************)
EXTENDS AuditWitness, SequenceTheorems, FiniteSetTheorems, TLAPS

Line == [ok : BOOLEAN, seq : Nat, prev : Nat, hash : Nat]

\* The shape of the state: one goroutine holds the mutex, and it has finished
\* its line.
ShapeInv ==
    /\ file \in Seq(Line)
    /\ ragged \in BOOLEAN
    /\ ragged => file # <<>>
    /\ synced \in 0..Len(file)
    /\ prevHash \in Nat /\ seq \in Nat /\ built \in Nat
    /\ req \in [Worker -> [pc : {"idle", "audit", "written"}, admin : BOOLEAN]]
    /\ \A v, w \in Worker : req[v].pc = "written" /\ req[w].pc = "written" => v = w
    /\ ~ Unlocked => file # <<>> /\ ragged = FALSE

\* Line i of a file f is out of reach of the next write: it is not the
\* unfinished one.
Finished(f, r, i) == r => i < Len(f)

\* AckedDurable, strengthened: an acknowledged line is also a finished one.
KeptInv ==
    \A h \in acked : \E i \in 1..synced : file[i].hash = h /\ Finished(file, ragged, i)

DurableInv == ShapeInv /\ KeptInv

\* A prefix of the file keeps its first lines.
LEMMA PrefixFacts ==
    ASSUME NEW f \in Seq(Line), NEW n \in 0..Len(f)
    PROVE  /\ SubSeq(f, 1, n) \in Seq(Line)
           /\ Len(SubSeq(f, 1, n)) = n
           /\ \A i \in 1..n : SubSeq(f, 1, n)[i] = f[i]
OBVIOUS

\* A line is added at the end and the others stay.
LEMMA AppendFacts ==
    ASSUME NEW f \in Seq(Line), NEW e \in Line
    PROVE  /\ Append(f, e) \in Seq(Line)
           /\ Append(f, e) # <<>>
           /\ Len(Append(f, e)) = Len(f) + 1
           /\ Append(f, e)[Len(f) + 1] = e
           /\ \A i \in 1..Len(f) : Append(f, e)[i] = f[i]
OBVIOUS

\* A write, whole or torn, leaves the finished lines alone and they stay
\* finished.
LEMMA WriteFacts ==
    ASSUME ShapeInv, NEW e \in Line
    PROVE  /\ Appended(e) \in Seq(Line)
           /\ Appended(e) # <<>>
           /\ Len(file) <= Len(Appended(e))
           /\ \A i \in 1..Len(file) : Finished(file, ragged, i) =>
                /\ Appended(e)[i] = file[i]
                /\ \A r \in BOOLEAN : Finished(Appended(e), r, i)
<1>1. file \in Seq(Line) /\ Len(file) \in Nat
  BY DEF ShapeInv
<1>2. CASE ragged
  <2>1. Garbage \in Line
    BY Zenon DEF Garbage, Line, emptyHash
  <2> DEFINE g == [file EXCEPT ![Len(file)] = Garbage]
  <2>2. Appended(e) = g
    BY <1>2, Zenon DEF Appended
  <2>3. file # <<>>
    BY <1>2, Zenon DEF ShapeInv
  <2>4. g \in Seq(Line) /\ Len(g) = Len(file) /\ g # <<>>
    BY <1>1, <2>1, <2>3
  <2>5. \A i \in 1..Len(file) : i < Len(file) => g[i] = file[i]
    BY <1>1
  <2> HIDE DEF g
  <2> QED BY <1>1, <1>2, <2>2, <2>4, <2>5 DEF Finished
<1>3. CASE ~ ragged
  <2>1. Appended(e) = Append(file, e)
    BY <1>3, Zenon DEF Appended
  <2>2. /\ Append(file, e) \in Seq(Line) /\ Append(file, e) # <<>>
        /\ Len(Append(file, e)) = Len(file) + 1
        /\ \A i \in 1..Len(file) : Append(file, e)[i] = file[i]
    BY <1>1, AppendFacts, Zenon
  <2> QED BY <1>1, <2>1, <2>2 DEF Finished
<1> QED BY <1>2, <1>3, Zenon

\* What a stop of the process leaves: the synced lines, and those that were
\* finished still are.
LEMMA SurvivorFacts ==
    ASSUME ShapeInv, NEW d \in Survivors
    PROVE  /\ d.ragged \in BOOLEAN
           /\ d.ragged => d.file # <<>>
           /\ d.file \in Seq(Line)
           /\ d.synced \in 0..Len(d.file)
           /\ synced <= d.synced
           /\ \A i \in 1..synced :
                /\ d.file[i] = file[i]
                /\ Finished(file, ragged, i) => Finished(d.file, d.ragged, i)
<1>0. /\ file \in Seq(Line) /\ Len(file) \in Nat /\ ragged \in BOOLEAN
      /\ synced \in 0..Len(file)
  BY DEF ShapeInv
<1>1. CASE d \in Killed
  BY <1>1 DEF Killed, Remains, ShapeInv
<1>2. CASE d \in PowerLost
  <2>1. PICK n \in synced..Len(file) :
          d = Remains(SubSeq(file, 1, n), ragged /\ n = Len(file), n)
    BY <1>2, Zenon DEF PowerLost
  <2>2. n \in 0..Len(file) /\ n \in Nat /\ synced <= n
    BY <1>0, <2>1
  <2>3. d.file = SubSeq(file, 1, n) /\ d.ragged = (ragged /\ n = Len(file)) /\ d.synced = n
    BY <2>1, Zenon DEF Remains
  <2>4. d.ragged \in BOOLEAN /\ (d.ragged => ragged /\ n = Len(file))
    BY <1>0, <2>3, Zenon
  <2>5. /\ d.file \in Seq(Line) /\ Len(d.file) = n
        /\ \A i \in 1..n : d.file[i] = file[i]
    BY <1>0, <2>2, <2>3, PrefixFacts
  <2>6. d.ragged => d.file # <<>>
    <3> SUFFICES ASSUME d.ragged PROVE d.file # <<>>
      BY Zenon
    <3>1. file # <<>> /\ n = Len(file)
      BY <2>4, Zenon DEF ShapeInv
    <3>2. Len(file) # 0
      BY <1>0, <3>1
    <3> QED BY <2>5, <3>1, <3>2, Zenon
  <2>7. \A i \in 1..synced : i \in 1..n
    BY <1>0, <2>2
  <2>8. \A i \in 1..synced : Finished(file, ragged, i) => Finished(d.file, d.ragged, i)
    BY <2>4, <2>5, Zenon DEF Finished
  <2>9. d.synced \in 0..Len(d.file) /\ synced <= d.synced
    BY <2>2, <2>3, <2>5
  <2> QED BY <2>4, <2>5, <2>6, <2>7, <2>8, <2>9, Zenon
<1>3. CASE d \in TornByPowerLoss
  <2>1. PICK n \in synced..(Len(file) - 1) :
          d = Remains(Append(SubSeq(file, 1, n), Garbage), TRUE, n)
    BY <1>3, Zenon DEF TornByPowerLoss
  <2>2. n \in 0..Len(file) /\ n \in Nat /\ synced <= n
    BY <1>0, <2>1
  <2> DEFINE g == SubSeq(file, 1, n)
  <2>3. d.file = Append(g, Garbage) /\ d.ragged = TRUE /\ d.synced = n
    BY <2>1, Zenon DEF Remains
  <2>4. g \in Seq(Line) /\ Len(g) = n /\ \A i \in 1..n : g[i] = file[i]
    BY <1>0, <2>2, PrefixFacts, Zenon
  <2>5. Garbage \in Line
    BY Zenon DEF Garbage, Line, emptyHash
  <2> HIDE DEF g
  <2>6. /\ d.file \in Seq(Line) /\ d.file # <<>> /\ Len(d.file) = n + 1
        /\ \A i \in 1..n : d.file[i] = g[i]
    BY <2>3, <2>4, <2>5, AppendFacts
  <2>7. \A i \in 1..synced : i \in 1..n /\ i < n + 1
    BY <1>0, <2>2
  <2>8. \A i \in 1..synced : d.file[i] = file[i] /\ Finished(d.file, d.ragged, i)
    BY <2>4, <2>6, <2>7, Zenon DEF Finished
  <2>9. d.synced \in 0..Len(d.file) /\ synced <= d.synced
    BY <2>2, <2>3, <2>6
  <2>10. d.ragged \in BOOLEAN
    BY <2>3, Zenon
  <2> QED BY <2>6, <2>8, <2>9, <2>10, Zenon
<1> QED BY <1>1, <1>2, <1>3, Zenon DEF Survivors

\* What a stop of the process leaves when it tears no line: a prefix.
LEMMA UntornSurvivors ==
    ASSUME ShapeInv, ragged = FALSE, NEW d \in Survivors, ~ d.ragged
    PROVE  /\ d.ragged = FALSE
           /\ d.file \in Seq(Line)
           /\ Len(d.file) <= Len(file)
           /\ \A i \in 1..Len(d.file) : d.file[i] = file[i]
<1>1. CASE d \in Killed
  BY <1>1 DEF Killed, Remains, ShapeInv
<1>2. CASE d \in PowerLost
  <2>1. PICK n \in synced..Len(file) :
          d = Remains(SubSeq(file, 1, n), ragged /\ n = Len(file), n)
    BY <1>2, Zenon DEF PowerLost
  <2>2. n \in 0..Len(file) /\ file \in Seq(Line)
    BY <2>1 DEF ShapeInv
  <2>3. d.file = SubSeq(file, 1, n) /\ d.ragged = (ragged /\ n = Len(file))
    BY <2>1, Zenon DEF Remains
  <2>4. d.ragged = FALSE
    BY <2>3, Zenon
  <2>5. /\ d.file \in Seq(Line) /\ Len(d.file) = n
        /\ \A i \in 1..n : d.file[i] = file[i]
    BY <2>2, <2>3, PrefixFacts, Zenon
  <2>6. n <= Len(file)
    BY <2>2
  <2> QED BY <2>4, <2>5, <2>6, Zenon
<1>3. CASE d \in TornByPowerLoss
  BY <1>3 DEF TornByPowerLoss, Remains
<1> QED BY <1>1, <1>2, <1>3, Zenon DEF Survivors

\* The initial state is well formed.
LEMMA DurableInit == Init => DurableInv
<1> SUFFICES ASSUME Init PROVE DurableInv
  BY Zenon
<1>1. KeptInv
  BY Zenon DEF Init, KeptInv
<1>2. Unlocked
  BY Zenon DEF Init, Unlocked, Idle
<1>3. ShapeInv
  <2>1. file \in Seq(Line) /\ synced \in 0..Len(file)
    BY DEF Init
  <2>2. ragged \in BOOLEAN /\ ~ ragged
    BY Zenon DEF Init
  <2>3. prevHash \in Nat /\ seq \in Nat /\ built \in Nat
    BY Zenon DEF Init, emptyHash
  <2>4. req \in [Worker -> [pc : {"idle", "audit", "written"}, admin : BOOLEAN]]
    BY Zenon DEF Init, Idle
  <2> QED BY <1>2, <2>1, <2>2, <2>3, <2>4, Zenon DEF ShapeInv, Unlocked
<1> QED BY <1>1, <1>3, Zenon DEF DurableInv

\* A request that only moves between the steps of its handler, or ends one that
\* did not hold the mutex, leaves the invariant alone.
LEMMA RequestStep ==
    ASSUME ShapeInv, UNCHANGED <<file, ragged, synced>>,
           prevHash' \in Nat, seq' \in Nat, built' \in Nat,
           NEW w \in Worker, NEW r \in [pc : {"idle", "audit"}, admin : BOOLEAN],
           req' = [req EXCEPT ![w] = r],
           Unlocked \/ req[w].pc = "written"
    PROVE  ShapeInv'
<1>1. Unlocked'
  BY Zenon DEF ShapeInv, Unlocked
<1> QED BY <1>1, Zenon DEF ShapeInv, Unlocked

\* The same, for a handler that returns.
LEMMA ReturnStep ==
    ASSUME ShapeInv, UNCHANGED <<file, ragged, synced>>,
           prevHash' \in Nat, seq' \in Nat, built' \in Nat,
           NEW w \in Worker, Return(w), Unlocked \/ req[w].pc = "written"
    PROVE  ShapeInv'
<1>1. Idle \in [pc : {"idle", "audit"}, admin : BOOLEAN]
  BY Zenon DEF Idle
<1> HIDE DEF Idle
<1> QED BY <1>1, RequestStep, Zenon DEF Return

\* A write, whole or torn, keeps the acknowledged lines.
LEMMA WriteStep ==
    ASSUME DurableInv, NEW e \in Line, file' = Appended(e), ragged' \in BOOLEAN,
           UNCHANGED <<synced, acked>>
    PROVE  file' \in Seq(Line) /\ file' # <<>> /\ synced' \in 0..Len(file') /\ KeptInv'
<1>1. /\ file' \in Seq(Line) /\ file' # <<>> /\ Len(file) <= Len(file')
      /\ \A i \in 1..Len(file) : Finished(file, ragged, i) =>
           file'[i] = file[i] /\ Finished(file', ragged', i)
  BY WriteFacts, Zenon DEF DurableInv
<1>2. synced \in 0..Len(file) /\ file \in Seq(Line)
  BY Zenon DEF DurableInv, ShapeInv
<1>3. \A i \in 1..synced : i \in 1..Len(file)
  BY <1>2
<1>4. KeptInv'
  <2> SUFFICES ASSUME NEW h \in acked
               PROVE  \E i \in 1..synced : file'[i].hash = h /\ Finished(file', ragged', i)
    BY Zenon DEF KeptInv, Finished
  <2>1. PICK i \in 1..synced : file[i].hash = h /\ Finished(file, ragged, i)
    BY Zenon DEF DurableInv, KeptInv
  <2> QED BY <1>1, <1>3, <2>1, Zenon
<1> QED BY <1>1, <1>2, <1>4

\* Every step preserves the invariant, whatever fails.
LEMMA DurableStep ==
    ASSUME DurableInv, [Next]_vars
    PROVE  DurableInv'
<1> USE DEF DurableInv
<1>1. ASSUME NEW w \in Worker, requireAdmin(w)
      PROVE  DurableInv'
  <2>1. ShapeInv'
    BY <1>1, Zenon DEF requireAdmin, ShapeInv, disk, chain, Unlocked
  <2> QED BY <1>1, <2>1, Zenon DEF requireAdmin, disk, KeptInv, Finished
<1>2. ASSUME NEW w \in Worker, OtherEvent(w)
      PROVE  DurableInv'
  <2>1. ShapeInv'
    BY <1>2, Zenon DEF OtherEvent, ShapeInv, disk, chain, Unlocked
  <2> QED BY <1>2, <2>1, Zenon DEF OtherEvent, disk, KeptInv, Finished
<1>3. ASSUME NEW w \in Worker, AppendDisabled(w)
      PROVE  DurableInv'
  <2>1. ShapeInv'
    <3>1. prevHash' \in Nat /\ seq' \in Nat /\ built' \in Nat
      BY <1>3 DEF AppendDisabled, ShapeInv, chain
    <3> QED BY <1>3, <3>1, ReturnStep, Zenon DEF AppendDisabled, disk
  <2> QED BY <1>3, <2>1, Zenon DEF AppendDisabled, disk, KeptInv, Finished
<1>4. ASSUME NEW w \in Worker, AppendWrite(w)
      PROVE  DurableInv'
  <2> DEFINE e == Entry(seq + 1, prevHash, built + 1)
  <2>1. e \in Line
    BY DEF Entry, Line, ShapeInv
  <2>2. file' = Appended(e) /\ ragged' = FALSE /\ synced' = synced /\ acked' = acked
    BY <1>4, Zenon DEF AppendWrite
  <2> HIDE DEF e
  <2>3. file' \in Seq(Line) /\ file' # <<>> /\ synced' \in 0..Len(file') /\ KeptInv'
    BY <2>1, <2>2, WriteStep, Zenon
  <2>4. \A v, u \in Worker : req'[v].pc = "written" /\ req'[u].pc = "written" => v = u
    BY <1>4, Zenon DEF AppendWrite, Unlocked, ShapeInv
  <2>5. req' \in [Worker -> [pc : {"idle", "audit", "written"}, admin : BOOLEAN]]
    BY <1>4 DEF AppendWrite, ShapeInv
  <2>6. prevHash' \in Nat /\ seq' \in Nat /\ built' \in Nat
    BY <1>4 DEF AppendWrite, ShapeInv
  <2> QED BY <2>2, <2>3, <2>4, <2>5, <2>6, Zenon DEF ShapeInv
<1>5. ASSUME NEW w \in Worker, WriteFailed(w)
      PROVE  DurableInv'
  <2>1. prevHash' \in Nat /\ seq' \in Nat /\ built' \in Nat
    BY <1>5 DEF WriteFailed, ShapeInv, chain
  <2>2. synced' = synced /\ acked' = acked /\ Unlocked /\ Return(w)
    BY <1>5, Zenon DEF WriteFailed
  <2>3. CASE UNCHANGED <<file, ragged>>
    <3>1. ShapeInv'
      BY <2>1, <2>2, <2>3, ReturnStep, Zenon
    <3> QED BY <2>2, <2>3, <3>1, Zenon DEF KeptInv, Finished
  <2>4. CASE /\ ragged' = TRUE
             /\ file' \in {Appended(Garbage), Appended(Entry(seq + 1, prevHash, built + 1))}
    <3>1. Garbage \in Line /\ Entry(seq + 1, prevHash, built + 1) \in Line
      BY DEF Garbage, Entry, Line, ShapeInv, emptyHash
    <3>2. PICK e \in Line : file' = Appended(e)
      BY <2>4, <3>1, Zenon
    <3>3. file' \in Seq(Line) /\ file' # <<>> /\ synced' \in 0..Len(file') /\ KeptInv'
      BY <2>2, <2>4, <3>2, WriteStep, Zenon
    <3>4. Unlocked' /\ req' \in [Worker -> [pc : {"idle", "audit", "written"}, admin : BOOLEAN]]
      BY <2>2, Zenon DEF Return, Idle, Unlocked, ShapeInv
    <3> QED BY <2>1, <2>4, <3>3, <3>4, Zenon DEF ShapeInv, Unlocked
  <2> QED BY <1>5, <2>3, <2>4, Zenon DEF WriteFailed
<1>6. ASSUME NEW w \in Worker, SyncOk(w)
      PROVE  DurableInv'
  <2>1. Unlocked' /\ ~ Unlocked
    BY <1>6, Zenon DEF SyncOk, Return, Idle, Unlocked, ShapeInv
  <2>2. /\ file # <<>> /\ file \in Seq(Line) /\ ragged = FALSE /\ UNCHANGED <<file, ragged>>
        /\ synced' = Len(file) /\ synced \in 0..Len(file)
    BY <1>6, <2>1, Zenon DEF SyncOk, ShapeInv
  <2>3. Len(file) \in 1..Len(file) /\ 1..synced \subseteq 1..Len(file)
    BY <2>2
  <2>4. ShapeInv'
    BY <1>6, <2>1, <2>2, <2>3 DEF SyncOk, Return, Idle, ShapeInv, Unlocked
  <2>5. \A h \in acked' : h \in acked \/ h = file[Len(file)].hash
    BY <1>6, Zenon DEF SyncOk, Acknowledge
  <2>6. KeptInv'
    BY <2>2, <2>3, <2>5, Zenon DEF KeptInv, Finished
  <2> QED BY <2>4, <2>6, Zenon
<1>7. ASSUME NEW w \in Worker, SyncFailed(w)
      PROVE  DurableInv'
  <2>1. ShapeInv'
    <3>1. prevHash' \in Nat /\ seq' \in Nat /\ built' \in Nat
      BY <1>7, Zenon DEF SyncFailed, ShapeInv, chain
    <3> QED BY <1>7, <3>1, ReturnStep, Zenon DEF SyncFailed, disk
  <2> QED BY <1>7, <2>1, Zenon DEF SyncFailed, disk, KeptInv, Finished
<1>8. ASSUME ResetAuditBreaker
      PROVE  DurableInv'
  BY <1>8, Zenon DEF ResetAuditBreaker, ShapeInv, KeptInv, Finished, disk, chain, Unlocked
<1>9. ASSUME NEW d \in Survivors, Restart(d)
      PROVE  DurableInv'
  <2>1. file' = d.file /\ ragged' = d.ragged /\ synced' = d.synced /\ acked' = acked
    BY <1>9, Zenon DEF Restart
  <2>2. /\ d.ragged \in BOOLEAN /\ (d.ragged => d.file # <<>>) /\ d.file \in Seq(Line)
        /\ d.synced \in 0..Len(d.file) /\ synced <= d.synced /\ synced \in Nat
        /\ \A i \in 1..synced :
             /\ d.file[i] = file[i]
             /\ Finished(file, ragged, i) => Finished(d.file, d.ragged, i)
    <3>1. synced \in Nat
      BY DEF ShapeInv
    <3> QED BY <1>9, <3>1, SurvivorFacts, Zenon
  <2>3. Unlocked' /\ req' \in [Worker -> [pc : {"idle", "audit", "written"}, admin : BOOLEAN]]
    BY <1>9, Zenon DEF Restart, Unlocked, Idle
  <2>4. TailHash(d.file) \in Nat /\ TailSeq(d.file) \in Nat
    <3>1. CASE d.file = <<>>
      BY <3>1, Zenon DEF TailHash, TailSeq, emptyHash
    <3>2. CASE d.file # <<>>
      <4>1. d.file[Len(d.file)] \in Line
        BY <2>2, <3>2
      <4> QED BY <3>2, <4>1, Zenon DEF TailHash, TailSeq, Line
    <3> QED BY <3>1, <3>2, Zenon
  <2>5. prevHash' \in Nat /\ seq' \in Nat /\ built' \in Nat
    <3>1. built' \in Nat /\ OpenAuditChain(d.file)
      BY <1>9, Zenon DEF Restart, ShapeInv
    <3>2. \/ prevHash' = TailHash(d.file) /\ seq' = TailSeq(d.file)
          \/ prevHash' = 0 /\ seq' = 0
      BY <3>1, Zenon DEF OpenAuditChain, emptyHash
    <3> QED BY <2>4, <3>1, <3>2
  <2>6. ShapeInv'
    BY <2>1, <2>2, <2>3, <2>5, Zenon DEF ShapeInv, Unlocked
  <2>7. \A i \in 1..synced : i \in 1..d.synced
    BY <2>2
  <2>8. KeptInv'
    BY <2>1, <2>2, <2>7, Zenon DEF KeptInv, Finished
  <2> QED BY <2>6, <2>8, Zenon
<1>10. CASE UNCHANGED vars
  BY <1>10, Zenon DEF vars, ShapeInv, KeptInv, Finished, Unlocked
<1> QED
  BY <1>1, <1>2, <1>3, <1>4, <1>5, <1>6, <1>7, <1>8, <1>9, <1>10, Zenon DEF Next, Handle

\* An entry synced as a line of its own is in the file after any failed, torn or
\* unsynced write, crash or power loss.
THEOREM AppendsDurable == Spec => []AckedDurable
<1>1. Init => DurableInv
  BY DurableInit, Zenon
<1>2. DurableInv /\ [Next]_vars => DurableInv'
  BY DurableStep, Zenon
<1>3. DurableInv => AckedDurable
  BY Zenon DEF DurableInv, KeptInv, AckedDurable
<1> QED BY <1>1, <1>2, <1>3, PTL DEF Spec
-----------------------------------------------------------------------------
\* What makes ChainUnbroken inductive: the memory of an enabled chain agrees with
\* the end of the file, and the holder of the mutex has written its last line.
LinkInv ==
    /\ DurableInv
    /\ ragged = FALSE
    /\ ~ Unlocked => file[Len(file)].hash = built
    /\ Verifies(file)
    /\ \A i \in DOMAIN file : file[i].seq = i
    /\ enabled => seq = Len(file) /\ (Unlocked => prevHash = TailHash(file))
    /\ ~ enabled => Unlocked /\ prevHash = emptyHash

\* The empty chain verifies.
LEMMA LinkInit == Init => LinkInv
<1> SUFFICES ASSUME Init PROVE LinkInv
  BY Zenon
<1>1. file = <<>> /\ ragged = FALSE /\ seq = 0 /\ prevHash = emptyHash /\ DurableInv
  BY DurableInit, Zenon DEF Init
<1>2. Unlocked
  BY Zenon DEF Init, Unlocked, Idle
<1>3. Verifies(file) /\ Len(file) = 0 /\ TailHash(file) = emptyHash /\ DOMAIN file = {}
  BY <1>1 DEF Verifies, TailHash
<1> QED BY <1>1, <1>2, <1>3, Zenon DEF LinkInv

\* The part of LinkInv that depends on the file and the memory only.
LEMMA LinkSame ==
    ASSUME LinkInv, UNCHANGED <<file, ragged, prevHash, seq, enabled>>, DurableInv',
           Unlocked' => Unlocked, Unlocked' \/ (~ Unlocked /\ built' = built)
    PROVE  LinkInv'
BY Zenon DEF LinkInv, Verifies, PrevOf, TailHash, emptyHash

\* The mutex is free before and after a step that only reads, or fails to write.
LEMMA UnlockedThroughout ==
    ASSUME ShapeInv, NEW w \in Worker, requireAdmin(w) \/ WriteFailed(w)
    PROVE  Unlocked /\ Unlocked'
BY DEF requireAdmin, WriteFailed, Return, Idle, Unlocked, ShapeInv

\* A step that does no damage preserves the invariant.
LEMMA LinkStep ==
    ASSUME LinkInv, [Next]_vars, ~ damaged'
    PROVE  LinkInv'
<1>1. DurableInv'
  BY DurableStep, Zenon DEF LinkInv
<1>2. file \in Seq(Line) /\ built \in Nat /\ prevHash \in Nat /\ ShapeInv
  BY Zenon DEF LinkInv, DurableInv, ShapeInv
<1>3. ASSUME NEW w \in Worker, requireAdmin(w) \/ WriteFailed(w)
      PROVE  LinkInv'
  <2>1. UNCHANGED <<file, ragged, prevHash, seq, enabled>>
    BY <1>3, Zenon DEF requireAdmin, WriteFailed, disk, chain
  <2>2. Unlocked /\ Unlocked'
    BY <1>2, <1>3, UnlockedThroughout, Zenon
  <2> QED BY <1>1, <2>1, <2>2, LinkSame, Zenon
<1>4. ASSUME NEW w \in Worker, OtherEvent(w)
      PROVE  LinkInv'
  <2>1. Unlocked' <=> Unlocked
    BY <1>2, <1>4, Zenon DEF OtherEvent, Unlocked, ShapeInv
  <2>2. UNCHANGED <<file, ragged, prevHash, seq, enabled, built>>
    BY <1>4, Zenon DEF OtherEvent, disk, chain
  <2> QED BY <1>1, <2>1, <2>2, LinkSame, Zenon
<1>5. ASSUME NEW w \in Worker, AppendWrite(w)
      PROVE  LinkInv'
  <2> DEFINE e == Entry(seq + 1, prevHash, built + 1)
             n == Len(file) + 1
  <2>0. enabled /\ Unlocked /\ seq = Len(file) /\ prevHash = TailHash(file)
    BY <1>5, Zenon DEF AppendWrite, LinkInv
  <2>1. e \in Line /\ e.ok = TRUE /\ e.seq = n /\ e.prev = TailHash(file) /\ e.hash = built'
    BY <1>2, <1>5, <2>0 DEF Entry, Line, AppendWrite
  <2>2. file' = Append(file, e) /\ ragged' = FALSE
    BY <1>5, Zenon DEF AppendWrite, Appended, LinkInv
  <2> HIDE DEF e
  <2>3. /\ DOMAIN file' = 1..n /\ DOMAIN file = 1..Len(file) /\ Len(file') = n
        /\ file'[n] = e
        /\ \A i \in 1..Len(file) : file'[i] = file[i]
        /\ Len(file) \in Nat
    BY <1>2, <2>1, <2>2, AppendFacts
  <2>4. PrevOf(file', n) = TailHash(file)
    BY <1>2, <2>3 DEF PrevOf, TailHash
  <2>5. \A i \in 1..Len(file) : PrevOf(file', i) = PrevOf(file, i)
    BY <2>3 DEF PrevOf
  <2>6. Verifies(file')
    BY <2>1, <2>3, <2>4, <2>5 DEF Verifies, LinkInv
  <2>7. \A i \in DOMAIN file' : file'[i].seq = i
    BY <2>1, <2>3 DEF LinkInv
  <2>8. enabled' /\ seq' = Len(file')
    BY <1>5, <2>0, <2>3, Zenon DEF AppendWrite
  <2>9. ~ Unlocked'
    BY <1>2, <1>5, Zenon DEF AppendWrite, Unlocked, ShapeInv
  <2>10. Verifies(file)'
    BY <2>6, Zenon DEF Verifies, PrevOf, emptyHash
  <2>11. file'[Len(file')].hash = built'
    BY <2>1, <2>3, Zenon
  <2> QED BY <1>1, <2>2, <2>7, <2>8, <2>9, <2>10, <2>11, Zenon DEF LinkInv
<1>6. ASSUME NEW w \in Worker, SyncOk(w)
      PROVE  LinkInv'
  <2>1. ~ Unlocked
    BY <1>6, Zenon DEF SyncOk, Unlocked
  <2>2. file # <<>> /\ file[Len(file)].hash = built /\ enabled /\ seq = Len(file)
    BY <1>2, <2>1, Zenon DEF ShapeInv, LinkInv
  <2>3. UNCHANGED <<file, ragged, seq, enabled>> /\ prevHash' = built
    BY <1>6, Zenon DEF SyncOk
  <2>4. Unlocked'
    BY <1>2, <1>6, Zenon DEF SyncOk, Return, Idle, Unlocked, ShapeInv
  <2> QED BY <1>1, <2>2, <2>3, <2>4, Zenon DEF LinkInv, Verifies, PrevOf, TailHash, emptyHash
<1>7. ASSUME ResetAuditBreaker
      PROVE  LinkInv'
  <2>1. Unlocked /\ Unlocked'
    BY <1>7, Zenon DEF ResetAuditBreaker, Unlocked
  <2> QED BY <1>1, <1>7, <2>1, LinkSame, Zenon DEF ResetAuditBreaker, disk, chain
<1>8. ASSUME NEW d \in Survivors, Restart(d)
      PROVE  LinkInv'
  <2> DEFINE f == d.file
  <2>0. ~ d.ragged
    BY <1>8, Zenon DEF Restart
  <2>1. f \in Seq(Line) /\ Len(f) <= Len(file) /\ \A i \in 1..Len(f) : f[i] = file[i]
    BY <1>2, <1>8, <2>0, UntornSurvivors, Zenon DEF LinkInv
  <2>2. DOMAIN f = 1..Len(f) /\ DOMAIN file = 1..Len(file) /\ Len(f) \in Nat /\ Len(file) \in Nat
    BY <1>2, <2>1
  <2> HIDE DEF f
  <2>3. \A i \in DOMAIN f : i \in DOMAIN file /\ PrevOf(f, i) = PrevOf(file, i)
    BY <2>1, <2>2 DEF PrevOf
  <2>4. Verifies(f)
    BY <2>1, <2>2, <2>3 DEF Verifies, LinkInv
  <2>5. \A i \in DOMAIN f : f[i].seq = i
    BY <2>1, <2>2, <2>3, Zenon DEF LinkInv
  <2>6. TailSeq(f) = Len(f)
    BY <2>1, <2>2, <2>5 DEF TailSeq
  <2>7. /\ file' = f
        /\ enabled' => prevHash' = TailHash(f) /\ seq' = Len(f)
        /\ ~ enabled' => prevHash' = emptyHash
    BY <1>8, <2>6, Zenon DEF Restart, OpenAuditChain, f
  <2>8. Verifies(file)' /\ TailHash(file)' = TailHash(f)
    BY <2>4, <2>7, Zenon DEF Verifies, PrevOf, TailHash, emptyHash
  <2>9. ragged' = FALSE /\ Unlocked'
    BY <1>2, <1>8, <2>0, UntornSurvivors, Zenon DEF LinkInv, Restart, Unlocked, Idle
  <2> QED BY <1>1, <2>5, <2>7, <2>8, <2>9, Zenon DEF LinkInv
<1>9. CASE UNCHANGED vars
  BY <1>1, <1>9, LinkSame, Zenon DEF vars, Unlocked
<1>10. ASSUME NEW w \in Worker, AppendDisabled(w)
       PROVE  LinkInv'
  <2>1. UNCHANGED <<file, ragged, prevHash, seq, enabled>>
    BY <1>10, Zenon DEF AppendDisabled, disk, chain
  <2>2. Unlocked /\ Unlocked'
    BY <1>2, <1>10, Zenon DEF AppendDisabled, Return, Idle, Unlocked, ShapeInv
  <2> QED BY <1>1, <2>1, <2>2, LinkSame, Zenon
<1>11. ASSUME NEW w \in Worker, SyncFailed(w)
       PROVE  FALSE
  BY <1>11, Zenon DEF SyncFailed
<1> QED
  BY <1>3, <1>4, <1>5, <1>6, <1>7, <1>8, <1>9, <1>10, <1>11, Zenon DEF Next, Handle

\* Damage is for good.
LEMMA DamageStays ==
    ASSUME damaged, [Next]_vars
    PROVE  damaged'
<1>1. ASSUME NEW w \in Worker, Handle(w)
      PROVE  damaged'
  BY <1>1, Zenon DEF Handle, requireAdmin, OtherEvent, AppendDisabled, AppendWrite, WriteFailed,
              SyncOk, SyncFailed
<1> QED BY <1>1, Zenon DEF Next, ResetAuditBreaker, Restart, vars

\* Either damage was done or the chain links up.
IntactInv == ~ damaged => LinkInv

LEMMA IntactInit == Init => IntactInv
BY LinkInit, Zenon DEF IntactInv

LEMMA IntactStep == IntactInv /\ [Next]_vars => IntactInv'
<1> SUFFICES ASSUME IntactInv, [Next]_vars, ~ damaged'
             PROVE  LinkInv'
  BY Zenon DEF IntactInv
<1>1. ~ damaged
  BY DamageStays, Zenon
<1> QED BY <1>1, LinkStep, Zenon DEF IntactInv

\* Until a line is torn or an fsync fails, every file that failed writes, crashes
\* and power losses leave verifies and is numbered without gaps.
THEOREM ChainNeverBreaks == Spec => []ChainUnbroken
<1>1. IntactInv => ChainUnbroken
  BY Zenon DEF IntactInv, LinkInv, ChainUnbroken
<1> QED BY <1>1, IntactInit, IntactStep, PTL DEF Spec

\* Until then the hash and the number in the memory of an enabled chain are those
\* of the last line whenever the mutex is free.
THEOREM TailAlwaysRecovered == Spec => []TailRecovered
<1>1. IntactInv => TailRecovered
  <2> SUFFICES ASSUME LinkInv, enabled PROVE seq = TailSeq(file)
    BY Zenon DEF IntactInv, LinkInv, TailRecovered
  <2>1. file \in Seq(Line)
    BY Zenon DEF LinkInv, DurableInv, ShapeInv
  <2> QED BY <2>1 DEF LinkInv, TailSeq
<1> QED BY <1>1, IntactInit, IntactStep, PTL DEF Spec
-----------------------------------------------------------------------------
(* The breaker *)

\* The admin requests that passed requireAdmin and have not returned.
InFlight == {w \in Worker : req[w].admin}

\* While the breaker is closed every operation that went unlogged is a failure it
\* has counted.  Once it is open, what went unlogged and what may still go
\* unlogged is bounded together.
BreakerInv ==
    /\ consecFails \in Nat /\ unlogged \in Nat
    /\ breakerTripped \in BOOLEAN
    /\ enabled /\ ~ breakerTripped => unlogged <= consecFails /\ consecFails < breakerThreshold
    /\ enabled /\ breakerTripped =>
          unlogged + Cardinality(InFlight) <= breakerThreshold + Cardinality(Worker) - 1

\* Sets of goroutines are finite, and a smaller set has fewer elements.
LEMMA WorkerSets ==
    ASSUME NEW S \in SUBSET Worker
    PROVE  /\ IsFiniteSet(S) /\ Cardinality(S) \in Nat /\ Cardinality(Worker) \in Nat
           /\ Cardinality(S) <= Cardinality(Worker)
           /\ \A T \in SUBSET S : Cardinality(T) \in Nat /\ Cardinality(T) <= Cardinality(S)
           /\ \A w \in S : Cardinality(S \ {w}) = Cardinality(S) - 1
<1>1. IsFiniteSet(Worker) /\ IsFiniteSet(S)
  BY AuditAssumption, FS_Subset, Zenon DEF AuditAssumption
<1>2. Cardinality(S) \in Nat /\ Cardinality(Worker) \in Nat
  BY <1>1, FS_CardinalityType, Zenon
<1>3. Cardinality(S) <= Cardinality(Worker)
  BY <1>1, FS_Subset, Zenon
<1>4. \A T \in SUBSET S : Cardinality(T) \in Nat /\ Cardinality(T) <= Cardinality(S)
  BY <1>1, FS_Subset, FS_CardinalityType, Zenon
<1>5. \A w \in S : Cardinality(S \ {w}) = Cardinality(S) - 1
  BY <1>1, FS_RemoveElement, Zenon
<1> QED BY <1>1, <1>2, <1>3, <1>4, <1>5, Zenon

\* A goroutine returns from an append that failed.
LEMMA FailedAppend ==
    ASSUME ShapeInv, BreakerInv, NEW w \in Worker, bumpBreakerLocked, Return(w), Unlogged(w),
           UNCHANGED enabled
    PROVE  BreakerInv'
<1>1. /\ req' = [req EXCEPT ![w] = Idle] /\ Idle.admin = FALSE
      /\ req \in [Worker -> [pc : {"idle", "audit", "written"}, admin : BOOLEAN]]
  BY Zenon DEF Return, Idle, ShapeInv
<1>2. InFlight' = InFlight \ {w} /\ InFlight \in SUBSET Worker /\ (w \in InFlight <=> req[w].admin)
  BY <1>1, Zenon DEF InFlight
<1>3. consecFails' = consecFails + 1 /\ (consecFails + 1 >= 3 => breakerTripped')
      /\ (breakerTripped => breakerTripped') /\ breakerTripped' \in BOOLEAN
      /\ (breakerTripped' => breakerTripped \/ consecFails + 1 >= 3)
  BY Zenon DEF bumpBreakerLocked, breakerThreshold, BreakerInv
<1>4. unlogged' = (IF w \in InFlight THEN unlogged + 1 ELSE unlogged)
  BY <1>2, Zenon DEF Unlogged
<1>5. consecFails \in Nat /\ unlogged \in Nat /\ consecFails' \in Nat /\ unlogged' \in Nat
      /\ unlogged' <= unlogged + 1
  BY <1>3, <1>4 DEF BreakerInv
<1>6. ASSUME enabled', ~ breakerTripped'
      PROVE  unlogged' <= consecFails' /\ consecFails' < breakerThreshold
  BY <1>3, <1>5, <1>6 DEF BreakerInv, breakerThreshold
<1>7. ASSUME enabled', breakerTripped'
      PROVE  unlogged' + Cardinality(InFlight') <= breakerThreshold + Cardinality(Worker) - 1
  <2>1. /\ Cardinality(InFlight) \in Nat /\ Cardinality(Worker) \in Nat
        /\ Cardinality(InFlight') \in Nat /\ Cardinality(InFlight') <= Cardinality(InFlight)
        /\ w \in InFlight => Cardinality(InFlight') = Cardinality(InFlight) - 1
    BY <1>2, WorkerSets, Zenon
  <2>2. Cardinality(InFlight') <= Cardinality(Worker) - 1
    <3>1. InFlight' \in SUBSET (Worker \ {w}) /\ Worker \ {w} \in SUBSET Worker
      BY <1>2, Zenon
    <3>2. Cardinality(Worker \ {w}) = Cardinality(Worker) - 1
      BY WorkerSets, Zenon
    <3>3. Cardinality(InFlight') <= Cardinality(Worker \ {w})
      BY <3>1, WorkerSets, Zenon
    <3> QED BY <3>2, <3>3, Zenon
  <2>3. CASE breakerTripped
    <3>1. unlogged + Cardinality(InFlight) <= 3 + Cardinality(Worker) - 1
      BY <1>7, <2>3, Zenon DEF BreakerInv, breakerThreshold
    <3>2. CASE w \in InFlight
      BY <1>4, <1>5, <2>1, <3>1, <3>2 DEF breakerThreshold
    <3>3. CASE w \notin InFlight
      BY <1>4, <1>5, <2>1, <3>1, <3>3 DEF breakerThreshold
    <3> QED BY <3>2, <3>3, Zenon
  <2>4. CASE ~ breakerTripped
    <3>1. unlogged <= consecFails /\ consecFails < 3
      BY <1>7, <2>4, Zenon DEF BreakerInv, breakerThreshold
    <3>2. unlogged' <= 3
      BY <1>5, <3>1
    <3> QED BY <1>5, <2>1, <2>2, <3>2 DEF breakerThreshold
  <2> QED BY <2>3, <2>4, Zenon
<1> QED BY <1>3, <1>5, <1>6, <1>7, Zenon DEF BreakerInv

\* Steps that change neither the breaker nor what went unlogged, and let no admin
\* request through an open breaker.
LEMMA BreakerSame ==
    ASSUME BreakerInv, UNCHANGED <<breaker, unlogged, enabled>>,
           breakerTripped => InFlight' \subseteq InFlight
    PROVE  BreakerInv'
<1>1. UNCHANGED <<consecFails, breakerTripped, unlogged, enabled>>
  BY Zenon DEF breaker
<1>2. ASSUME enabled, breakerTripped
      PROVE  unlogged + Cardinality(InFlight') <= breakerThreshold + Cardinality(Worker) - 1
  <2>1. InFlight \in SUBSET Worker /\ InFlight' \in SUBSET InFlight
    BY <1>2, Zenon DEF InFlight
  <2>2. /\ Cardinality(InFlight) \in Nat /\ Cardinality(Worker) \in Nat
        /\ Cardinality(InFlight') \in Nat /\ Cardinality(InFlight') <= Cardinality(InFlight)
    BY <2>1, WorkerSets, Zenon
  <2> QED BY <1>2, <2>2 DEF BreakerInv, breakerThreshold
<1> QED BY <1>1, <1>2 DEF BreakerInv

\* Every step keeps the count.
LEMMA BreakerStep ==
    ASSUME ShapeInv, BreakerInv, [Next]_vars
    PROVE  BreakerInv'
<1>0. req \in [Worker -> [pc : {"idle", "audit", "written"}, admin : BOOLEAN]]
  BY Zenon DEF ShapeInv
<1>1. ASSUME NEW w \in Worker, requireAdmin(w) PROVE BreakerInv'
  BY <1>1, BreakerSame, Zenon DEF requireAdmin, chain
<1>2. ASSUME NEW w \in Worker, OtherEvent(w) PROVE BreakerInv'
  <2>1. InFlight' \subseteq InFlight
    BY <1>0, <1>2, Zenon DEF OtherEvent, InFlight
  <2> QED BY <1>2, <2>1, BreakerSame, Zenon DEF OtherEvent, chain
<1>3. ASSUME NEW w \in Worker, AppendDisabled(w) PROVE BreakerInv'
  <2>1. ~ enabled /\ enabled' = enabled /\ UNCHANGED <<consecFails, breakerTripped>>
        /\ unlogged' \in Nat
    BY <1>3 DEF AppendDisabled, Unlogged, chain, breaker, BreakerInv
  <2> QED BY <2>1, Zenon DEF BreakerInv
<1>4. ASSUME NEW w \in Worker, AppendWrite(w) PROVE BreakerInv'
  <2>1. InFlight' \subseteq InFlight
    BY <1>0, <1>4, Zenon DEF AppendWrite, InFlight
  <2> QED BY <1>4, <2>1, BreakerSame, Zenon DEF AppendWrite
<1>5. ASSUME NEW w \in Worker, WriteFailed(w) PROVE BreakerInv'
  BY <1>5, FailedAppend, Zenon DEF WriteFailed, chain
<1>6. ASSUME NEW w \in Worker, SyncOk(w) PROVE BreakerInv'
  <2>1. InFlight' \subseteq InFlight
    BY <1>0, <1>6, Zenon DEF SyncOk, Return, Idle, InFlight
  <2>2. consecFails' = 0 /\ unlogged' = 0 /\ UNCHANGED <<breakerTripped, enabled>>
    BY <1>6, Zenon DEF SyncOk
  <2>3. ASSUME enabled, breakerTripped
        PROVE  0 + Cardinality(InFlight') <= breakerThreshold + Cardinality(Worker) - 1
    <3>1. InFlight \in SUBSET Worker /\ InFlight' \in SUBSET InFlight
      BY <2>1, Zenon DEF InFlight
    <3>2. /\ Cardinality(InFlight) \in Nat /\ Cardinality(Worker) \in Nat
          /\ Cardinality(InFlight') \in Nat /\ Cardinality(InFlight') <= Cardinality(InFlight)
      BY <3>1, WorkerSets, Zenon
    <3> QED BY <2>3, <3>2 DEF BreakerInv, breakerThreshold
  <2> QED BY <2>2, <2>3 DEF BreakerInv, breakerThreshold
<1>7. ASSUME NEW w \in Worker, SyncFailed(w) PROVE BreakerInv'
  BY <1>7, FailedAppend, Zenon DEF SyncFailed, chain
<1>8. ASSUME consecFails' = 0, unlogged' = 0, breakerTripped' = FALSE PROVE BreakerInv'
  <2>1. breakerTripped' \in BOOLEAN /\ ~ breakerTripped'
    BY <1>8, Zenon
  <2> QED BY <1>8, <2>1 DEF BreakerInv, breakerThreshold
<1>9. ASSUME ResetAuditBreaker \/ \E d \in Survivors : Restart(d) PROVE BreakerInv'
  BY <1>8, <1>9, Zenon DEF ResetAuditBreaker, Restart
<1>10. CASE UNCHANGED vars
  BY <1>10, BreakerSame, Zenon DEF vars, breaker, InFlight
<1> QED
  BY <1>1, <1>2, <1>3, <1>4, <1>5, <1>6, <1>7, <1>9, <1>10, Zenon DEF Next, Handle

\* With any number of goroutines, at most breakerThreshold admin operations go
\* unlogged one after the other, and one more for each request that was already
\* past requireAdmin when the breaker opened.
THEOREM UnloggedStaysBounded == Spec => []UnloggedBounded
<1>1. Init => BreakerInv
  <2> SUFFICES ASSUME Init PROVE BreakerInv
    BY Zenon
  <2>1. breakerTripped \in BOOLEAN /\ ~ breakerTripped
    BY Zenon DEF Init
  <2>2. consecFails = 0 /\ unlogged = 0
    BY Zenon DEF Init
  <2> QED BY <2>1, <2>2 DEF BreakerInv, breakerThreshold
<1>2. DurableInv /\ BreakerInv /\ [Next]_vars => BreakerInv'
  BY BreakerStep, Zenon DEF DurableInv
<1>3. BreakerInv => UnloggedBounded
  <2> SUFFICES ASSUME BreakerInv, enabled
               PROVE  unlogged <= breakerThreshold + Cardinality(Worker) - 1
    BY Zenon DEF UnloggedBounded
  <2>1. InFlight \in SUBSET Worker
    BY Zenon DEF InFlight
  <2>2. Cardinality(InFlight) \in Nat /\ Cardinality(Worker) \in Nat
    BY <2>1, WorkerSets, Zenon
  <2> QED BY <2>2 DEF BreakerInv, breakerThreshold
<1> QED BY <1>1, <1>2, <1>3, DurableInit, DurableStep, PTL DEF Spec

\* No append, successful or not, closes the breaker.
THEOREM BreakerStaysOpen == Spec => BreakerLatched
<1>1. ASSUME NEW w \in Worker, breakerTripped, Handle(w) PROVE breakerTripped'
  BY <1>1, Zenon DEF Handle, requireAdmin, OtherEvent, AppendDisabled, AppendWrite, WriteFailed,
              SyncOk, SyncFailed, bumpBreakerLocked, breaker
<1>2. [\A w \in Worker : breakerTripped /\ Handle(w) => breakerTripped']_vars
  BY <1>1, Zenon
<1> QED BY <1>2, PTL DEF BreakerLatched
-----------------------------------------------------------------------------
(* The witness *)

\* No two lines of the file have the same hash.
HashInv ==
    /\ \A i \in DOMAIN file : file[i].hash <= built
    /\ \A i, j \in DOMAIN file : file[i].hash = file[j].hash => i = j

\* A pin names the number and the hash of one entry; a hash that was handed out
\* never comes back.
Named(c) ==
    /\ c.tail \in Nat /\ c.tail <= built
    /\ \A i \in DOMAIN file : file[i].hash = c.tail => file[i].seq = c.seq

\* What a step that does no damage does to the file.
LEMMA FileMoves ==
    ASSUME LinkInv, [Next]_vars, ~ damaged'
    PROVE  /\ built \in Nat /\ built' \in Nat /\ built <= built'
           /\ \/ UNCHANGED <<file, synced, restarts>> /\ (Unlocked' => Unlocked)
              \/ UNCHANGED <<file, restarts>> /\ synced' = Len(file)
              \/ /\ \E e \in Line : file' = Append(file, e) /\ e.hash = built + 1
                 /\ built' = built + 1 /\ UNCHANGED <<synced, restarts>> /\ ~ Unlocked'
              \/ \E d \in Survivors : Restart(d) /\ ~ d.ragged
<1>0. ShapeInv /\ built \in Nat /\ prevHash \in Nat /\ seq \in Nat
  BY Zenon DEF LinkInv, DurableInv, ShapeInv
<1>1. ASSUME NEW w \in Worker, requireAdmin(w) \/ WriteFailed(w) \/ AppendDisabled(w)
      PROVE  UNCHANGED <<file, synced, restarts>> /\ (Unlocked' => Unlocked)
             /\ built' \in Nat /\ built <= built'
  BY <1>0, <1>1 DEF requireAdmin, WriteFailed, AppendDisabled, disk, chain
<1>2. ASSUME NEW w \in Worker, OtherEvent(w)
      PROVE  UNCHANGED <<file, synced, restarts, built>> /\ (Unlocked' => Unlocked)
  BY <1>0, <1>2, Zenon DEF OtherEvent, Unlocked, ShapeInv, disk
<1>3. ASSUME NEW w \in Worker, AppendWrite(w)
      PROVE  /\ \E e \in Line : file' = Append(file, e) /\ e.hash = built + 1
             /\ built' = built + 1 /\ UNCHANGED <<synced, restarts>> /\ ~ Unlocked'
  <2> DEFINE e == Entry(seq + 1, prevHash, built + 1)
  <2>1. e \in Line /\ e.hash = built + 1
    BY <1>0 DEF Entry, Line
  <2>2. file' = Append(file, e)
    BY <1>3, Zenon DEF AppendWrite, Appended, LinkInv
  <2> HIDE DEF e
  <2>3. ~ Unlocked'
    BY <1>0, <1>3, Zenon DEF AppendWrite, Unlocked, ShapeInv
  <2> QED BY <1>3, <2>1, <2>2, <2>3, Zenon DEF AppendWrite
<1>4. ASSUME NEW w \in Worker, SyncOk(w)
      PROVE  UNCHANGED <<file, restarts, built>> /\ synced' = Len(file)
  BY <1>4, Zenon DEF SyncOk
<1>5. ASSUME NEW w \in Worker, SyncFailed(w) PROVE FALSE
  BY <1>5, Zenon DEF SyncFailed
<1>6. CASE ResetAuditBreaker
  BY <1>0, <1>6 DEF ResetAuditBreaker, disk
<1>7. ASSUME NEW d \in Survivors, Restart(d) PROVE ~ d.ragged /\ built' = built
  BY <1>7, Zenon DEF Restart
<1>8. CASE UNCHANGED vars
  BY <1>0, <1>8 DEF vars, Unlocked
<1>9. ASSUME NEW w \in Worker, Handle(w)
      PROVE  /\ built' \in Nat /\ built <= built'
             /\ \/ UNCHANGED <<file, synced, restarts>> /\ (Unlocked' => Unlocked)
                \/ UNCHANGED <<file, restarts>> /\ synced' = Len(file)
                \/ /\ \E e \in Line : file' = Append(file, e) /\ e.hash = built + 1
                   /\ built' = built + 1 /\ UNCHANGED <<synced, restarts>> /\ ~ Unlocked'
  <2>1. CASE requireAdmin(w) \/ WriteFailed(w) \/ AppendDisabled(w)
    BY <1>1, <2>1, Zenon
  <2>2. CASE OtherEvent(w)
    BY <1>0, <1>2, <2>2
  <2>3. CASE AppendWrite(w)
    BY <1>0, <1>3, <2>3
  <2>4. CASE SyncOk(w)
    BY <1>0, <1>4, <2>4
  <2> QED BY <1>5, <1>9, <2>1, <2>2, <2>3, <2>4, Zenon DEF Handle
<1> QED BY <1>0, <1>6, <1>7, <1>8, <1>9 DEF Next

\* Lines stay what they are or carry a hash that is new.
LEMMA LinesOld ==
    ASSUME LinkInv, [Next]_vars, ~ damaged'
    PROVE  \A i \in DOMAIN file' :
             \/ i \in DOMAIN file /\ file'[i] = file[i]
             \/ i = Len(file) + 1 /\ file'[i].hash = built + 1 /\ built' = built + 1
<1>0. ShapeInv /\ file \in Seq(Line) /\ ragged = FALSE
  BY Zenon DEF LinkInv, DurableInv, ShapeInv
<1>1. CASE UNCHANGED file
  BY <1>1, Zenon
<1>2. CASE /\ \E e \in Line : file' = Append(file, e) /\ e.hash = built + 1
           /\ built' = built + 1
  <2>1. PICK e \in Line : file' = Append(file, e) /\ e.hash = built + 1
    BY <1>2, Zenon
  <2>2. /\ file' \in Seq(Line) /\ Len(file') = Len(file) + 1 /\ file'[Len(file) + 1] = e
        /\ \A i \in 1..Len(file) : file'[i] = file[i]
    BY <1>0, <2>1, AppendFacts, Zenon
  <2>3. DOMAIN file' = 1..(Len(file) + 1) /\ DOMAIN file = 1..Len(file) /\ Len(file) \in Nat
    BY <1>0, <2>2
  <2> QED BY <1>2, <2>1, <2>2, <2>3
<1>3. CASE \E d \in Survivors : Restart(d) /\ ~ d.ragged
  <2>1. PICK d \in Survivors : Restart(d) /\ ~ d.ragged
    BY <1>3, Zenon
  <2>2. /\ d.file \in Seq(Line) /\ Len(d.file) <= Len(file)
        /\ \A i \in 1..Len(d.file) : d.file[i] = file[i]
    BY <1>0, <2>1, UntornSurvivors, Zenon
  <2>3. DOMAIN d.file = 1..Len(d.file) /\ DOMAIN file = 1..Len(file)
        /\ Len(file) \in Nat /\ Len(d.file) \in Nat
    BY <1>0, <2>2
  <2>4. file' = d.file
    BY <2>1, Zenon DEF Restart
  <2> QED BY <2>2, <2>3, <2>4
<1> QED BY <1>1, <1>2, <1>3, FileMoves, Zenon

\* Hashes stay unique, and a pin stays the pin of one entry.
LEMMA NamedStep ==
    ASSUME LinkInv, HashInv, [Next]_vars, ~ damaged'
    PROVE  HashInv' /\ \A c : Named(c) => Named(c)'
<1>1. /\ \A i \in DOMAIN file' :
           \/ i \in DOMAIN file /\ file'[i] = file[i]
           \/ i = Len(file) + 1 /\ file'[i].hash = built + 1 /\ built' = built + 1
      /\ built \in Nat /\ built' \in Nat /\ built <= built'
  BY LinesOld, FileMoves, Zenon
<1>2. \A i \in DOMAIN file : file[i].hash \in Nat
  <2>1. file \in Seq(Line)
    BY Zenon DEF LinkInv, DurableInv, ShapeInv
  <2>2. \A i \in DOMAIN file : file[i] \in Line
    BY <2>1
  <2> QED BY <2>2, Zenon DEF Line
<1>3. HashInv'
  BY <1>1, <1>2 DEF HashInv
<1>4. ASSUME NEW c, Named(c) PROVE Named(c)'
  BY <1>1, <1>2, <1>4 DEF Named
<1> QED BY <1>3, <1>4, Zenon

\* The pins on GarudaChain and the one on its way there.
PinInv ==
    /\ LinkInv /\ HashInv
    /\ \A c \in commits : Named(c)
    /\ wit.pc # "idle" => Named(wit.pin)

\* The snapshot is taken under the mutex, so it is the pin of the last entry.
LEMMA SnapshotNamed ==
    ASSUME LinkInv, HashInv, Snapshot
    PROVE  /\ wit'.pin.seq = Len(file) /\ Len(file) \in DOMAIN file
           /\ wit'.pin.tail = file[Len(file)].hash /\ Named(wit'.pin)
<1>0. Unlocked /\ prevHash # emptyHash
  BY Zenon DEF Snapshot
<1>1. file \in Seq(Line) /\ prevHash = TailHash(file) /\ seq = Len(file) /\ prevHash # emptyHash
  BY <1>0, Zenon DEF LinkInv, DurableInv, ShapeInv
<1>2. wit'.pin.seq = seq /\ wit'.pin.tail = prevHash
  BY Zenon DEF Snapshot, Pin
<1>3. file # <<>> /\ prevHash = file[Len(file)].hash
  BY <1>1, Zenon DEF TailHash
<1>4. Len(file) \in DOMAIN file /\ file[Len(file)] \in Line
  BY <1>1, <1>3
<1>5. prevHash \in Nat /\ prevHash <= built
  BY <1>3, <1>4, Zenon DEF Line, HashInv
<1>6. \A i \in DOMAIN file : file[i].hash = prevHash => file[i].seq = seq
  BY <1>1, <1>3, <1>4, Zenon DEF HashInv, LinkInv
<1> QED BY <1>1, <1>2, <1>3, <1>4, <1>5, <1>6, Zenon DEF Named

\* Every step of the service, of the witness and of a restart keeps the pins true.
LEMMA PinStep ==
    ASSUME ~ damaged => PinInv, [WNext]_wvars, ~ damaged'
    PROVE  PinInv'
<1>1. [Next]_vars
  BY DEF WNext, Serve, Next, Witness, Snapshot, BroadcastOk, BroadcastFailed, Record, WRestart,
         wvars
<1>2. PinInv
  BY <1>1, DamageStays, Zenon
<1>3. LinkInv' /\ HashInv' /\ \A c : Named(c) => Named(c)'
  BY <1>1, <1>2, LinkStep, NamedStep, Zenon DEF PinInv
<1>4. CASE UNCHANGED <<wit, commits>>
  BY <1>2, <1>3, <1>4, Zenon DEF PinInv
<1>5. CASE Snapshot
  <2>1. Named(wit'.pin)
    BY <1>2, <1>5, SnapshotNamed, Zenon DEF PinInv
  <2>2. Named(wit.pin)'
    BY <1>5, <2>1, Zenon DEF Snapshot, vars, Named
  <2>3. commits' = commits
    BY <1>5, Zenon DEF Snapshot
  <2> QED BY <1>2, <1>3, <2>2, <2>3, Zenon DEF PinInv
<1>6. CASE BroadcastOk
  <2>1. wit'.pin = wit.pin /\ wit.pc # "idle" /\ commits' = commits \cup {wit.pin}
    BY <1>6 DEF BroadcastOk
  <2> QED BY <1>2, <1>3, <2>1, Zenon DEF PinInv
<1>7. CASE BroadcastFailed \/ Record \/ \E d \in Survivors : WRestart(d)
  <2>1. wit'.pc = "idle"
    BY <1>7 DEF BroadcastFailed, Record, WRestart, Sleeping
  <2>2. \A c \in commits' : c \in commits \/ (c = wit.pin /\ wit.pc # "idle")
    BY <1>7, Zenon DEF BroadcastFailed, Record, WRestart
  <2> QED BY <1>2, <1>3, <2>1, <2>2, Zenon DEF PinInv
<1> QED BY <1>4, <1>5, <1>6, <1>7, Zenon DEF WNext, Witness, wvars

LEMMA PinInit == WInit => PinInv
<1> SUFFICES ASSUME WInit PROVE PinInv
  BY Zenon
<1>1. Init /\ commits = {} /\ wit.pc = "idle" /\ file = <<>>
  BY Zenon DEF WInit, Init, Sleeping
<1>2. HashInv
  BY <1>1 DEF HashInv
<1> QED BY <1>1, <1>2, LinkInit, Zenon DEF PinInv

\* However requests, snapshots, broadcasts and restarts interleave, and whatever
\* entries a power loss takes away, a commitment never gives the number of one
\* entry and the hash of another, as long as no line is torn and no fsync fails.
THEOREM CommitmentsNameOneEntry == WSpec => []PinsOneEntry
<1>1. WInit => (~ damaged => PinInv)
  BY PinInit, Zenon
<1>2. (~ damaged => PinInv) /\ [WNext]_wvars => (~ damaged => PinInv)'
  BY PinStep, Zenon
<1>3. (~ damaged => PinInv) => PinsOneEntry
  BY Zenon DEF PinInv, Named, PinsOneEntry
<1> QED BY <1>1, <1>2, <1>3, PTL DEF WSpec

\* A restart does not sync the lines it finds, so what a process that was killed
\* had written but not synced is lost to a power failure of the next one.  One of
\* the two has to be excluded for a commitment to be kept.
StopsOnce == "power" \notin Faults \/ MaxRestarts <= 1

\* The lines that no stop to come can take away.
Safe == IF "power" \in Faults /\ restarts = 0 THEN synced ELSE Len(file)

\* The pinned entry is in the file and stays there.
Pinned(c) == c.seq \in 1..Safe /\ file[c.seq].hash = c.tail

\* Before the first restart every line is synced when the mutex is free.
SyncInv == restarts \in Nat /\ (restarts = 0 /\ Unlocked => synced = Len(file))

\* Safe lines stay, and stay safe.
LEMMA SafeStep ==
    ASSUME StopsOnce, LinkInv, SyncInv, [Next]_vars, ~ damaged'
    PROVE  SyncInv' /\ \A i \in 1..Safe : i \in 1..Safe' /\ file'[i] = file[i]
<1>0. ShapeInv /\ file \in Seq(Line) /\ Len(file) \in Nat /\ synced \in 0..Len(file) /\ restarts \in Nat
  <2>1. ShapeInv /\ file \in Seq(Line) /\ synced \in 0..Len(file) /\ restarts \in Nat
    BY Zenon DEF LinkInv, DurableInv, ShapeInv, SyncInv
  <2>2. Len(file) \in Nat
    BY <2>1
  <2> QED BY <2>1, <2>2, Zenon
<1>1. CASE UNCHANGED <<file, synced, restarts>> /\ (Unlocked' => Unlocked)
  BY <1>0, <1>1, Zenon DEF SyncInv, Safe
<1>2. CASE UNCHANGED <<file, restarts>> /\ synced' = Len(file)
  BY <1>0, <1>2 DEF SyncInv, Safe
<1>3. CASE /\ \E e \in Line : file' = Append(file, e)
           /\ UNCHANGED <<synced, restarts>> /\ ~ Unlocked'
  <2>1. /\ Len(file') = Len(file) + 1
        /\ \A i \in 1..Len(file) : file'[i] = file[i]
    BY <1>0, <1>3, AppendFacts
  <2> QED BY <1>0, <1>3, <2>1 DEF SyncInv, Safe
<1>4. CASE \E d \in Survivors : Restart(d)
  <2>1. PICK d \in Survivors : Restart(d)
    BY <1>4, Zenon
  <2>2. file' = d.file /\ restarts' = restarts + 1 /\ restarts < MaxRestarts
    BY <2>1, Zenon DEF Restart
  <2>3. SyncInv'
    BY <1>0, <2>2 DEF SyncInv
  <2>4. Safe' = Len(d.file)
    BY <1>0, <2>2 DEF Safe
  <2>5. CASE "power" \in Faults
    <3>1. restarts = 0 /\ Safe = synced
      BY <1>0, <2>2, <2>5, AuditAssumption DEF StopsOnce, Safe, AuditAssumption
    <3>2. /\ d.synced \in 0..Len(d.file) /\ synced <= d.synced /\ d.file \in Seq(Line)
          /\ \A i \in 1..synced : d.file[i] = file[i]
      BY <1>0, <2>1, SurvivorFacts, Zenon
    <3>3. Len(d.file) \in Nat
      BY <3>2
    <3>4. synced <= Len(d.file)
      BY <1>0, <3>2, <3>3
    <3> QED BY <1>0, <2>2, <2>3, <2>4, <3>1, <3>2, <3>3, <3>4
  <2>6. CASE "power" \notin Faults
    <3>1. d.file = file
      BY <2>6 DEF Survivors, Killed, Remains
    <3> QED BY <2>2, <2>3, <2>4, <2>6, <3>1, Zenon DEF Safe
  <2> QED BY <2>5, <2>6, Zenon
<1> QED BY <1>1, <1>2, <1>3, <1>4, FileMoves, Zenon

\* What is pinned is safe.
CommitInv ==
    /\ SyncInv
    /\ \A c \in commits : Pinned(c)
    /\ wit.pc # "idle" => Pinned(wit.pin)

\* A snapshot pins the last line, which is synced unless the process was restarted.
LEMMA CommitStep ==
    ASSUME StopsOnce, PinInv, CommitInv, [WNext]_wvars, ~ damaged'
    PROVE  CommitInv'
<1>1. [Next]_vars
  BY DEF WNext, Serve, Next, Witness, Snapshot, BroadcastOk, BroadcastFailed, Record, WRestart,
         wvars
<1>2. SyncInv' /\ \A c : Pinned(c) => Pinned(c)'
  BY <1>1, SafeStep, Zenon DEF PinInv, CommitInv, Pinned
<1>3. CASE UNCHANGED <<wit, commits>>
  BY <1>2, <1>3, Zenon DEF CommitInv
<1>4. CASE Snapshot
  <2>1. /\ wit'.pin.seq = Len(file) /\ Len(file) \in DOMAIN file
        /\ wit'.pin.tail = file[Len(file)].hash
    BY <1>4, SnapshotNamed, Zenon DEF PinInv
  <2>2. Safe = Len(file)
    BY <1>4, Zenon DEF Snapshot, CommitInv, SyncInv, Safe
  <2>3. file \in Seq(Line)
    BY Zenon DEF PinInv, LinkInv, DurableInv, ShapeInv
  <2>4. Pinned(wit'.pin)
    BY <2>1, <2>2, <2>3 DEF Pinned
  <2>5. Pinned(wit.pin)'
    BY <1>4, <2>4, Zenon DEF Snapshot, vars, Pinned, Safe
  <2>6. commits' = commits
    BY <1>4, Zenon DEF Snapshot
  <2> QED BY <1>2, <2>5, <2>6, Zenon DEF CommitInv
<1>5. CASE BroadcastOk
  <2>1. wit'.pin = wit.pin /\ wit.pc # "idle" /\ commits' = commits \cup {wit.pin}
    BY <1>5 DEF BroadcastOk
  <2> QED BY <1>2, <2>1, Zenon DEF CommitInv
<1>6. CASE BroadcastFailed \/ Record \/ \E d \in Survivors : WRestart(d)
  <2>1. wit'.pc = "idle"
    BY <1>6 DEF BroadcastFailed, Record, WRestart, Sleeping
  <2>2. \A c \in commits' : c \in commits \/ (c = wit.pin /\ wit.pc # "idle")
    BY <1>6, Zenon DEF BroadcastFailed, Record, WRestart
  <2> QED BY <1>2, <2>1, <2>2, Zenon DEF CommitInv
<1> QED BY <1>3, <1>4, <1>5, <1>6, Zenon DEF WNext, Witness, wvars

\* As long as no line is torn and no fsync fails, what the witness committed to
\* GarudaChain stays in the file under its number: without power failures through
\* any number of restarts, with them through one.
THEOREM CommitmentsKept ==
    ASSUME StopsOnce
    PROVE  WSpec => []CommittedKept
<1> DEFINE I == ~ damaged => PinInv /\ CommitInv
<1>1. WInit => I
  <2> SUFFICES ASSUME WInit PROVE CommitInv
    BY PinInit, Zenon
  <2>1. commits = {} /\ wit.pc = "idle" /\ file = <<>> /\ synced = 0 /\ restarts = 0
    BY Zenon DEF WInit, Init, Sleeping
  <2> QED BY <2>1, Zenon DEF CommitInv, SyncInv
<1>2. I /\ [WNext]_wvars => I'
  <2> SUFFICES ASSUME I, [WNext]_wvars, ~ damaged' PROVE PinInv' /\ CommitInv'
    BY Zenon
  <2>1. [Next]_vars
    BY DEF WNext, Serve, Next, Witness, Snapshot, BroadcastOk, BroadcastFailed, Record, WRestart,
           wvars
  <2>2. PinInv /\ CommitInv
    BY <2>1, DamageStays, Zenon
  <2> QED BY <2>2, PinStep, CommitStep, Zenon
<1>3. I => CommittedKept
  <2> SUFFICES ASSUME LinkInv, CommitInv PROVE CommittedKept
    BY Zenon DEF PinInv, CommittedKept
  <2>1. file \in Seq(Line) /\ synced \in 0..Len(file)
    BY Zenon DEF LinkInv, DurableInv, ShapeInv
  <2>2. \A c \in commits : c.seq \in DOMAIN file /\ file[c.seq].hash = c.tail
    BY <2>1 DEF CommitInv, Pinned, Safe
  <2> QED BY <2>2, Zenon DEF CommittedKept
<1> HIDE DEF I
<1> QED BY <1>1, <1>2, <1>3, PTL DEF WSpec
=============================================================================
