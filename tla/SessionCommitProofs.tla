------------------------ MODULE SessionCommitProofs ------------------------
(***************************************************************************)
(* Proofs about SessionCommit for one process at a time: it may die        *)
(* between any two file operations and be started again, for any number of *)
(* turns and whichever of them cannot be encoded.  With two processes the  *)
(* session is not safe, as a run shows, so OneProcess is a hypothesis of   *)
(* every theorem.                                                          *)
(*                                                                         *)
(* The refinement needs to know at each point of a save what is in the     *)
(* temporary file, and what the turns in memory are next to those on disk: *)
(* IInv says so.  A turn that cannot be encoded stays in memory and bars   *)
(* every later save, hence "where every turn can be encoded" throughout.   *)
(***************************************************************************)
EXTENDS SessionCommit, SequenceTheorems, FiniteSetTheorems, TLAPS

USE TurnsAssumption

OneProcess == \E p : Processes = {p}

Encodable(s) == Range(s) \cap Unencodable = {}

\* Where a turn is in memory and not on disk, and where it is on disk.
Unsaved == {"saving", "opened", "written", "failing"}
Saved == {"replaced", "tracing"}

\* The live file can be read; its turns are distinct and none is still to come.
LiveIsLog ==
    /\ Loadable
    /\ \A i \in 1..Len(Loaded) : Loaded[i] < nextTurn
    /\ \A i, j \in 1..Len(Loaded) : i # j => Loaded[i] # Loaded[j]

\* What the process is writing to is the temporary file, and what it has in it.
TmpIsOurs ==
    \A p \in Processes :
        /\ pc[p] # "opened" => fd[p] = NoInode
        /\ pc[p] = "opened" =>
               fd[p] = name.tmp /\ name.tmp \in Inodes /\ data[name.tmp] = Blank
        /\ pc[p] = "written" =>
               /\ Encodable(turns[p])
               /\ name.tmp # NoInode => data[name.tmp] = Snapshot(turns[p])

\* The turns in memory are those on disk, or those and the one that is being
\* saved, which is the latest.
MemoryIsLog ==
    \A p \in Processes :
        /\ pc[p] = "idle" /\ Encodable(turns[p]) => turns[p] = Loaded
        /\ pc[p] \in Unsaved =>
               /\ turns[p] # << >>
               /\ Last(turns[p]) = nextTurn - 1
               /\ Encodable(Front(turns[p])) => Front(turns[p]) = Loaded
               /\ \A i \in 1..Len(Loaded) : Loaded[i] < nextTurn - 1
        /\ pc[p] \in Saved => turns[p] # << >> /\ turns[p] = Loaded
        /\ pc[p] = "failing" =>
               \/ error[p] = "OSError"
               \/ error[p] = "UnicodeEncodeError" /\ ~Encodable(turns[p])

IInv == TypeOK /\ LiveIsLog /\ TmpIsOurs /\ MemoryIsLog

-----------------------------------------------------------------------------

\* A sequence with an element at its end: what is before it and what it is.
LEMMA AppendedTurn ==
    ASSUME NEW s \in Seq(Turns), NEW t \in Turns
    PROVE  /\ Append(s, t) \in Seq(Turns) /\ Append(s, t) # << >>
           /\ Front(Append(s, t)) = s /\ Last(Append(s, t)) = t
           /\ Range(Append(s, t)) = Range(s) \cup {t}
<1>1. /\ Append(s, t) \in Seq(Turns) /\ Append(s, t) # << >>
      /\ Len(Append(s, t)) = Len(s) + 1 /\ Append(s, t)[Len(s) + 1] = t
      /\ \A i \in 1..Len(s) : Append(s, t)[i] = s[i]
  BY AppendProperties
<1>2. Len(s) \in Nat
  BY LenProperties
<1>3. Front(Append(s, t)) = s
  <2>1. Front(Append(s, t)) = SubSeq(Append(s, t), 1, Len(s))
    BY <1>1, <1>2 DEF Front
  <2>2. \A i \in 1..Len(s) : Append(s, t)[i] \in Turns
    BY <1>1, ElementOfSeq
  <2>3. /\ SubSeq(Append(s, t), 1, Len(s)) \in Seq(Turns)
        /\ Len(SubSeq(Append(s, t), 1, Len(s))) = Len(s)
        /\ \A i \in 1..Len(s) : SubSeq(Append(s, t), 1, Len(s))[i] = s[i]
    BY <1>1, <1>2, <2>2, SubSeqProperties
  <2> QED BY <2>1, <2>3, SeqEqual
<1>4. Range(Append(s, t)) = Range(s) \cup {t}
  <2>1. Range(Append(s, t)) = {Append(s, t)[i] : i \in 1..Len(s) + 1}
    BY <1>1, RangeEquality
  <2>2. Range(s) = {s[i] : i \in 1..Len(s)}
    BY RangeEquality
  <2> QED BY <1>1, <1>2, <2>1, <2>2
<1> QED BY <1>1, <1>2, <1>3, <1>4 DEF Last

\* A sequence that is not empty is its front with its last element at the end.
LEMMA FrontAndLast ==
    ASSUME NEW s \in Seq(Turns), s # << >>
    PROVE  /\ Front(s) \in Seq(Turns) /\ Last(s) \in Turns
           /\ s = Append(Front(s), Last(s))
           /\ Last(s) \in Range(s) /\ Range(Front(s)) \subseteq Range(s)
<1>1. PICK f \in Seq(Turns), t \in Turns : s = Append(f, t)
  BY SequenceEmptyOrAppend
<1> QED BY <1>1, AppendedTurn

\* One process, three inodes: one is free when the temporary file is not there.
LEMMA FreeInodeIsThere ==
    ASSUME OneProcess, TypeOK, name.tmp = NoInode, \A p \in Processes : fd[p] = NoInode
    PROVE  FreeInode \in Inodes /\ FreeInode # name.live
<1>1. Cardinality(Processes) = 1
  BY FS_Singleton DEF OneProcess
<1>2. Inodes = {1, 2, 3}
  BY <1>1 DEF Inodes
<1>3. InUse = {name.live, NoInode}
  BY DEF InUse, OneProcess
<1>4. \E i \in Inodes \ InUse : \A j \in Inodes \ InUse : i <= j
  <2>1. CASE name.live = 1
    BY <1>2, <1>3, <2>1 DEF NoInode
  <2>2. CASE name.live # 1
    BY <1>2, <1>3, <2>2 DEF NoInode
  <2> QED BY <2>1, <2>2
<1>5. FreeInode \in Inodes \ InUse
  BY <1>4 DEF FreeInode, Min
<1> QED BY <1>3, <1>5

-----------------------------------------------------------------------------

\* A step that leaves the live file alone leaves what a load returns alone.
LEMMA LiveUntouched ==
    ASSUME name'.live = name.live,
           name.live # NoInode => data'[name.live] = data[name.live]
    PROVE  Loaded' = Loaded /\ (Loadable => Loadable')
BY DEF Loaded, Loadable, Inodes, NoInode

\* The types of what the lemmas below look at.
LEMMA Types ==
    ASSUME TypeOK, NEW p \in Processes
    PROVE  /\ turns[p] \in Seq(Turns) /\ Loaded \in Seq(Turns)
           /\ nextTurn \in Nat /\ name.live \in Inodes \cup {NoInode}
           /\ name.tmp \in Inodes \cup {NoInode} /\ NoInode \notin Inodes
           /\ name = [live |-> name.live, tmp |-> name.tmp]
<1>1. /\ turns[p] \in Seq(Turns) /\ nextTurn \in Nat
      /\ name \in [live : Inodes \cup {NoInode}, tmp : Inodes \cup {NoInode}]
      /\ NoInode \notin Inodes
  BY DEF TypeOK, NoInode, Inodes
<1>2. Loaded \in Seq(Turns)
  <2>1. CASE name.live = NoInode
    BY <2>1 DEF Loaded
  <2>2. CASE name.live # NoInode
    BY <1>1, <2>2 DEF Loaded, TypeOK
  <2> QED BY <2>1, <2>2
<1> QED BY <1>1, <1>2

LEMMA InitInv ==
    ASSUME OneProcess, Init PROVE IInv
<1>1. Loaded = << >> /\ Loadable
  BY DEF Init, Loaded, Loadable, Inodes, NoInode
<1>2. TypeOK
  <2>1. Blank \in [kind : {"empty", "torn", "snapshot"}, turns : Seq(Turns)]
    BY DEF Blank
  <2>2. nextTurn \in 1..(MaxTurns + 1)
    BY DEF Init
  <2> QED BY <2>1, <2>2 DEF Init, TypeOK, NoInode
<1>3. LiveIsLog
  BY <1>1 DEF LiveIsLog
<1>4. TmpIsOurs /\ MemoryIsLog
  BY DEF Init, TmpIsOurs, MemoryIsLog, Unsaved, Saved
<1> QED BY <1>2, <1>3, <1>4 DEF IInv

LEMMA OpenSessionInv ==
    ASSUME OneProcess, IInv, NEW p \in Processes, OpenSession(p)
    PROVE  IInv'
<1>1. /\ pc[p] = "closed" /\ turns' = [turns EXCEPT ![p] = Loaded]
      /\ pc' = [pc EXCEPT ![p] = "idle"]
      /\ UNCHANGED <<name, data, fd, error, nextTurn, returned, traced>>
  BY DEF OpenSession
<1>2. Loaded' = Loaded /\ Loadable' = Loadable
  BY <1>1 DEF Loaded, Loadable
<1>3. TypeOK'
  BY <1>1, Types DEF IInv, TypeOK
<1>4. LiveIsLog'
  BY <1>1, <1>2 DEF IInv, LiveIsLog
<1>5. \A q \in Processes : q = p
  BY DEF OneProcess
<1>6. pc'[p] = "idle" /\ turns'[p] = Loaded
  BY <1>1 DEF IInv, TypeOK
<1>7. TmpIsOurs'
  BY <1>1, <1>5, <1>6 DEF IInv, TmpIsOurs
<1>8. MemoryIsLog'
  BY <1>2, <1>5, <1>6 DEF MemoryIsLog, Unsaved, Saved
<1> QED BY <1>3, <1>4, <1>7, <1>8 DEF IInv

LEMMA CompleteInv ==
    ASSUME OneProcess, IInv, NEW p \in Processes, Complete(p)
    PROVE  IInv'
<1>1. /\ pc[p] = "idle" /\ nextTurn \in Turns
      /\ turns' = [turns EXCEPT ![p] = Append(@, nextTurn)]
      /\ nextTurn' = nextTurn + 1
      /\ pc' = [pc EXCEPT ![p] = "saving"]
      /\ UNCHANGED <<name, data, fd, error, returned, traced>>
  BY DEF Complete
<1>2. Loaded' = Loaded /\ Loadable' = Loadable
  BY <1>1 DEF Loaded, Loadable
<1>3. /\ turns'[p] = Append(turns[p], nextTurn) /\ pc'[p] = "saving"
      /\ turns[p] \in Seq(Turns) /\ turns'[p] \in Seq(Turns)
      /\ turns'[p] # << >> /\ Front(turns'[p]) = turns[p] /\ Last(turns'[p]) = nextTurn
  <2>1. turns'[p] = Append(turns[p], nextTurn) /\ pc'[p] = "saving"
    BY <1>1 DEF IInv, TypeOK
  <2>2. turns[p] \in Seq(Turns)
    BY DEF IInv, TypeOK
  <2> QED BY <1>1, <2>1, <2>2, AppendedTurn
<1>4. nextTurn \in Nat /\ nextTurn' - 1 = nextTurn /\ nextTurn' \in 1..(MaxTurns + 1)
  BY <1>1 DEF Turns
<1>5. TypeOK'
  BY <1>1, <1>3, <1>4 DEF IInv, TypeOK
<1>6. LiveIsLog'
  <2>1. \A i \in 1..Len(Loaded) : Loaded[i] \in Nat
    BY Types, ElementOfSeq DEF IInv, Turns
  <2>2. \A i \in 1..Len(Loaded) : Loaded[i] < nextTurn
    BY DEF IInv, LiveIsLog
  <2>3. \A i \in 1..Len(Loaded) : Loaded[i] < nextTurn + 1
    BY <1>4, <2>1, <2>2
  <2>4. \A i \in 1..Len(Loaded) : Loaded[i] < nextTurn'
    BY <1>1, <2>3
  <2> QED BY <1>2, <2>4 DEF IInv, LiveIsLog
<1>7. \A q \in Processes : q = p
  BY DEF OneProcess
<1>8. TmpIsOurs'
  BY <1>1, <1>3, <1>7 DEF IInv, TmpIsOurs
<1>9. MemoryIsLog'
  <2>1. Encodable(turns[p]) => turns[p] = Loaded
    BY <1>1 DEF IInv, MemoryIsLog
  <2>2. \A i \in 1..Len(Loaded) : Loaded[i] < nextTurn
    BY DEF IInv, LiveIsLog
  <2> QED BY <1>2, <1>3, <1>4, <1>7, <2>1, <2>2 DEF MemoryIsLog, Unsaved, Saved
<1> QED BY <1>5, <1>6, <1>8, <1>9 DEF IInv

\* A file operation before the rename: it may create or change the temporary
\* file, never the live one, and leaves the turn unsaved.
LEMMA UnsavedInv ==
    ASSUME OneProcess, IInv, NEW p \in Processes,
           pc[p] \in Unsaved, NEW l \in Unsaved, pc' = [pc EXCEPT ![p] = l],
           UNCHANGED <<turns, nextTurn, returned, traced>>,
           TypeOK', TmpIsOurs',
           name'.live = name.live,
           name.live # NoInode => data'[name.live] = data[name.live],
           l = "failing" => \/ error'[p] = "OSError"
                            \/ error'[p] = "UnicodeEncodeError" /\ ~Encodable(turns[p])
    PROVE  IInv'
<1>1. Loaded' = Loaded /\ (Loadable => Loadable')
  BY LiveUntouched
<1>2. LiveIsLog'
  BY <1>1 DEF IInv, LiveIsLog
<1>3. \A q \in Processes : q = p
  BY DEF OneProcess
<1>4. pc'[p] = l
  BY DEF IInv, TypeOK
<1>5. MemoryIsLog'
  BY <1>1, <1>3, <1>4 DEF IInv, MemoryIsLog, Unsaved, Saved
<1> QED BY <1>2, <1>5 DEF IInv

LEMMA OpenTmpInv ==
    ASSUME OneProcess, IInv, NEW p \in Processes, OpenTmp(p)
    PROVE  IInv'
<1> DEFINE i == IF name.tmp = NoInode THEN FreeInode ELSE name.tmp
<1>1. /\ pc[p] = "saving" /\ name' = [name EXCEPT !.tmp = i]
      /\ data' = [data EXCEPT ![i] = Blank] /\ fd' = [fd EXCEPT ![p] = i]
      /\ pc' = [pc EXCEPT ![p] = "opened"]
      /\ UNCHANGED <<turns, error, nextTurn, returned, traced>>
  BY DEF OpenTmp
<1>2. \A q \in Processes : q = p
  BY DEF OneProcess
<1>3. i \in Inodes /\ i # name.live
  <2>1. fd[p] = NoInode
    BY <1>1 DEF IInv, TmpIsOurs
  <2>2. CASE name.tmp = NoInode
    BY <1>2, <2>1, <2>2, FreeInodeIsThere DEF IInv
  <2>3. CASE name.tmp # NoInode
    BY <2>3, Types DEF IInv, TypeOK
  <2> QED BY <2>2, <2>3
<1>4. /\ name' = [live |-> name.live, tmp |-> i] /\ fd'[p] = i /\ data'[i] = Blank
      /\ pc'[p] = "opened"
  BY <1>1, <1>3, Types DEF IInv, TypeOK
<1>5. TypeOK'
  <2>1. Blank \in [kind : {"empty", "torn", "snapshot"}, turns : Seq(Turns)]
    BY DEF Blank
  <2>2. data' \in [Inodes -> [kind : {"empty", "torn", "snapshot"}, turns : Seq(Turns)]]
    BY <1>1, <2>1 DEF IInv, TypeOK
  <2>3. name' \in [live : Inodes \cup {NoInode}, tmp : Inodes \cup {NoInode}]
    BY <1>3, <1>4, Types DEF IInv
  <2>4. fd' \in [Processes -> Inodes \cup {NoInode}]
    BY <1>1, <1>3 DEF IInv, TypeOK
  <2> QED BY <1>1, <1>3, <1>4, <2>2, <2>3, <2>4 DEF IInv, TypeOK
<1>6. TmpIsOurs'
  BY <1>2, <1>3, <1>4 DEF TmpIsOurs
<1>7. name.live # NoInode => data'[name.live] = data[name.live]
  BY <1>1, <1>3, Types DEF IInv, TypeOK
<1> QED BY <1>1, <1>4, <1>5, <1>6, <1>7, UnsavedInv DEF Unsaved

\* The three ways an OSError or a text without encoding ends a save; only the
\* temporary file can have changed.
LEMMA FailsInv ==
    ASSUME OneProcess, IInv, NEW p \in Processes,
           OpenTmpFails(p) \/ WriteTmpFails(p) \/ ReplaceTmpFails(p)
    PROVE  IInv'
<1>1. PICK class \in {"OSError", "UnicodeEncodeError"} :
         Fails(p, class) /\ (class = "OSError" \/ ~Encodable(turns[p]))
  BY DEF OpenTmpFails, WriteTmpFails, ReplaceTmpFails, Encodable
<1>2. /\ pc[p] \in {"saving", "opened", "written"}
      /\ UNCHANGED <<name, turns, nextTurn, returned, traced>>
      /\ \/ data' = data
         \/ /\ pc[p] = "opened"
            /\ \E partial \in {data[fd[p]], Torn} : data' = [data EXCEPT ![fd[p]] = partial]
  BY DEF OpenTmpFails, WriteTmpFails, ReplaceTmpFails
<1>3. \A q \in Processes : q = p
  BY DEF OneProcess
<1>4. pc'[p] = "failing" /\ error'[p] = class /\ fd'[p] = NoInode
  BY <1>1 DEF Fails, IInv, TypeOK
<1> DEFINE Contents == [kind : {"empty", "torn", "snapshot"}, turns : Seq(Turns)]
           LiveKept == name.live # NoInode => data'[name.live] = data[name.live]
<1>5. data' \in [Inodes -> Contents] /\ LiveKept
  <2>1. CASE data' = data
    BY <2>1 DEF IInv, TypeOK
  <2>2. ASSUME pc[p] = "opened", NEW partial \in {data[fd[p]], Torn},
               data' = [data EXCEPT ![fd[p]] = partial]
        PROVE  data' \in [Inodes -> Contents] /\ LiveKept
    <3>1. fd[p] \in Inodes /\ fd[p] # name.live
      BY <2>2, Types DEF IInv, TmpIsOurs, TypeOK
    <3>2. data[fd[p]] \in Contents
      BY <3>1 DEF IInv, TypeOK
    <3>3. Torn \in Contents
      BY DEF Torn
    <3>4. partial \in Contents
      BY <2>2, <3>2, <3>3
    <3> QED BY <2>2, <3>1, <3>4 DEF IInv, TypeOK
  <2> QED BY <1>2, <2>1, <2>2
<1>6. TypeOK'
  <2>1. /\ pc' \in [Processes -> {"closed", "idle", "saving", "opened", "written", "replaced",
                                  "failing", "tracing"}]
        /\ error' \in [Processes -> {"none", "OSError", "UnicodeEncodeError"}]
        /\ fd' \in [Processes -> Inodes \cup {NoInode}]
    BY <1>1 DEF Fails, IInv, TypeOK
  <2> QED BY <1>2, <1>5, <2>1 DEF IInv, TypeOK
<1>7. TmpIsOurs'
  BY <1>3, <1>4 DEF TmpIsOurs
<1>8. pc' = [pc EXCEPT ![p] = "failing"]
  BY <1>1 DEF Fails
<1> QED BY <1>1, <1>2, <1>4, <1>5, <1>6, <1>7, <1>8, UnsavedInv DEF Unsaved

LEMMA WriteTmpInv ==
    ASSUME OneProcess, IInv, NEW p \in Processes, WriteTmp(p)
    PROVE  IInv'
<1>1. /\ pc[p] = "opened" /\ Encodable(turns[p])
      /\ fd' = [fd EXCEPT ![p] = NoInode] /\ pc' = [pc EXCEPT ![p] = "written"]
      /\ UNCHANGED <<name, turns, error, nextTurn, returned, traced>>
  BY DEF WriteTmp, Encodable
<1>2. \A q \in Processes : q = p
  BY DEF OneProcess
<1>3. fd[p] = name.tmp /\ name.tmp \in Inodes /\ data[fd[p]] = Blank /\ name.tmp # name.live
  BY <1>1, Types DEF IInv, TmpIsOurs, TypeOK
<1>4. data' = [data EXCEPT ![name.tmp] = Snapshot(turns[p])]
  BY <1>3 DEF WriteTmp
<1>5. fd'[p] = NoInode /\ pc'[p] = "written"
  BY <1>1 DEF IInv, TypeOK
<1>6. TypeOK'
  <2>1. Snapshot(turns[p]) \in [kind : {"empty", "torn", "snapshot"}, turns : Seq(Turns)]
    BY Types DEF IInv, Snapshot
  <2> QED BY <1>1, <1>4, <2>1 DEF IInv, TypeOK
<1>7. data'[name.tmp] = Snapshot(turns[p])
  BY <1>3, <1>4 DEF IInv, TypeOK
<1>8. TmpIsOurs'
  BY <1>1, <1>2, <1>5, <1>7 DEF TmpIsOurs
<1>9. name.live # NoInode => data'[name.live] = data[name.live]
  BY <1>3, <1>4, Types DEF IInv, TypeOK
<1> QED BY <1>1, <1>6, <1>8, <1>9, UnsavedInv DEF Unsaved

\* The rename: the snapshot in the temporary file becomes the live one, which is
\* the turns on disk with the latest turn at their end.
LEMMA ReplaceTmpStep ==
    ASSUME OneProcess, IInv, NEW p \in Processes, ReplaceTmp(p)
    PROVE  /\ Loaded' = turns[p] /\ Loadable'
           /\ turns[p] = Append(Loaded, nextTurn - 1)
           /\ nextTurn - 1 \in Turns
           /\ \A i \in 1..Len(Loaded) : Loaded[i] < nextTurn - 1
<1>1. /\ pc[p] = "written" /\ name.tmp # NoInode
      /\ name' = [live |-> name.tmp, tmp |-> NoInode] /\ data' = data
  BY DEF ReplaceTmp
<1>2. Encodable(turns[p]) /\ data[name.tmp] = Snapshot(turns[p])
  BY <1>1 DEF IInv, TmpIsOurs
<1>3. Loaded' = turns[p] /\ Loadable'
  BY <1>1, <1>2 DEF Loaded, Loadable, Snapshot
<1>4. /\ turns[p] # << >> /\ Last(turns[p]) = nextTurn - 1
      /\ Encodable(Front(turns[p])) => Front(turns[p]) = Loaded
      /\ \A i \in 1..Len(Loaded) : Loaded[i] < nextTurn - 1
  BY <1>1 DEF IInv, MemoryIsLog, Unsaved
<1>5. /\ Last(turns[p]) \in Turns /\ turns[p] = Append(Front(turns[p]), Last(turns[p]))
      /\ Range(Front(turns[p])) \subseteq Range(turns[p])
  BY <1>4, FrontAndLast, Types DEF IInv
<1>6. Encodable(Front(turns[p]))
  BY <1>2, <1>5 DEF Encodable
<1> QED BY <1>3, <1>4, <1>5, <1>6

LEMMA ReplaceTmpInv ==
    ASSUME OneProcess, IInv, NEW p \in Processes, ReplaceTmp(p)
    PROVE  IInv'
<1>1. /\ pc[p] = "written" /\ name.tmp # NoInode
      /\ name' = [live |-> name.tmp, tmp |-> NoInode]
      /\ pc' = [pc EXCEPT ![p] = "replaced"]
      /\ UNCHANGED <<data, turns, fd, error, nextTurn, returned, traced>>
  BY DEF ReplaceTmp
<1>2. \A q \in Processes : q = p
  BY DEF OneProcess
<1>3. TypeOK'
  BY <1>1, Types DEF IInv, TypeOK
<1>4. /\ Loaded \in Seq(Turns) /\ Len(Loaded) \in Nat /\ nextTurn \in Nat
      /\ \A i \in 1..Len(Loaded) : Loaded[i] \in Nat
  BY Types, ElementOfSeq, LenProperties DEF IInv, Turns
<1>5. /\ Len(turns[p]) = Len(Loaded) + 1 /\ turns[p][Len(Loaded) + 1] = nextTurn - 1
      /\ \A i \in 1..Len(Loaded) : turns[p][i] = Loaded[i]
      /\ turns[p] # << >>
  BY <1>4, ReplaceTmpStep, AppendProperties
<1>6. LiveIsLog'
  <2>1. \A i \in 1..Len(turns[p]) : turns[p][i] < nextTurn
    BY <1>4, <1>5, ReplaceTmpStep
  <2>2. \A i, j \in 1..Len(turns[p]) : i # j => turns[p][i] # turns[p][j]
    <3> TAKE i, j \in 1..Len(turns[p])
    <3> HAVE i # j
    <3>1. CASE i <= Len(Loaded) /\ j <= Len(Loaded)
      BY <1>4, <1>5, <3>1 DEF IInv, LiveIsLog
    <3>2. CASE i = Len(Loaded) + 1 \/ j = Len(Loaded) + 1
      BY <1>4, <1>5, <3>2, ReplaceTmpStep
    <3> QED BY <1>4, <1>5, <3>1, <3>2
  <2> QED BY <1>1, <2>1, <2>2, ReplaceTmpStep DEF LiveIsLog
<1>7. pc'[p] = "replaced"
  BY <1>1 DEF IInv, TypeOK
<1>8. TmpIsOurs'
  BY <1>1, <1>2, <1>7 DEF IInv, TmpIsOurs
<1>9. MemoryIsLog'
  BY <1>1, <1>2, <1>5, <1>7, ReplaceTmpStep DEF MemoryIsLog, Unsaved, Saved
<1> QED BY <1>3, <1>6, <1>8, <1>9 DEF IInv

\* Removing the temporary file, or failing to, leaves the live one alone.
LEMMA UnlinkedTypes ==
    ASSUME TypeOK, NEW p \in Processes, name' \in Unlinked
    PROVE  /\ name' \in [live : Inodes \cup {NoInode}, tmp : Inodes \cup {NoInode}]
           /\ name'.live = name'.tmp => name'.live = NoInode
           /\ name'.live = name.live
BY Types DEF Unlinked, TypeOK

LEMMA SaveRaisesInv ==
    ASSUME OneProcess, IInv, NEW p \in Processes, SaveRaises(p)
    PROVE  IInv'
<1>1. /\ pc[p] = "failing" /\ name' \in Unlinked
      /\ turns' = IF error[p] = "OSError" THEN [turns EXCEPT ![p] = Front(@)] ELSE turns
      /\ pc' = [pc EXCEPT ![p] = "idle"]
      /\ error' = [error EXCEPT ![p] = "none"]
      /\ UNCHANGED <<data, fd, nextTurn, returned, traced>>
  BY DEF SaveRaises
<1>2. \A q \in Processes : q = p
  BY DEF OneProcess
<1>3. Loaded' = Loaded /\ Loadable' /\ name'.live = name.live
  BY <1>1, UnlinkedTypes, LiveUntouched DEF IInv, LiveIsLog
<1>4. /\ turns[p] # << >> /\ turns[p] \in Seq(Turns) /\ Front(turns[p]) \in Seq(Turns)
      /\ Encodable(Front(turns[p])) => Front(turns[p]) = Loaded
      /\ error[p] = "OSError" \/ ~Encodable(turns[p])
  BY <1>1, FrontAndLast, Types DEF IInv, MemoryIsLog, Unsaved
<1>5. /\ pc'[p] = "idle"
      /\ turns'[p] = IF error[p] = "OSError" THEN Front(turns[p]) ELSE turns[p]
  BY <1>1 DEF IInv, TypeOK
<1>6. TypeOK'
  <2>1. turns' \in [Processes -> Seq(Turns)]
    BY <1>1, <1>4 DEF IInv, TypeOK
  <2> QED BY <1>1, <2>1, UnlinkedTypes DEF IInv, TypeOK
<1>7. LiveIsLog'
  BY <1>1, <1>3 DEF IInv, LiveIsLog
<1>8. TmpIsOurs'
  BY <1>1, <1>2, <1>5 DEF IInv, TmpIsOurs
<1>9. MemoryIsLog'
  BY <1>2, <1>3, <1>4, <1>5 DEF MemoryIsLog, Unsaved, Saved
<1> QED BY <1>6, <1>7, <1>8, <1>9 DEF IInv

\* After the rename: save returns, the trace is written, the call returns.
LEMMA SavedInv ==
    ASSUME OneProcess, IInv, NEW p \in Processes,
           SaveReturns(p) \/ TraceAndReturn(p) \/ TraceFails(p)
    PROVE  IInv'
<1>1. /\ pc[p] \in Saved /\ name' \in Unlinked
      /\ \E l \in {"tracing", "idle"} : pc' = [pc EXCEPT ![p] = l]
      /\ UNCHANGED <<data, turns, fd, error, nextTurn>>
  BY DEF SaveReturns, TraceAndReturn, TraceFails, Saved, Unlinked
<1>2. \A q \in Processes : q = p
  BY DEF OneProcess
<1>3. turns[p] = Loaded /\ turns[p] # << >>
  BY <1>1 DEF IInv, MemoryIsLog
<1>4. Loaded' = Loaded /\ Loadable' /\ name'.live = name.live
  BY <1>1, UnlinkedTypes, LiveUntouched DEF IInv, LiveIsLog
<1>5. pc'[p] \in {"tracing", "idle"}
  BY <1>1 DEF IInv, TypeOK
<1>6. TypeOK'
  <2>1. returned' \subseteq Turns /\ traced' \subseteq Turns
    BY <1>3, FrontAndLast, Types
       DEF SaveReturns, TraceAndReturn, TraceFails, IInv, TypeOK
  <2> QED BY <1>1, <2>1, UnlinkedTypes DEF IInv, TypeOK
<1>7. LiveIsLog'
  BY <1>1, <1>4 DEF IInv, LiveIsLog
<1>8. TmpIsOurs'
  BY <1>1, <1>2, <1>5 DEF IInv, TmpIsOurs, Saved
<1>9. MemoryIsLog'
  BY <1>1, <1>2, <1>3, <1>4, <1>5 DEF MemoryIsLog, Unsaved, Saved
<1> QED BY <1>6, <1>7, <1>8, <1>9 DEF IInv

\* The death of the process tears at most what it was writing, which is not the
\* live file.
LEMMA ExitInv ==
    ASSUME OneProcess, IInv, NEW p \in Processes, Exit(p)
    PROVE  IInv'
<1>1. /\ data' \in {data} \cup {[data EXCEPT ![i] = Torn] : i \in {fd[p]} \ {NoInode}}
      /\ pc' = [pc EXCEPT ![p] = "closed"]
      /\ turns' = [turns EXCEPT ![p] = << >>]
      /\ fd' = [fd EXCEPT ![p] = NoInode]
      /\ error' = [error EXCEPT ![p] = "none"]
      /\ UNCHANGED <<name, nextTurn, returned, traced>>
  BY DEF Exit
<1>2. \A q \in Processes : q = p
  BY DEF OneProcess
<1> DEFINE Contents == [kind : {"empty", "torn", "snapshot"}, turns : Seq(Turns)]
<1>3. /\ data' \in [Inodes -> Contents]
      /\ name.live # NoInode => data'[name.live] = data[name.live]
  <2>1. CASE data' = data
    BY <2>1 DEF IInv, TypeOK
  <2>2. CASE fd[p] # NoInode /\ data' = [data EXCEPT ![fd[p]] = Torn]
    <3>1. fd[p] \in Inodes /\ fd[p] # name.live
      BY <2>2, Types DEF IInv, TmpIsOurs, TypeOK
    <3>2. Torn \in Contents
      BY DEF Torn
    <3> QED BY <2>2, <3>1, <3>2 DEF IInv, TypeOK
  <2> QED BY <1>1, <2>1, <2>2
<1>4. Loaded' = Loaded /\ Loadable'
  BY <1>1, <1>3, LiveUntouched DEF IInv, LiveIsLog
<1>5. pc'[p] = "closed" /\ fd'[p] = NoInode
  BY <1>1 DEF IInv, TypeOK
<1>6. TypeOK'
  <2>1. turns' \in [Processes -> Seq(Turns)]
    BY <1>1 DEF IInv, TypeOK
  <2> QED BY <1>1, <1>3, <2>1 DEF IInv, TypeOK
<1>7. LiveIsLog'
  BY <1>1, <1>4 DEF IInv, LiveIsLog
<1>8. TmpIsOurs' /\ MemoryIsLog'
  BY <1>2, <1>5 DEF TmpIsOurs, MemoryIsLog, Unsaved, Saved
<1> QED BY <1>6, <1>7, <1>8 DEF IInv

LEMMA NextInv ==
    ASSUME OneProcess PROVE IInv /\ [Next]_vars => IInv'
<1> SUFFICES ASSUME IInv, [Next]_vars PROVE IInv'
  OBVIOUS
<1>1. ASSUME NEW p \in Processes, OpenSession(p) PROVE IInv'
  BY <1>1, OpenSessionInv
<1>2. ASSUME NEW p \in Processes, Complete(p) PROVE IInv'
  BY <1>2, CompleteInv
<1>3. ASSUME NEW p \in Processes, OpenTmp(p) PROVE IInv'
  BY <1>3, OpenTmpInv
<1>4. ASSUME NEW p \in Processes, OpenTmpFails(p) \/ WriteTmpFails(p) \/ ReplaceTmpFails(p)
      PROVE  IInv'
  BY <1>4, FailsInv
<1>5. ASSUME NEW p \in Processes, WriteTmp(p) PROVE IInv'
  BY <1>5, WriteTmpInv
<1>6. ASSUME NEW p \in Processes, ReplaceTmp(p) PROVE IInv'
  BY <1>6, ReplaceTmpInv
<1>7. ASSUME NEW p \in Processes, SaveRaises(p) PROVE IInv'
  BY <1>7, SaveRaisesInv
<1>8. ASSUME NEW p \in Processes, SaveReturns(p) \/ TraceAndReturn(p) \/ TraceFails(p)
      PROVE  IInv'
  BY <1>8, SavedInv
<1>9. ASSUME NEW p \in Processes, Exit(p) PROVE IInv'
  BY <1>9, ExitInv
<1>10. CASE UNCHANGED vars
  BY <1>10 DEF vars, IInv, TypeOK, LiveIsLog, TmpIsOurs, MemoryIsLog, Loaded, Loadable
<1> QED BY <1>1, <1>2, <1>3, <1>4, <1>5, <1>6, <1>7, <1>8, <1>9, <1>10 DEF Next

LEMMA CommitInv ==
    ASSUME OneProcess PROVE Spec => []IInv
<1>1. Init => IInv
  BY InitInv
<1>2. IInv /\ [Next]_vars => IInv'
  BY NextInv
<1> QED BY <1>1, <1>2, PTL DEF Spec

-----------------------------------------------------------------------------

\* Every variable keeps its type, and the live and the temporary name never
\* stand for one file.
THEOREM TypeCorrect ==
    ASSUME OneProcess PROVE Spec => []TypeOK
<1>1. IInv => TypeOK
  BY DEF IInv
<1> QED BY <1>1, CommitInv, PTL

\* A session object at rest holds the turns the next load will see, after every
\* failed save and every crash (session.py, _commit_turn).
THEOREM IdleIsOnDisk ==
    ASSUME OneProcess PROVE Spec => []IdleMatchesDisk
<1>1. IInv => IdleMatchesDisk
  BY DEF IInv, MemoryIsLog, IdleMatchesDisk, Encodable
<1> QED BY <1>1, CommitInv, PTL

\* Before the rename and after it no file operation changes what a load returns.
LEMMA LoadedKept ==
    ASSUME OneProcess, IInv, NEW p \in Processes,
           \/ OpenSession(p) \/ Complete(p) \/ OpenTmp(p) \/ OpenTmpFails(p) \/ WriteTmp(p)
           \/ WriteTmpFails(p) \/ ReplaceTmpFails(p) \/ SaveReturns(p) \/ SaveRaises(p) \/ Exit(p)
    PROVE  Loaded' = Loaded
<1>1. /\ fd[p] # name.live \/ fd[p] = NoInode
      /\ pc[p] = "opened" => fd[p] \in Inodes
      /\ name \in [live : Inodes \cup {NoInode}, tmp : Inodes \cup {NoInode}]
      /\ data \in [Inodes -> [kind : {"empty", "torn", "snapshot"}, turns : Seq(Turns)]]
  BY DEF IInv, TmpIsOurs, TypeOK
<1>2. CASE OpenSession(p) \/ Complete(p) \/ OpenTmpFails(p) \/ ReplaceTmpFails(p)
  BY <1>2 DEF OpenSession, Complete, OpenTmpFails, ReplaceTmpFails, Loaded
<1>3. CASE SaveReturns(p) \/ SaveRaises(p)
  BY <1>1, <1>3 DEF SaveReturns, SaveRaises, Unlinked, Loaded
<1>4. CASE OpenTmp(p)
  <2> DEFINE i == IF name.tmp = NoInode THEN FreeInode ELSE name.tmp
  <2>1. i # name.live
    BY <1>4, FreeInodeIsThere, Types DEF OpenTmp, IInv, TmpIsOurs, TypeOK, OneProcess
  <2>2. name' = [name EXCEPT !.tmp = i] /\ data' = [data EXCEPT ![i] = Blank]
    BY <1>4 DEF OpenTmp
  <2>3. name'.live = name.live /\ (name.live # NoInode => data'[name.live] = data[name.live])
    BY <1>1, <2>1, <2>2
  <2> QED BY <2>3, LiveUntouched
<1>5. CASE WriteTmp(p) \/ WriteTmpFails(p) \/ Exit(p)
  <2>1. NoInode \notin Inodes
    BY DEF NoInode, Inodes
  <2> DEFINE Kept == name' = name /\ (name.live # NoInode => data'[name.live] = data[name.live])
  <2>2. ASSUME WriteTmp(p) PROVE Kept
    <3>1. PICK written : data' = [data EXCEPT ![fd[p]] = written]
      BY <2>2 DEF WriteTmp
    <3>2. name' = name /\ fd[p] # name.live
      BY <1>1, <2>1, <2>2 DEF WriteTmp
    <3> QED BY <1>1, <3>1, <3>2
  <2>3. ASSUME WriteTmpFails(p) PROVE Kept
    <3>1. data' = data \/ \E partial : data' = [data EXCEPT ![fd[p]] = partial]
      BY <2>3 DEF WriteTmpFails
    <3>2. name' = name /\ fd[p] # name.live
      BY <1>1, <2>1, <2>3 DEF WriteTmpFails
    <3> QED BY <1>1, <3>1, <3>2
  <2>4. ASSUME Exit(p) PROVE Kept
    <3>1. data' = data \/ (fd[p] # NoInode /\ data' = [data EXCEPT ![fd[p]] = Torn])
      BY <2>4 DEF Exit
    <3>2. name' = name
      BY <2>4 DEF Exit
    <3> QED BY <1>1, <3>1, <3>2
  <2>5. Kept
    BY <1>5, <2>2, <2>3, <2>4
  <2> QED BY <2>5, LiveUntouched
<1> QED BY <1>2, <1>3, <1>4, <1>5

\* Every step of a save, a failure or a crash is a step of the log or none: only
\* the rename records a turn, and what a caller or the trace knows of is on disk.
LEMMA StepRefines ==
    ASSUME OneProcess, IInv, [Next]_vars
    PROVE  [Log!Next]_<<Loaded, returned, traced>>
<1> USE DEF Log!Logged
<1>1. ASSUME NEW p \in Processes, ReplaceTmp(p) PROVE Log!Record(nextTurn - 1)
  <2>1. returned' = returned /\ traced' = traced
    BY <1>1 DEF ReplaceTmp
  <2>2. nextTurn - 1 \notin Log!Logged
    BY <1>1, ReplaceTmpStep, Types, ElementOfSeq DEF IInv, Turns
  <2> QED BY <1>1, <2>1, <2>2, ReplaceTmpStep DEF Log!Record
<1>2. ASSUME NEW p \in Processes, TraceAndReturn(p) \/ TraceFails(p)
      PROVE  Last(turns[p]) \in Turns /\ Log!Settle(Last(turns[p]))
  <2>1. turns[p] = Loaded /\ turns[p] # << >>
    BY <1>2 DEF TraceAndReturn, TraceFails, IInv, MemoryIsLog, Saved
  <2>2. Last(Loaded) \in Turns /\ Last(Loaded) \in Log!Logged
    BY <2>1, Types, FrontAndLast, RangeEquality DEF IInv
  <2>3. Loaded' = Loaded
    BY <1>2 DEF TraceAndReturn, TraceFails, Loaded
  <2> QED BY <1>2, <2>1, <2>2, <2>3 DEF TraceAndReturn, TraceFails, Log!Settle
<1>3. ASSUME NEW p \in Processes,
             \/ OpenSession(p) \/ Complete(p) \/ OpenTmp(p) \/ OpenTmpFails(p) \/ WriteTmp(p)
             \/ WriteTmpFails(p) \/ ReplaceTmpFails(p) \/ SaveReturns(p) \/ SaveRaises(p) \/ Exit(p)
      PROVE  UNCHANGED <<Loaded, returned, traced>>
  <2>1. UNCHANGED <<returned, traced>>
    BY <1>3 DEF OpenSession, Complete, OpenTmp, OpenTmpFails, WriteTmp, WriteTmpFails,
                ReplaceTmpFails, SaveReturns, SaveRaises, Exit
  <2>2. Loaded' = Loaded
    BY <1>3, LoadedKept
  <2> QED BY <2>1, <2>2
<1>4. CASE UNCHANGED vars
  BY <1>4 DEF vars, Loaded
<1>5. ASSUME NEW p \in Processes, ReplaceTmp(p) PROVE Log!Next
  BY <1>1, <1>5, ReplaceTmpStep DEF Log!Next
<1>6. ASSUME NEW p \in Processes, TraceAndReturn(p) \/ TraceFails(p) PROVE Log!Next
  BY <1>2, <1>6 DEF Log!Next
<1> QED BY <1>3, <1>4, <1>5, <1>6 DEF Next

\* The session on disk implements the log that loses nothing: no crash takes a
\* recorded turn back, and no turn is told of before it is recorded
\* (FileSessionStore.save, ConstrainedSession.complete).
THEOREM SessionIsLog ==
    ASSUME OneProcess PROVE Spec => ImplementsSessionLog
<1>1. Init => Log!Init
  BY DEF Init, Log!Init, Loaded
<1>2. IInv /\ [Next]_vars => [Log!Next]_<<Loaded, returned, traced>>
  BY StepRefines
<1> QED BY <1>1, <1>2, CommitInv, PTL DEF Spec, ImplementsSessionLog, Log!Spec
=============================================================================
