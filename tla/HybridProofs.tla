---------------------------- MODULE HybridProofs ----------------------------
(***************************************************************************)
(* Proofs about the hybrid path: the runs that share a session id          *)
(* (HybridEntry) and what one of them does between its installation and    *)
(* its report (GoverningRun).                                              *)
(*                                                                         *)
(* The theorems about HybridEntry are for every set of runs and of         *)
(* settings, and every interleaving of their saves with one another and    *)
(* with those of a plain session.  All saves of a document go through one  *)
(* temporary file: what is in it is known only while one writer holds it   *)
(* (Undisturbed), so EntryIInv says that a run whose saves have not        *)
(* crossed others has its document to itself (NotCrossed), and only then   *)
(* that its marker and its report are where it has put them.  What a run   *)
(* found when it began needs no such condition: it is in the documents     *)
(* until the run has loaded them, and in what it has loaded until it is    *)
(* assessed, unless a plain session wrote over the marker meanwhile.  The  *)
(* two specifications share no variable.                                   *)
(*                                                                         *)
(* The theorems about GoverningRun are for every set of texts and of       *)
(* shards, every budget, every limit of rounds and every way a connection  *)
(* may drift.  What is promised is about a run that has ended, and says    *)
(* nothing of how it got there.  IInv follows a round step by step: what   *)
(* the run has reserved at each point of a call (HoldsOne), how the books  *)
(* compare with the completions and the trace (BooksFollow), what the      *)
(* decision in hand rests on (EvidenceIsCurrent), and that money spent     *)
(* above the budget leaves only the way to the abort (OverrunAborts).      *)
(***************************************************************************)
EXTENDS HybridEntry, GoverningRun, TLAPS

-----------------------------------------------------------------------------
(* The runs of a session. *)

Loaded == {"load_report", "assess"}

\* A writer in a save is one that may save, and has a file open just between
\* opening and writing it.
SaveUnderWay(w) ==
    /\ at[w] # "out" => MaySave(w)
    /\ at[w] = "opened" <=> hand[w] # "none"

\* What a writer that shares its document with no other one finds under the
\* temporary name: what it put there, or nothing.
Clean(w) ==
    /\ at[w] = "opened" => \/ hand[w] = "tmp" /\ tmp[Doc(w)] = Empty
                           \/ hand[w] = "gone" /\ tmp[Doc(w)] = Absent
    /\ at[w] = "written" => tmp[Doc(w)] \in {Absent, Payload(w)}

Undisturbed(d) == \A w \in Holders(d) : Holders(d) = {w} /\ Clean(w)

\* From its first save of the document to the end of its interest in it: the
\* marker for as long as it governs, the report until it is replaced.
Counts(r, d) ==
    IF d = "report" THEN place[r] = "save_report" /\ at[r] \in {"opened", "written"}
    ELSE \/ place[r] = "install" /\ at[r] \in {"opened", "written", "replaced"}
         \/ Governs(r)

NotCrossed(r) ==
    \A d \in Document : r \notin crossed[d] /\ Counts(r, d) => Undisturbed(d)

Installed(r) == place[r] = "install" /\ at[r] = "replaced"
Reported(r) == place[r] = "save_report" /\ at[r] = "replaced"

\* The marker is there while the run governs, and is what the run writes back.
MarkerIsThere(r) ==
    /\ Governs(r) \/ Installed(r) =>
           live["session"].kind = "on" \/ r \in cleared \cup crossed["session"]
    /\ place[r] = "save_session" => prior[r].kind = "on"

\* A report comes to be the document in its own save, and a verdict with it.
ReportIsThere(r) ==
    /\ live["report"] = ReportOf(r) => r \in reported
    /\ r \notin crossed["report"] =>
        /\ tmp["report"] = ReportOf(r) => Holders("report") \subseteq {r}
        /\ r \in reported => Reported(r) \/ place[r] \in {"verdict", "dead"}
        /\ Reported(r) \/ place[r] = "verdict" => r \in reported

\* The evidence a run found stays, first in the documents, then in what the
\* run has loaded.
EvidenceStays(r) ==
    /\ found[r].report => live["report"] # Absent
    /\ place[r] = "assess" /\ found[r].report => evidence[r]
    /\ found[r].identity # None /\ r \notin cleared =>
        /\ place[r] = "load_session" => live["session"] \notin {Absent, Off}
        /\ place[r] \in Loaded => prior[r].kind = "on"
    /\ place[r] = "off" => ~found[r].report /\ (found[r].identity = None \/ r \in cleared)

\* Nothing else is under way beside a run that is alone.
AloneSoFar(r) == alone[r] /\ r \in UnderWay => UnderWay = {r} /\ ~plain

\* The identity such a run found is the one it goes on with.
IdentityStays(r) ==
    alone[r] /\ found[r].identity # None =>
        /\ place[r] = "load_session" => live["session"].of = found[r].identity
        /\ place[r] \in Loaded => prior[r].kind = "on" /\ prior[r].of = found[r].identity
        /\ place[r] \in {"install", "verdict"} \/ Governs(r) =>
               Identity(setting[r]) = found[r].identity

RunHolds(r) ==
    /\ NotCrossed(r) /\ MarkerIsThere(r) /\ ReportIsThere(r)
    /\ EvidenceStays(r) /\ AloneSoFar(r) /\ IdentityStays(r)

EntryIInv ==
    /\ EntryTypeOK
    /\ \A w \in Writers : SaveUnderWay(w)
    /\ \A r \in Runs : RunHolds(r)
-----------------------------------------------------------------------------

\* The writers: every run, and the plain session.
LEMMA WritersAre ==
    /\ PlainSession \in Writers /\ PlainSession \notin Runs
    /\ \A r \in Runs : r \in Writers /\ r # PlainSession
    /\ \A w \in Writers : w \in Runs \/ w = PlainSession
BY EntryAssumption DEF Writers

\* Contents of different kinds differ.
LEMMA ContentsDiffer ==
    /\ Absent # Empty /\ Absent # Torn /\ Absent # Off /\ Empty # Torn /\ Empty # Off /\ Torn # Off
    /\ \A i : On(i) \notin {Absent, Empty, Torn, Off} /\ On(i).kind = "on" /\ On(i).of = i
    /\ \A r : ReportOf(r) \notin {Absent, Empty, Torn, Off} /\ ReportOf(r).kind = "report"
    /\ \A q, r : ReportOf(q) = ReportOf(r) => q = r
    /\ \A c \in {Absent, Empty, Torn, Off} : c.kind # "on" /\ c.of = None
BY DEF Absent, Empty, Torn, Off, On, ReportOf, Content

\* Only a marker is of kind on, and only a marker has an identity.
LEMMA MarkersAre ==
    ASSUME NEW c \in SessionContents
    PROVE  /\ c.kind = "on" <=> c \notin {Absent, Empty, Torn, Off}
           /\ c.kind = "on" => c.of \in Identities
           /\ c.kind # "on" => c.of = None
BY ContentsDiffer DEF SessionContents

LEMMA DocOf ==
    ASSUME NEW w
    PROVE  /\ Doc(w) \in Document
           /\ Doc(w) = "report" <=> w \in Runs /\ place[w] = "save_report"
           /\ Doc(w) = "session" <=> ~(w \in Runs /\ place[w] = "save_report")
BY DEF Doc, Document

\* What a run that is in a save stands at.
LEMMA SavingRuns ==
    ASSUME EntryIInv, NEW r \in Runs, at[r] # "out"
    PROVE  place[r] \in Saving /\ r \in UnderWay
<1>1. MaySave(r) /\ r # PlainSession
  BY WritersAre DEF EntryIInv, SaveUnderWay
<1> QED BY <1>1 DEF MaySave, Saving, UnderWay, Outcomes

LEMMA SavingPlain ==
    ASSUME EntryIInv, at[PlainSession] # "out"
    PROVE  plain
BY WritersAre DEF EntryIInv, SaveUnderWay, MaySave

\* What a writer has to save: a marker or an off document for the session, its
\* report for the report.
LEMMA Payloads ==
    ASSUME EntryIInv, NEW w \in Writers, MaySave(w)
    PROVE  /\ Doc(w) = "session" => /\ Payload(w) \in SessionContents
                                    /\ Payload(w) = Off \/ Payload(w).kind = "on"
           /\ Doc(w) = "report" => /\ Payload(w) \in ReportContents /\ Payload(w) = ReportOf(w)
           /\ w # PlainSession /\ Doc(w) = "session" => Payload(w).kind = "on"
<1>1. CASE w = PlainSession
  BY <1>1, WritersAre DEF Payload, Doc, SessionContents
<1>2. CASE w \in Runs
  <2>1. w # PlainSession /\ place[w] \in Saving
    BY <1>2, WritersAre DEF MaySave
  <2>2. CASE place[w] = "install"
    <3>1. Identity(setting[w]) \in Identities
      BY <1>2 DEF EntryIInv, EntryTypeOK, Identities
    <3> QED BY <1>2, <2>1, <2>2, <3>1, ContentsDiffer DEF Payload, Doc, SessionContents
  <2>3. CASE place[w] = "save_session"
    <3>1. prior[w] \in SessionContents /\ prior[w].kind = "on"
      BY <1>2, <2>3 DEF EntryIInv, EntryTypeOK, RunHolds, MarkerIsThere
    <3> QED BY <1>2, <2>1, <2>3, <3>1 DEF Payload, Doc
  <2>4. CASE place[w] = "save_report"
    BY <1>2, <2>1, <2>4 DEF Payload, Doc, ReportContents
  <2> QED BY <2>1, <2>2, <2>3, <2>4 DEF Saving
<1> QED BY <1>1, <1>2, WritersAre

-----------------------------------------------------------------------------
(* What the steps do, each in terms of single writers and documents. *)

\* A run's step as the other runs and the documents see it.
Beside(r) ==
    /\ UNCHANGED <<saves, plain, setting, cleared, crossed, reported>>
    /\ at[r] = "out"
    /\ \A q \in Runs \ {r} :
         /\ place'[q] = place[q] /\ prior'[q] = prior[q] /\ evidence'[q] = evidence[q]
         /\ found'[q] = found[q]
         /\ alone'[q] => alone[q]
         /\ q \in UnderWay => ~alone'[q]

LEMMA GotoMoves ==
    ASSUME EntryTypeOK, NEW r \in Runs, NEW label, Goto(r, label)
    PROVE  /\ place'[r] = label
           /\ \A q \in Runs \ {r} : place'[q] = place[q]
BY DEF EntryTypeOK, Goto

\* A run that steps beside another one that is alone would be under way with it.
LEMMA NotBesideAlone ==
    ASSUME EntryIInv, NEW r \in Runs, NEW q \in Runs \ {r}, r \in UnderWay, q \in UnderWay
    PROVE  ~alone[q]
BY DEF EntryIInv, RunHolds, AloneSoFar

LEMMA StepIsBeside ==
    ASSUME EntryIInv, NEW r \in Runs, Step(r)
    PROVE  /\ Beside(r)
           /\ place[r] # "idle" => r \in UnderWay /\ alone' = alone /\ found' = found
<1>1. EntryTypeOK
  BY DEF EntryIInv
<1>2. \A label : Goto(r, label) => \A q \in Runs \ {r} : place'[q] = place[q]
  BY <1>1, GotoMoves
<1>3. \A q \in Runs \ {r} : place'[q] = place[q]
  BY <1>2 DEF Step, Begin, LoadSession, LoadReport, Assess, InstallTooLate, Govern, Reload
<1>4. at[r] = "out"
  BY SavingRuns DEF Step, Begin, LoadSession, LoadReport, Assess, InstallTooLate, Govern, Reload,
                    Saving
<1>5. UNCHANGED <<saves, plain, setting, cleared, crossed, reported>>
  BY DEF Step, Begin, LoadSession, LoadReport, Assess, InstallTooLate, Govern, Reload, history
<1>6. \A q \in Runs \ {r} : prior'[q] = prior[q] /\ evidence'[q] = evidence[q]
  BY <1>1 DEF Step, Begin, LoadSession, LoadReport, Assess, InstallTooLate, Govern, Reload,
              EntryTypeOK
<1>7. CASE Begin(r)
  <2>1. \A q \in Runs \ {r} : found'[q] = found[q] /\ alone'[q] = (alone[q] /\ q \notin UnderWay)
    BY <1>1, <1>7 DEF Begin, EntryTypeOK
  <2> QED BY <1>3, <1>4, <1>5, <1>6, <1>7, <2>1 DEF Begin, Beside
<1>8. CASE ~Begin(r)
  <2>1. place[r] \in {"load_session", "load_report", "assess", "install", "govern", "reload"}
    BY <1>8 DEF Step, LoadSession, LoadReport, Assess, InstallTooLate, Govern, Reload
  <2>2. r \in UnderWay
    BY <2>1 DEF UnderWay, Outcomes
  <2>3. alone' = alone /\ found' = found
    BY <1>8 DEF Step, LoadSession, LoadReport, Assess, InstallTooLate, Govern, Reload, history
  <2>4. \A q \in Runs \ {r} : q \in UnderWay => ~alone[q]
    BY <2>2, NotBesideAlone
  <2> QED BY <1>3, <1>4, <1>5, <1>6, <2>2, <2>3, <2>4 DEF Beside
<1> QED BY <1>7, <1>8

\* Names change only for writers of the same document that have a file open.
LEMMA RenamedIs ==
    ASSUME NEW d, NEW v \in Writers
    PROVE  LET replaced == Renamed(d, [tmp |-> "live", live |-> "gone"])
               removed == Renamed(d, [tmp |-> "gone"])
           IN  /\ Doc(v) # d => replaced[v] = hand[v] /\ removed[v] = hand[v]
               /\ hand[v] \notin {"tmp", "live"} => replaced[v] = hand[v]
               /\ hand[v] # "tmp" => removed[v] = hand[v]
               /\ hand[v] = "tmp" => replaced[v] \in {"tmp", "live"}
               /\ hand[v] = "tmp" /\ Doc(v) = d => removed[v] = "gone"
               /\ hand[v] = "live" => replaced[v] \in {"live", "gone"}
               /\ DOMAIN replaced = Writers /\ DOMAIN removed = Writers
BY DEF Renamed

\* What a save may change, and of whom.
LEMMA SaveMoves ==
    ASSUME EntryIInv, NEW w \in Writers, Save(w)
    PROVE  /\ UNCHANGED <<plain, setting, prior, evidence, found, alone>>
           /\ MaySave(w)
           /\ \A v \in Writers \ {w} : at'[v] = at[v]
           /\ \A q \in Runs \ {w} : place'[q] = place[q]
           /\ place' = place \/ at'[w] = "out"
           /\ \A d \in Document : crossed[d] \subseteq crossed'[d]
           /\ cleared \subseteq cleared' /\ reported \subseteq reported'
<1>1. EntryTypeOK /\ SaveUnderWay(w)
  BY DEF EntryIInv
<1>2. CASE OpenTmp(w) \/ OpenTmpFails(w) \/ WriteTmp(w) \/ WriteTmpFails(w)
           \/ ReplaceTmp(w) \/ ReplaceTmpFails(w)
  <2>1. UNCHANGED <<plain, run, found, alone>>
    BY <1>2 DEF OpenTmp, OpenTmpFails, WriteTmp, WriteTmpFails, ReplaceTmp, ReplaceTmpFails, history
  <2>2. MaySave(w)
    BY <1>1, <1>2 DEF OpenTmp, OpenTmpFails, WriteTmp, WriteTmpFails, ReplaceTmp, ReplaceTmpFails,
                      SaveUnderWay
  <2>3. \A v \in Writers \ {w} : at'[v] = at[v]
    BY <1>1, <1>2 DEF OpenTmp, OpenTmpFails, WriteTmp, WriteTmpFails, ReplaceTmp, ReplaceTmpFails,
                      EntryTypeOK
  <2>4. \A d \in Document : crossed[d] \subseteq crossed'[d]
    BY <1>1, <1>2 DEF OpenTmp, OpenTmpFails, WriteTmp, WriteTmpFails, ReplaceTmp, ReplaceTmpFails,
                      EntryTypeOK, history
  <2>5. cleared \subseteq cleared' /\ reported \subseteq reported'
    BY <1>2 DEF OpenTmp, OpenTmpFails, WriteTmp, WriteTmpFails, ReplaceTmp, ReplaceTmpFails,
                Noted, history
  <2> QED BY <2>1, <2>2, <2>3, <2>4, <2>5 DEF run
<1>3. CASE SaveReturns(w) \/ SaveRaises(w)
  <2>1. /\ UNCHANGED <<plain, setting, prior, evidence, history>>
        /\ at' = [at EXCEPT ![w] = "out"] /\ at[w] # "out"
    BY <1>3 DEF SaveReturns, SaveRaises, Finally
  <2>2. \A q \in Runs \ {w} : place'[q] = place[q]
    BY <1>1, <1>3 DEF SaveReturns, SaveRaises, Goto, EntryTypeOK
  <2> QED BY <1>1, <2>1, <2>2 DEF EntryTypeOK, SaveUnderWay, history
<1> QED BY <1>2, <1>3 DEF Save

\* A process stops: Die for a run, ClosePlain for the plain session.
Halts(w) == Stops(w) /\ IF w = PlainSession THEN ClosePlain ELSE Die(w)

LEMMA StopMoves ==
    ASSUME EntryIInv, NEW w \in Writers, Halts(w)
    PROVE  /\ UNCHANGED <<setting, prior, evidence, history>>
           /\ at'[w] = "out" /\ hand'[w] = "none"
           /\ \A v \in Writers \ {w} : at'[v] = at[v] /\ hand'[v] = hand[v]
           /\ \A q \in Runs \ {w} : place'[q] = place[q]
           /\ w # PlainSession => w \in UnderWay /\ place'[w] = "dead" /\ plain' = plain
           /\ w = PlainSession => plain /\ ~plain' /\ place' = place
<1>1. EntryTypeOK
  BY DEF EntryIInv
<1>2. /\ at'[w] = "out" /\ hand'[w] = "none"
      /\ \A v \in Writers \ {w} : at'[v] = at[v] /\ hand'[v] = hand[v]
  BY <1>1 DEF Halts, Stops, EntryTypeOK
<1>3. CASE w = PlainSession
  BY <1>2, <1>3, WritersAre DEF Halts, ClosePlain, run
<1>4. CASE w # PlainSession
  BY <1>1, <1>2, <1>4, WritersAre DEF Halts, Die, Goto, EntryTypeOK
<1> QED BY <1>3, <1>4

\* Every step is one of four kinds.
LEMMA StepKinds ==
    ASSUME EntryNext
    PROVE  \/ \E r \in Runs : Step(r)
           \/ \E w \in Writers : Save(w)
           \/ \E w \in Writers : Halts(w)
           \/ OpenPlain
BY WritersAre DEF EntryNext, Halts, Die, ClosePlain

\* The one who is in a save stays where it is, with what it has to save.
LEMMA WritersSteady ==
    ASSUME EntryIInv, EntryNext, NEW v \in Writers, at'[v] # "out"
    PROVE  /\ Doc(v)' = Doc(v) /\ Payload(v)' = Payload(v) /\ MaySave(v)
           /\ MaySave(v)' /\ (v \in UnderWay' <=> v \in UnderWay)
<1>1. SUFFICES MaySave(v) /\ IF v = PlainSession THEN plain' = plain
               ELSE place'[v] = place[v] /\ prior'[v] = prior[v] /\ setting' = setting
  BY <1>1, WritersAre DEF Doc, Payload, MaySave, UnderWay
<1>2. at[v] # "out" => MaySave(v)
  BY DEF EntryIInv, SaveUnderWay
<1>3. ASSUME NEW r \in Runs, Step(r) PROVE <1>1!1
  <2>1. Beside(r) /\ v # r
    BY <1>3, StepIsBeside DEF Beside, saves
  <2> QED BY <1>2, <2>1, WritersAre DEF Beside, saves
<1>4. ASSUME NEW w \in Writers, Save(w) PROVE <1>1!1
  BY <1>2, <1>4, SaveMoves, WritersAre
<1>5. ASSUME NEW w \in Writers, Halts(w) PROVE <1>1!1
  BY <1>2, <1>5, StopMoves, WritersAre DEF history
<1>6. CASE OpenPlain
  BY <1>2, <1>6, SavingPlain, WritersAre DEF OpenPlain, saves, run
<1> QED BY <1>3, <1>4, <1>5, <1>6, StepKinds

\* A save keeps what a writer has in hand in step with where it stands.
LEMMA HandsFit ==
    ASSUME EntryIInv, EntryNext, NEW v \in Writers
    PROVE  at'[v] = "opened" <=> hand'[v] # "none"
<1>1. EntryTypeOK /\ (at[v] = "opened" <=> hand[v] # "none")
  BY DEF EntryIInv, SaveUnderWay
<1>2. hand[v] \in {"none", "tmp", "live", "gone"}
  BY <1>1 DEF EntryTypeOK
<1>3. ASSUME NEW d
      PROVE  /\ Renamed(d, [tmp |-> "live", live |-> "gone"])[v] # "none" <=> hand[v] # "none"
             /\ Renamed(d, [tmp |-> "gone"])[v] # "none" <=> hand[v] # "none"
  BY <1>2 DEF Renamed
<1>4. ASSUME NEW r \in Runs, Step(r)
      PROVE  at'[v] = "opened" <=> hand'[v] # "none"
  BY <1>1, <1>4, StepIsBeside DEF Beside, saves
<1>5. ASSUME NEW w \in Writers, Save(w)
      PROVE  at'[v] = "opened" <=> hand'[v] # "none"
  <2>1. CASE OpenTmp(w) \/ OpenTmpFails(w)
    BY <1>1, <2>1 DEF OpenTmp, OpenTmpFails, EntryTypeOK
  <2>2. CASE WriteTmp(w) \/ WriteTmpFails(w)
    BY <1>1, <2>2 DEF WriteTmp, WriteTmpFails, EntryTypeOK
  <2>3. CASE ReplaceTmp(w) \/ ReplaceTmpFails(w)
    BY <1>1, <1>3, <2>3 DEF ReplaceTmp, ReplaceTmpFails, EntryTypeOK
  <2>4. CASE SaveReturns(w) \/ SaveRaises(w)
    BY <1>1, <1>3, <2>4 DEF SaveReturns, SaveRaises, Finally, EntryTypeOK
  <2> QED BY <1>5, <2>1, <2>2, <2>3, <2>4 DEF Save
<1>6. ASSUME NEW w \in Writers, Halts(w)
      PROVE  at'[v] = "opened" <=> hand'[v] # "none"
  BY <1>1, <1>6, StopMoves
<1>7. CASE OpenPlain
  BY <1>1, <1>7 DEF OpenPlain, saves
<1> QED BY <1>4, <1>5, <1>6, <1>7, StepKinds

LEMMA SavesStayUnderWay ==
    ASSUME EntryIInv, EntryNext, NEW v \in Writers
    PROVE  SaveUnderWay(v)'
BY HandsFit, WritersSteady DEF SaveUnderWay

-----------------------------------------------------------------------------
(* One writer at a time. *)

LEMMA HoldersAre ==
    ASSUME NEW d, NEW w
    PROVE  w \in Holders(d) <=> w \in Writers /\ at[w] \in {"opened", "written"} /\ Doc(w) = d
BY DEF Holders

\* Who holds a document after a step held it before, or has just opened it.
LEMMA HoldersStay ==
    ASSUME EntryIInv, EntryNext, NEW d \in Document, NEW v \in Holders(d)'
    PROVE  v \in Holders(d) \/ OpenTmp(v)
<1>1. v \in Writers /\ at'[v] \in {"opened", "written"} /\ Doc(v)' = d
  BY DEF Holders
<1>2. Doc(v) = d
  BY <1>1, WritersSteady
<1>3. SUFFICES at[v] \in {"opened", "written"} \/ OpenTmp(v)
  BY <1>1, <1>2, <1>3, HoldersAre
<1>4. ASSUME NEW r \in Runs, Step(r) PROVE at'[v] = at[v]
  BY <1>4, StepIsBeside DEF Beside, saves
<1>5. ASSUME NEW w \in Writers, Save(w), w # v PROVE at'[v] = at[v]
  BY <1>1, <1>5, SaveMoves
<1>6. ASSUME Save(v) PROVE at[v] \in {"opened", "written"} \/ OpenTmp(v)
  BY <1>1, <1>6 DEF Save, OpenTmpFails, WriteTmp, WriteTmpFails, ReplaceTmp, ReplaceTmpFails,
                    SaveReturns, SaveRaises, Finally, EntryIInv, EntryTypeOK
<1>7. ASSUME NEW w \in Writers, Halts(w) PROVE at'[v] = at[v]
  BY <1>1, <1>7, StopMoves
<1>8. CASE OpenPlain
  BY <1>1, <1>8 DEF OpenPlain, saves
<1> QED BY <1>1, <1>4, <1>5, <1>6, <1>7, <1>8, StepKinds

\* What a step leaves of the temporary file under a writer it is not a step of.
LEMMA OthersLeaveClean ==
    ASSUME EntryIInv, EntryNext, NEW d \in Document, NEW v \in Holders(d), v \in Holders(d)',
           Holders(d) = {v}, Clean(v), ~Save(v),
           \A w \in Writers : ~(OpenTmp(w) /\ Doc(w) = d)
    PROVE  Clean(v)'
<1>1. /\ v \in Writers /\ at[v] \in {"opened", "written"} /\ Doc(v) = d /\ at'[v] # "out"
      /\ Doc(v)' = d /\ Payload(v)' = Payload(v)
  BY WritersSteady DEF Holders
<1>2. EntryTypeOK /\ \A w \in Writers \ {v} : at[w] \in {"opened", "written"} => Doc(w) # d
  BY HoldersAre DEF EntryIInv
<1>3. SUFFICES /\ at'[v] = at[v]
               /\ \/ tmp'[d] = tmp[d] /\ hand'[v] = hand[v]
                  \/ /\ tmp'[d] = Absent
                     /\ hand'[v] = IF hand[v] = "tmp" THEN "gone" ELSE hand[v]
  BY <1>1, <1>3, ContentsDiffer DEF Clean
<1>4. ASSUME NEW r \in Runs, Step(r) PROVE <1>3!1
  BY <1>4, StepIsBeside DEF Beside, saves
<1>5. ASSUME NEW w \in Writers, Save(w) PROVE <1>3!1
  <2>1. w # v /\ at'[v] = at[v]
    BY <1>1, <1>5, SaveMoves
  <2>2. CASE OpenTmp(w) \/ OpenTmpFails(w)
    BY <1>1, <1>2, <2>1, <2>2 DEF OpenTmp, OpenTmpFails, EntryTypeOK, HoldContents
  <2>3. CASE WriteTmp(w) \/ WriteTmpFails(w)
    BY <1>1, <1>2, <2>1, <2>3 DEF WriteTmp, WriteTmpFails, WriteTo, EntryTypeOK, HoldContents
  <2>4. CASE ReplaceTmp(w) \/ ReplaceTmpFails(w)
    <3>1. Doc(w) # d
      BY <1>2, <2>1, <2>4 DEF ReplaceTmp, ReplaceTmpFails
    <3> QED BY <1>1, <1>2, <2>1, <2>4, <3>1, RenamedIs
            DEF ReplaceTmp, ReplaceTmpFails, EntryTypeOK, HoldContents
  <2>5. CASE SaveReturns(w) \/ SaveRaises(w)
    BY <1>1, <1>2, <2>1, <2>5, RenamedIs DEF SaveReturns, SaveRaises, Finally, EntryTypeOK, HoldContents
  <2> QED BY <1>5, <2>2, <2>3, <2>4, <2>5 DEF Save
<1>6. ASSUME NEW w \in Writers, Halts(w) PROVE <1>3!1
  <2>1. w # v /\ at'[v] = at[v] /\ hand'[v] = hand[v]
    BY <1>1, <1>6, StopMoves
  <2>2. tmp'[d] = tmp[d]
    BY <1>1, <1>2, <1>6, <2>1 DEF Halts, Stops, WriteTo, EntryTypeOK, HoldContents
  <2> QED BY <2>1, <2>2
<1>7. CASE OpenPlain
  BY <1>7 DEF OpenPlain, saves
<1> QED BY <1>4, <1>5, <1>6, <1>7, StepKinds

\* Nor does a writer's own step.
LEMMA WriterLeavesClean ==
    ASSUME EntryIInv, NEW v \in Writers, Save(v), ~OpenTmp(v),
           at[v] \in {"opened", "written"}, at'[v] \in {"opened", "written"}, Clean(v)
    PROVE  /\ WriteTmp(v) /\ live' = live
           /\ at'[v] = "written" /\ tmp'[Doc(v)] \in {Absent, Payload(v)}
<1>1. EntryTypeOK /\ Doc(v) \in Document
  BY DocOf DEF EntryIInv
<1>2. WriteTmp(v)
  BY <1>1 DEF Save, OpenTmpFails, WriteTmpFails, ReplaceTmp, ReplaceTmpFails,
              SaveReturns, SaveRaises, Finally, EntryTypeOK
<1>3. at'[v] = "written" /\ at[v] = "opened"
  BY <1>1, <1>2 DEF WriteTmp, EntryTypeOK
<1>4. CASE hand[v] = "tmp" /\ tmp[Doc(v)] = Empty
  BY <1>1, <1>2, <1>3, <1>4 DEF WriteTmp, WriteTo, InHand, EntryTypeOK, HoldContents
<1>5. CASE hand[v] = "gone" /\ tmp[Doc(v)] = Absent
  BY <1>1, <1>2, <1>3, <1>5 DEF WriteTmp, WriteTo, EntryTypeOK, HoldContents
<1> QED BY <1>2, <1>3, <1>4, <1>5 DEF Clean

LEMMA UndisturbedStays ==
    ASSUME EntryIInv, EntryNext, NEW d \in Document, Undisturbed(d),
           \A w \in Writers : ~(OpenTmp(w) /\ Doc(w) = d)
    PROVE  Undisturbed(d)'
<1> SUFFICES ASSUME NEW v \in Holders(d)' PROVE Holders(d)' = {v} /\ Clean(v)'
  BY DEF Undisturbed
<1>1. /\ v \in Writers /\ at'[v] \in {"opened", "written"}
      /\ Doc(v)' = Doc(v) /\ Payload(v)' = Payload(v) /\ Doc(v) = d
  BY WritersSteady DEF Holders
<1>2. \A u \in Holders(d)' : u \in Holders(d)
  <2> SUFFICES ASSUME NEW u \in Holders(d)', OpenTmp(u) PROVE FALSE
    BY HoldersStay
  <2>1. u \in Writers /\ at'[u] # "out" /\ Doc(u)' = d
    BY DEF Holders
  <2> QED BY <2>1, WritersSteady
<1>3. Holders(d) = {v} /\ Clean(v) /\ at[v] \in {"opened", "written"}
  BY <1>2 DEF Undisturbed, Holders
<1>4. ~OpenTmp(v)
  BY <1>1
<1>5. Clean(v)'
  <2>1. CASE Save(v)
    <3>1. at'[v] = "written" /\ tmp'[Doc(v)] \in {Absent, Payload(v)}
      BY <1>1, <1>3, <1>4, <2>1, WriterLeavesClean
    <3> QED BY <1>1, <3>1 DEF Clean
  <2>2. CASE ~Save(v)
    BY <1>3, <2>2, OthersLeaveClean
  <2> QED BY <2>1, <2>2
<1> QED BY <1>2, <1>3, <1>5

\* A document that nobody holds is undisturbed once it is opened.
LEMMA OpenedAlone ==
    ASSUME EntryIInv, NEW d \in Document, NEW w \in Writers, OpenTmp(w), Doc(w) = d, Holders(d) = {}
    PROVE  Undisturbed(d)'
<1>1. EntryTypeOK
  BY DEF EntryIInv
<1>2. at'[w] = "opened" /\ hand'[w] = "tmp" /\ tmp'[d] = Empty /\ UNCHANGED <<plain, run>>
  BY <1>1 DEF OpenTmp, EntryTypeOK, HoldContents
<1>3. \A v \in Writers : Doc(v)' = Doc(v)
  BY <1>2 DEF Doc, run
<1>4. \A v \in Writers \ {w} : at'[v] = at[v]
  BY <1>1 DEF OpenTmp, EntryTypeOK
<1>5. \A v \in Writers \ {w} : ~(at'[v] \in {"opened", "written"} /\ Doc(v)' = d)
  BY <1>3, <1>4, HoldersAre
<1>6. Clean(w)'
  BY <1>2, <1>3 DEF Clean
<1>7. {v \in Writers : at'[v] \in {"opened", "written"} /\ Doc(v)' = d} = {w}
  BY <1>2, <1>3, <1>5
<1> QED BY <1>6, <1>7 DEF Undisturbed, Holders

\* A run that counts is under way.
LEMMA WhatCounts ==
    ASSUME NEW r \in Runs, NEW d, Counts(r, d)
    PROVE  r \in UnderWay
BY DEF Counts, UnderWay, Governs, Outcomes

\* Nothing is taken out of the histories.
LEMMA HistoryGrows ==
    ASSUME EntryIInv, EntryNext
    PROVE  /\ \A d \in Document : crossed[d] \subseteq crossed'[d]
           /\ cleared \subseteq cleared' /\ reported \subseteq reported'
<1>1. CASE \E r \in Runs : Step(r)
  BY <1>1, StepIsBeside DEF Beside
<1>2. CASE \E w \in Writers : Save(w)
  BY <1>2, SaveMoves
<1>3. CASE \E w \in Writers : Halts(w)
  BY <1>3, StopMoves DEF history
<1>4. CASE OpenPlain
  BY <1>4 DEF OpenPlain
<1> QED BY <1>1, <1>2, <1>3, <1>4, StepKinds

\* A run counts for a document that it opens, and from then on.
LEMMA CountsStay ==
    ASSUME EntryIInv, EntryNext, NEW r \in Runs, NEW d \in Document, Counts(r, d)'
    PROVE  Counts(r, d) \/ (OpenTmp(r) /\ Doc(r) = d)
<1>1. EntryTypeOK /\ r \in Writers /\ r # PlainSession
  BY WritersAre DEF EntryIInv
<1>2. CASE place'[r] = place[r] /\ at'[r] = at[r]
  BY <1>2 DEF Counts, Governs
<1>3. ASSUME NEW q \in Runs, Step(q), ~(place'[r] = place[r] /\ at'[r] = at[r])
      PROVE  Counts(r, d)
  <2>1. q = r /\ at'[r] = at[r] /\ at[r] = "out"
    BY <1>3, StepIsBeside DEF Beside, saves
  <2>2. Step(r)
    BY <1>3, <2>1
  <2>3. \A label : Goto(r, label) => place'[r] = label
    BY <1>1, GotoMoves
  <2>4. Governs(r)' /\ d # "report"
    BY <2>1 DEF Counts
  <2>5. Verdict(r, TRUE) \notin {"govern", "reload", "save_session", "save_report"}
        /\ Verdict(r, FALSE) \notin {"govern", "reload", "save_session", "save_report"}
    BY DEF Verdict
  <2>6. ASSUME Assess(r) PROVE ~Governs(r)'
    <3>1. PICK late \in BOOLEAN : Goto(r, Verdict(r, late))
      BY <2>6 DEF Assess
    <3> QED BY <2>3, <2>5, <3>1 DEF Governs
  <2>7. CASE Govern(r) \/ Reload(r)
    BY <2>4, <2>7 DEF Govern, Reload, Counts, Governs
  <2>8. CASE Begin(r) \/ LoadSession(r) \/ LoadReport(r) \/ InstallTooLate(r)
    BY <2>3, <2>4, <2>8 DEF Begin, LoadSession, LoadReport, InstallTooLate, Governs
  <2> QED BY <2>2, <2>4, <2>6, <2>7, <2>8 DEF Step
<1>4. ASSUME NEW w \in Writers, Save(w), ~(place'[r] = place[r] /\ at'[r] = at[r])
      PROVE  Counts(r, d) \/ (OpenTmp(r) /\ Doc(r) = d)
  <2>1. w = r /\ place[r] \in Saving
    BY <1>1, <1>4, SaveMoves DEF MaySave
  <2>2. Save(r)
    BY <1>4, <2>1
  <2>3. CASE OpenTmp(r)
    BY <1>1, <2>1, <2>3 DEF OpenTmp, run, Counts, Governs, Doc, Saving, Document
  <2>4. CASE OpenTmpFails(r)
    BY <1>1, <2>1, <2>4 DEF OpenTmpFails, run, Counts, Governs, EntryTypeOK
  <2>5. CASE WriteTmp(r) \/ WriteTmpFails(r)
    BY <1>1, <2>1, <2>5 DEF WriteTmp, WriteTmpFails, run, Counts, Governs, EntryTypeOK
  <2>6. CASE ReplaceTmp(r) \/ ReplaceTmpFails(r)
    BY <1>1, <2>1, <2>6 DEF ReplaceTmp, ReplaceTmpFails, run, Counts, Governs, EntryTypeOK
  <2>7. CASE SaveReturns(r)
    <3>1. at[r] = "replaced" /\ at'[r] = "out" /\ place'[r] = AfterSave[place[r]]
      BY <1>1, <2>7, GotoMoves DEF SaveReturns, Finally, EntryTypeOK
    <3> QED BY <2>1, <3>1 DEF Counts, Governs, AfterSave, Saving
  <2>8. CASE SaveRaises(r)
    <3>1. at'[r] = "out" /\ place'[r] \in {"abort", "raised"}
      BY <1>1, <2>8, GotoMoves DEF SaveRaises, Finally, EntryTypeOK
    <3> QED BY <3>1 DEF Counts, Governs
  <2> QED BY <2>2, <2>3, <2>4, <2>5, <2>6, <2>7, <2>8 DEF Save
<1>5. ASSUME NEW w \in Writers, Halts(w), ~(place'[r] = place[r] /\ at'[r] = at[r])
      PROVE  Counts(r, d)
  <2>1. w = r /\ place'[r] = "dead" /\ at'[r] = "out"
    BY <1>1, <1>5, StopMoves
  <2> QED BY <2>1 DEF Counts, Governs
<1>6. CASE OpenPlain
  BY <1>2, <1>6 DEF OpenPlain, saves, run
<1> QED BY <1>2, <1>3, <1>4, <1>5, <1>6, StepKinds

\* A save that overlaps another one is recorded for every run under way.
LEMMA CrossingIsNoted ==
    ASSUME EntryIInv, NEW w \in Writers, OpenTmp(w), Holders(Doc(w)) # {}
    PROVE  UnderWay \subseteq crossed'[Doc(w)]
<1>1. crossed \in [Document -> SUBSET Runs] /\ Doc(w) \in Document
  BY DocOf DEF EntryIInv, EntryTypeOK
<1> QED BY <1>1 DEF OpenTmp

\* A run that is not crossed has its document to itself while that counts.
LEMMA NotCrossedStays ==
    ASSUME EntryIInv, EntryNext, NEW r \in Runs
    PROVE  NotCrossed(r)'
<1> SUFFICES ASSUME NEW d \in Document, r \notin crossed'[d], Counts(r, d)'
             PROVE  Undisturbed(d)'
  BY DEF NotCrossed
<1>1. r \notin crossed[d] /\ NotCrossed(r)
  BY HistoryGrows DEF EntryIInv, RunHolds
<1>2. ASSUME OpenTmp(r), Doc(r) = d PROVE Undisturbed(d)'
  <2>1. r \in Writers /\ r \in UnderWay
    <3>1. MaySave(r) /\ r # PlainSession
      BY <1>2, WritersAre DEF OpenTmp
    <3> QED BY <3>1, WritersAre DEF MaySave, UnderWay, Saving, Outcomes
  <2>2. Holders(Doc(r)) = {}
    BY <1>2, <2>1, CrossingIsNoted
  <2> QED BY <1>2, <2>1, <2>2, OpenedAlone
<1>3. ASSUME Counts(r, d), ~(OpenTmp(r) /\ Doc(r) = d) PROVE Undisturbed(d)'
  <2>1. Undisturbed(d) /\ r \in UnderWay
    BY <1>1, <1>3, WhatCounts DEF NotCrossed
  <2>2. ASSUME NEW w \in Writers, OpenTmp(w), Doc(w) = d PROVE Undisturbed(d)'
    <3>1. Holders(Doc(w)) = {}
      BY <2>1, <2>2, CrossingIsNoted
    <3> QED BY <2>2, <3>1, OpenedAlone
  <2> QED BY <2>1, <2>2, UndisturbedStays
<1> QED BY <1>2, <1>3, CountsStay

-----------------------------------------------------------------------------
(* What becomes of the documents. *)

\* A document changes when a temporary file replaces it, or under the hand of a
\* writer that had it open before it was one.
Changes(d, w) ==
    \/ ReplaceTmp(w) /\ live'[d] = tmp[d] /\ tmp[d] # Absent
    \/ WriteTmp(w) /\ hand[w] = "live" /\ live'[d] \in {Payload(w), Torn}
    \/ at[w] = "opened" /\ hand[w] = "live" /\ live'[d] = Torn

LEMMA DocumentMoves ==
    ASSUME EntryIInv, EntryNext, NEW d \in Document, live'[d] # live[d]
    PROVE  \E w \in Holders(d) : Changes(d, w)
<1>1. EntryTypeOK
  BY DEF EntryIInv
<1>2. ASSUME NEW r \in Runs, Step(r) PROVE FALSE
  BY <1>2, StepIsBeside DEF Beside, saves
<1>3. ASSUME NEW w \in Writers, Save(w) PROVE w \in Holders(d) /\ Changes(d, w)
  <2>1. CASE WriteTmp(w)
    BY <1>1, <2>1 DEF WriteTmp, WriteTo, Holders, Changes, EntryTypeOK, HoldContents
  <2>2. CASE WriteTmpFails(w)
    BY <1>1, <2>2 DEF WriteTmpFails, WriteTo, Holders, Changes, EntryTypeOK, HoldContents
  <2>3. CASE ReplaceTmp(w)
    BY <1>1, <2>3 DEF ReplaceTmp, Holders, Changes, EntryTypeOK, HoldContents
  <2>4. CASE OpenTmp(w) \/ OpenTmpFails(w) \/ ReplaceTmpFails(w) \/ SaveReturns(w) \/ SaveRaises(w)
    BY <2>4 DEF OpenTmp, OpenTmpFails, ReplaceTmpFails, SaveReturns, SaveRaises, Finally
  <2> QED BY <1>3, <2>1, <2>2, <2>3, <2>4 DEF Save
<1>4. ASSUME NEW w \in Writers, Halts(w) PROVE w \in Holders(d) /\ Changes(d, w)
  BY <1>1, <1>4 DEF Halts, Stops, WriteTo, Holders, Changes, EntryTypeOK, HoldContents
<1>5. CASE OpenPlain
  BY <1>5 DEF OpenPlain, saves
<1> QED BY <1>2, <1>3, <1>4, <1>5, StepKinds

\* A document that nobody disturbs is replaced by what its writer has to save.
LEMMA UndisturbedMoves ==
    ASSUME EntryIInv, EntryNext, NEW d \in Document, Undisturbed(d), live'[d] # live[d]
    PROVE  \E w \in Holders(d) : ReplaceTmp(w) /\ live'[d] = Payload(w)
<1>1. PICK w \in Holders(d) : Changes(d, w)
  BY DocumentMoves
<1>2. Clean(w) /\ Doc(w) = d
  BY DEF Undisturbed, Holders
<1>3. hand[w] # "live" \/ at[w] # "opened"
  BY <1>2 DEF Clean
<1>4. ReplaceTmp(w) /\ live'[d] = tmp[d] /\ tmp[d] # Absent /\ at[w] = "written"
  BY <1>1, <1>3 DEF Changes, WriteTmp, ReplaceTmp
<1> QED BY <1>2, <1>4 DEF Clean

\* Who holds a document may save it.
LEMMA HoldersMaySave ==
    ASSUME EntryIInv, NEW d, NEW w \in Holders(d)
    PROVE  w \in Writers /\ MaySave(w) /\ Doc(w) = d /\ at[w] # "out"
BY DEF Holders, EntryIInv, SaveUnderWay

\* A document never goes away, and the session goes off only on the record.
LEMMA DocumentsRemain ==
    ASSUME EntryIInv, EntryNext
    PROVE  /\ \A d \in Document : live'[d] = live[d] \/ live'[d] # Absent
           /\ live'["session"] = Off /\ live["session"] \notin {Off, Absent} => UnderWay \subseteq cleared'
<1>1. ASSUME NEW d \in Document, live'[d] # live[d] PROVE live'[d] # Absent
  <2>1. PICK w \in Holders(d) : Changes(d, w)
    BY <1>1, DocumentMoves
  <2>2. Payload(w) # Absent
    BY HoldersMaySave, Payloads, DocOf, ContentsDiffer DEF Document
  <2> QED BY <2>1, <2>2, ContentsDiffer DEF Changes
<1>2. ASSUME live'["session"] = Off, live["session"] \notin {Off, Absent}
      PROVE  UnderWay \subseteq cleared'
  <2>1. PICK w \in Holders("session") : Changes("session", w)
    BY <1>2, DocumentMoves DEF Document
  <2>2. ReplaceTmp(w) \/ WriteTmp(w)
    BY <1>2, <2>1, ContentsDiffer DEF Changes
  <2> QED BY <1>2, <2>2 DEF ReplaceTmp, WriteTmp, Noted
<1> QED BY <1>1, <1>2

\* What a temporary file may come to hold.
LEMMA TemporaryMoves ==
    ASSUME EntryIInv, EntryNext, NEW d \in Document, tmp'[d] # tmp[d]
    PROVE  \/ tmp'[d] \in {Absent, Empty, Torn}
           \/ \E w \in Holders(d) : WriteTmp(w) /\ tmp'[d] = Payload(w)
<1>1. EntryTypeOK
  BY DEF EntryIInv
<1>2. ASSUME NEW r \in Runs, Step(r) PROVE FALSE
  BY <1>2, StepIsBeside DEF Beside, saves
<1>3. ASSUME NEW w \in Writers, Save(w)
      PROVE  tmp'[d] \in {Absent, Empty, Torn} \/ (w \in Holders(d) /\ WriteTmp(w) /\ tmp'[d] = Payload(w))
  <2>1. CASE WriteTmp(w)
    BY <1>1, <2>1 DEF WriteTmp, WriteTo, Holders, EntryTypeOK, HoldContents
  <2>2. CASE WriteTmpFails(w)
    BY <1>1, <2>2 DEF WriteTmpFails, WriteTo, EntryTypeOK, HoldContents
  <2>3. CASE ReplaceTmp(w) \/ OpenTmp(w)
    BY <1>1, <2>3 DEF ReplaceTmp, OpenTmp, EntryTypeOK, HoldContents
  <2>4. CASE OpenTmpFails(w) \/ ReplaceTmpFails(w) \/ SaveReturns(w) \/ SaveRaises(w)
    BY <1>1, <2>4 DEF OpenTmpFails, ReplaceTmpFails, SaveReturns, SaveRaises, Finally, EntryTypeOK,
                      HoldContents
  <2> QED BY <1>3, <2>1, <2>2, <2>3, <2>4 DEF Save
<1>4. ASSUME NEW w \in Writers, Halts(w) PROVE tmp'[d] = Torn
  BY <1>1, <1>4 DEF Halts, Stops, WriteTo, EntryTypeOK, HoldContents
<1>5. CASE OpenPlain
  BY <1>5 DEF OpenPlain, saves
<1> QED BY <1>2, <1>3, <1>4, <1>5, StepKinds

-----------------------------------------------------------------------------
(* What becomes of a run. *)

\* How a run comes to its last steps, and how it leaves them.
LEMMA RunMoves ==
    ASSUME EntryIInv, EntryNext, NEW r \in Runs
    PROVE  /\ Governs(r)' \/ Installed(r)' =>
                Governs(r) \/ Installed(r) \/ (ReplaceTmp(r) /\ place[r] = "install")
           /\ place'[r] = "save_session" =>
                \/ place[r] = "save_session" /\ prior'[r] = prior[r]
                \/ prior'[r].kind = "on"
           /\ Reported(r)' => Reported(r) \/ (ReplaceTmp(r) /\ place[r] = "save_report")
           /\ place'[r] = "verdict" => place[r] = "verdict" \/ Reported(r)
           /\ Reported(r) => Reported(r)' \/ place'[r] \in {"verdict", "dead"}
           /\ place[r] \in {"verdict", "dead"} => place'[r] = place[r]
<1>1. EntryTypeOK /\ r \in Writers /\ r # PlainSession
  BY WritersAre DEF EntryIInv
<1>2. CASE place'[r] = place[r] /\ at'[r] = at[r] /\ prior'[r] = prior[r]
  BY <1>2 DEF Governs, Installed, Reported
<1>3. CASE Step(r)
  <2>1. at'[r] = at[r] /\ at[r] = "out"
    BY <1>3, StepIsBeside DEF Beside, saves
  <2>2. \A label : Goto(r, label) => place'[r] = label
    BY <1>1, GotoMoves
  <2>3. CASE Assess(r)
    <3>1. PICK late \in BOOLEAN : Goto(r, Verdict(r, late))
      BY <2>3 DEF Assess
    <3>2. Verdict(r, late) \in {"raised", "abort", "off", "install"}
      BY DEF Verdict
    <3> QED BY <2>1, <2>2, <2>3, <3>1, <3>2 DEF Assess, Governs, Installed, Reported
  <2>4. CASE Govern(r)
    BY <2>1, <2>2, <2>4 DEF Govern, Governs, Installed, Reported
  <2>5. CASE Reload(r)
    <3>1. \/ live["session"].kind = "on" /\ place'[r] = "save_session" /\ prior'[r] = live["session"]
          \/ place'[r] = "abort"
      BY <1>1, <2>2, <2>5 DEF Reload, EntryTypeOK
    <3> QED BY <2>1, <2>5, <3>1 DEF Reload, Governs, Installed, Reported
  <2>6. CASE Begin(r) \/ LoadSession(r) \/ LoadReport(r) \/ InstallTooLate(r)
    BY <2>1, <2>2, <2>6 DEF Begin, LoadSession, LoadReport, InstallTooLate, Governs, Installed,
                            Reported
  <2> QED BY <1>3, <2>3, <2>4, <2>5, <2>6 DEF Step
<1>4. CASE Save(r)
  <2>1. place[r] \in Saving /\ prior'[r] = prior[r]
    BY <1>1, <1>4, SaveMoves DEF MaySave
  <2>2. CASE OpenTmp(r) \/ OpenTmpFails(r) \/ WriteTmp(r) \/ WriteTmpFails(r)
             \/ ReplaceTmp(r) \/ ReplaceTmpFails(r)
    <3>1. place'[r] = place[r] /\ at[r] # "replaced" /\ (at'[r] = "replaced" => ReplaceTmp(r))
      BY <1>1, <2>2 DEF OpenTmp, OpenTmpFails, WriteTmp, WriteTmpFails, ReplaceTmp, ReplaceTmpFails,
                        run, EntryTypeOK
    <3> QED BY <2>1, <3>1 DEF Governs, Installed, Reported, Saving
  <2>3. CASE SaveReturns(r)
    <3>1. at[r] = "replaced" /\ at'[r] = "out" /\ place'[r] = AfterSave[place[r]]
      BY <1>1, <2>3, GotoMoves DEF SaveReturns, Finally, EntryTypeOK
    <3> QED BY <2>1, <3>1 DEF Governs, Installed, Reported, AfterSave, Saving
  <2>4. CASE SaveRaises(r)
    <3>1. at[r] # "replaced" /\ at'[r] = "out" /\ place'[r] \in {"abort", "raised"}
      BY <1>1, <2>4, GotoMoves DEF SaveRaises, Finally, EntryTypeOK
    <3> QED BY <2>1, <3>1 DEF Governs, Installed, Reported, Saving
  <2> QED BY <1>4, <2>2, <2>3, <2>4 DEF Save
<1>5. CASE Halts(r)
  <2>1. place'[r] = "dead" /\ at'[r] = "out" /\ r \in UnderWay
    BY <1>1, <1>5, StopMoves
  <2> QED BY <2>1 DEF Governs, Installed, Reported, UnderWay, Outcomes
<1>6. CASE OpenPlain
  BY <1>2, <1>6 DEF OpenPlain, saves, run
<1>7. ASSUME NEW q \in Runs \ {r}, Step(q) PROVE place'[r] = place[r] /\ at'[r] = at[r] /\ prior'[r] = prior[r]
  BY <1>7, StepIsBeside DEF Beside, saves
<1>8. ASSUME NEW w \in Writers \ {r}, Save(w) \/ Halts(w)
      PROVE  place'[r] = place[r] /\ at'[r] = at[r] /\ prior'[r] = prior[r]
  BY <1>1, <1>8, SaveMoves, StopMoves
<1> QED BY <1>2, <1>3, <1>4, <1>5, <1>6, <1>7, <1>8, StepKinds

\* What holds of a run before a step.
LEMMA Before ==
    ASSUME EntryIInv, NEW r \in Runs
    PROVE  /\ NotCrossed(r) /\ MarkerIsThere(r) /\ ReportIsThere(r)
           /\ EvidenceStays(r) /\ AloneSoFar(r) /\ IdentityStays(r)
           /\ EntryTypeOK /\ r \in Writers /\ r # PlainSession
BY WritersAre DEF EntryIInv, RunHolds

\* The marker stays while nobody disturbs it, but for a plain session that
\* writes over it.
LEMMA MarkerStays ==
    ASSUME EntryIInv, EntryNext, NEW r \in Runs
    PROVE  MarkerIsThere(r)'
<1>1. place'[r] = "save_session" => prior'[r].kind = "on"
  BY RunMoves, Before DEF MarkerIsThere
<1>2. ASSUME Governs(r)' \/ Installed(r)', r \notin cleared', r \notin crossed'["session"]
      PROVE  live'["session"].kind = "on"
  <2>1. r \notin cleared /\ r \notin crossed["session"]
    BY <1>2, HistoryGrows DEF Document
  <2>2. \/ Governs(r) \/ Installed(r)
        \/ ReplaceTmp(r) /\ place[r] = "install"
    BY <1>2, RunMoves
  <2>3. Counts(r, "session")
    BY <2>2 DEF Counts, Installed, ReplaceTmp
  <2>4. Undisturbed("session") /\ r \in UnderWay
    BY <2>1, <2>3, Before, WhatCounts DEF NotCrossed, Document
  <2>5. CASE live'["session"] # live["session"]
    <3>1. PICK w \in Holders("session") : ReplaceTmp(w) /\ live'["session"] = Payload(w)
      BY <2>4, <2>5, UndisturbedMoves DEF Document
    <3>2. Payload(w) = Off \/ Payload(w).kind = "on"
      BY HoldersMaySave, Payloads
    <3>3. ASSUME Payload(w) = Off, ReplaceTmp(r), place[r] = "install" PROVE FALSE
      <4>1. r \in Holders("session") /\ MaySave(r) /\ Doc(r) = "session"
        BY <3>3, Before DEF Holders, ReplaceTmp, Doc, EntryIInv, SaveUnderWay
      <4>2. r = w
        BY <2>4, <4>1 DEF Undisturbed
      <4> QED BY <3>3, <4>1, <4>2, Payloads, Before, ContentsDiffer
    <3>4. ASSUME Payload(w) = Off, place[r] # "install" \/ ~ReplaceTmp(r) PROVE FALSE
      <4>1. live["session"].kind = "on"
        BY <2>1, <2>2, <3>4, Before DEF MarkerIsThere
      <4>2. r \in cleared'
        BY <2>4, <3>1, <3>4, <4>1, ContentsDiffer, DocumentsRemain
      <4> QED BY <1>2, <4>2
    <3> QED BY <3>1, <3>2, <3>3, <3>4
  <2>6. CASE live'["session"] = live["session"]
    <3>1. ASSUME ReplaceTmp(r), place[r] = "install" PROVE live'["session"].kind = "on"
      <4>1. /\ r \in Holders("session") /\ MaySave(r) /\ Doc(r) = "session"
            /\ live'["session"] = tmp["session"] /\ tmp["session"] # Absent /\ at[r] = "written"
        BY <3>1, Before DEF Holders, ReplaceTmp, Doc, EntryIInv, SaveUnderWay, EntryTypeOK, HoldContents,
                            Document
      <4>2. tmp["session"] = Payload(r)
        BY <2>4, <4>1 DEF Undisturbed, Clean
      <4> QED BY <4>1, <4>2, Payloads, Before
    <3>2. ASSUME Governs(r) \/ Installed(r) PROVE live'["session"].kind = "on"
      BY <2>1, <2>6, <3>2, Before DEF MarkerIsThere
    <3> QED BY <2>2, <3>1, <3>2
  <2> QED BY <2>5, <2>6
<1> QED BY <1>1, <1>2 DEF MarkerIsThere

-----------------------------------------------------------------------------
(* The report. *)

\* A run is reported when its report comes to be the document, and only then.
LEMMA ReportsAreNoted ==
    ASSUME EntryIInv, EntryNext, NEW r \in Runs
    PROVE  /\ live'["report"] = ReportOf(r) => r \in reported'
           /\ r \in reported' /\ r \notin reported =>
                  live'["report"] = ReportOf(r) /\ live'["report"] # live["report"]
<1>1. live["report"] = ReportOf(r) => r \in reported
  BY Before DEF ReportIsThere
<1>2. ASSUME live'["report"] = ReportOf(r), live'["report"] # live["report"] PROVE r \in reported'
  <2>1. PICK w \in Holders("report") : Changes("report", w)
    BY <1>2, DocumentMoves DEF Document
  <2>2. ReplaceTmp(w) \/ WriteTmp(w)
    BY <1>2, <2>1, ContentsDiffer DEF Changes
  <2> QED BY <1>2, <2>2 DEF ReplaceTmp, WriteTmp, Noted
<1>3. live'["report"] = ReportOf(r) => r \in reported'
  BY <1>1, <1>2, HistoryGrows
<1>4. ASSUME r \in reported', r \notin reported PROVE live'["report"] = ReportOf(r)
  <2>1. \E w \in Writers : Save(w)
    BY <1>4, StepKinds, StepIsBeside, StopMoves DEF Beside, OpenPlain, history
  <2>2. PICK w \in Writers : Save(w)
    BY <2>1
  <2>3. WriteTmp(w) \/ ReplaceTmp(w)
    BY <1>4, <2>2 DEF Save, OpenTmp, OpenTmpFails, WriteTmpFails, ReplaceTmpFails, SaveReturns,
                      SaveRaises, history
  <2> QED BY <1>4, <2>3 DEF WriteTmp, ReplaceTmp, Noted
<1> QED BY <1>1, <1>3, <1>4

\* In a run that is not crossed, its report is where the run has put it.
LEMMA ReportStays ==
    ASSUME EntryIInv, EntryNext, NEW r \in Runs
    PROVE  ReportIsThere(r)'
<1>1. live'["report"] = ReportOf(r) => r \in reported'
  BY ReportsAreNoted
<1> SUFFICES ASSUME r \notin crossed'["report"]
             PROVE  /\ tmp'["report"] = ReportOf(r) => Holders("report")' \subseteq {r}
                    /\ r \in reported' => Reported(r)' \/ place'[r] \in {"verdict", "dead"}
                    /\ Reported(r)' \/ place'[r] = "verdict" => r \in reported'
  BY <1>1 DEF ReportIsThere
<1>2. /\ tmp["report"] = ReportOf(r) => Holders("report") \subseteq {r}
      /\ r \in reported => Reported(r) \/ place[r] \in {"verdict", "dead"}
      /\ Reported(r) \/ place[r] = "verdict" => r \in reported
  BY Before, HistoryGrows DEF ReportIsThere, Document
<1>3. ASSUME r \in Holders("report")
      PROVE  Holders("report") = {r} /\ Clean(r) /\ Payload(r) = ReportOf(r) /\ Doc(r) = "report"
  <2>1. MaySave(r) /\ Doc(r) = "report" /\ at[r] \in {"opened", "written"} /\ place[r] = "save_report"
    BY <1>3, HoldersMaySave DEF Holders, Doc
  <2>2. Undisturbed("report")
    BY <2>1, Before, HistoryGrows DEF NotCrossed, Counts, Document
  <2> QED BY <1>3, <2>1, <2>2, Payloads, Before DEF Undisturbed
<1>4. ASSUME NEW w \in Holders("report") PROVE Payload(w) = ReportOf(w)
  BY HoldersMaySave, Payloads
<1>5. ASSUME tmp'["report"] = ReportOf(r) PROVE Holders("report")' \subseteq {r}
  <2>1. Holders("report") \subseteq {r}
    <3>1. CASE tmp'["report"] = tmp["report"]
      BY <1>2, <1>5, <3>1
    <3>2. CASE tmp'["report"] # tmp["report"]
      <4>1. PICK w \in Holders("report") : tmp'["report"] = Payload(w)
        BY <1>5, <3>2, TemporaryMoves, ContentsDiffer DEF Document
      <4>2. w = r
        BY <1>4, <1>5, <4>1, ContentsDiffer
      <4> QED BY <1>3, <4>1, <4>2
    <3> QED BY <3>1, <3>2
  <2>2. ASSUME NEW v \in Holders("report")' PROVE v \in Holders("report")
    <3> SUFFICES ASSUME OpenTmp(v) PROVE FALSE
      BY HoldersStay DEF Document
    <3>1. v \in Writers /\ at'[v] # "out" /\ Doc(v)' = "report"
      BY DEF Holders
    <3>2. Doc(v) = "report"
      BY <3>1, WritersSteady
    <3>3. tmp'["report"] = Empty
      BY <3>2, Before DEF OpenTmp, EntryTypeOK, HoldContents, Document
    <3> QED BY <1>5, <3>3, ContentsDiffer
  <2> QED BY <2>1, <2>2
<1>6. ASSUME r \in reported' PROVE Reported(r)' \/ place'[r] \in {"verdict", "dead"}
  <2>1. CASE r \in reported
    BY <1>2, <2>1, RunMoves
  <2>2. CASE r \notin reported
    <3>1. live'["report"] = ReportOf(r) /\ live'["report"] # live["report"]
      BY <1>6, <2>2, ReportsAreNoted
    <3>2. PICK w \in Holders("report") : Changes("report", w)
      BY <3>1, DocumentMoves DEF Document
    <3>3. w = r
      BY <1>2, <1>4, <3>1, <3>2, ContentsDiffer DEF Changes
    <3>4. ReplaceTmp(r)
      <4>1. hand[r] # "live" \/ at[r] # "opened"
        BY <1>3, <3>2, <3>3 DEF Clean
      <4> QED BY <3>2, <3>3, <4>1 DEF Changes, WriteTmp
    <3>5. place[r] = "save_report"
      BY <1>3, <3>2, <3>3 DEF Doc
    <3> QED BY <3>4, <3>5, Before DEF ReplaceTmp, Reported, run, EntryTypeOK
  <2> QED BY <2>1, <2>2
<1>7. ASSUME Reported(r)' \/ place'[r] = "verdict" PROVE r \in reported'
  <2>1. CASE Reported(r) \/ place[r] = "verdict"
    BY <1>2, <2>1, HistoryGrows
  <2>2. CASE ReplaceTmp(r) /\ place[r] = "save_report"
    <3>1. r \in Holders("report") /\ at[r] = "written" /\ tmp["report"] # Absent
          /\ live'["report"] = tmp["report"]
      BY <2>2, Before DEF Holders, ReplaceTmp, Doc, EntryTypeOK, HoldContents, Document
    <3>2. tmp["report"] = ReportOf(r)
      BY <1>3, <3>1 DEF Clean
    <3> QED BY <1>1, <3>1, <3>2
  <2> QED BY <1>7, <2>1, <2>2, RunMoves
<1> QED BY <1>5, <1>6, <1>7

-----------------------------------------------------------------------------
(* What a run has found. *)

\* A run that takes no step of its own but a save keeps what it has loaded.
LEMMA Elsewhere ==
    ASSUME EntryIInv, EntryNext, NEW r \in Runs, ~Step(r)
    PROVE  /\ found'[r] = found[r] /\ prior'[r] = prior[r] /\ evidence'[r] = evidence[r]
           /\ setting' = setting
           /\ alone'[r] => alone[r]
           /\ \/ place'[r] = place[r]
              \/ place[r] = "install" /\ place'[r] = "govern"
              \/ place[r] = "save_session" /\ place'[r] = "save_report"
              \/ place[r] = "save_report" /\ place'[r] = "verdict"
              \/ r \in UnderWay /\ place'[r] \in {"abort", "raised", "dead"}
<1>1. ASSUME NEW q \in Runs, Step(q) PROVE q # r /\ Beside(q)
  BY <1>1, StepIsBeside
<1>2. ASSUME NEW w \in Writers, Save(w), w # r PROVE place'[r] = place[r]
  BY <1>2, SaveMoves
<1>3. CASE Save(r)
  <2>1. EntryTypeOK /\ r \in Writers /\ r # PlainSession
    BY Before
  <2>2. place[r] \in Saving /\ r \in UnderWay
    BY <1>3, <2>1, SaveMoves DEF MaySave, Saving, UnderWay, Outcomes
  <2>3. CASE SaveReturns(r)
    <3>1. place'[r] = AfterSave[place[r]]
      BY <2>1, <2>3, GotoMoves DEF SaveReturns
    <3> QED BY <1>3, <2>1, <2>2, <3>1, SaveMoves DEF AfterSave, Saving
  <2>4. CASE SaveRaises(r)
    <3>1. place'[r] \in {"abort", "raised"}
      BY <2>1, <2>4, GotoMoves DEF SaveRaises
    <3> QED BY <1>3, <2>1, <2>2, <3>1, SaveMoves
  <2>5. CASE ~SaveReturns(r) /\ ~SaveRaises(r)
    <3>1. place' = place
      BY <1>3, <2>5 DEF Save, OpenTmp, OpenTmpFails, WriteTmp, WriteTmpFails, ReplaceTmp,
                        ReplaceTmpFails, run
    <3> QED BY <1>3, <2>1, <3>1, SaveMoves
  <2> QED BY <2>3, <2>4, <2>5
<1>4. ASSUME NEW w \in Writers, Halts(w)
      PROVE  /\ UNCHANGED <<setting, prior, evidence, history>>
             /\ place'[r] = place[r] \/ (r \in UnderWay /\ place'[r] = "dead")
  <2>1. CASE w = r
    BY <1>4, <2>1, StopMoves, Before
  <2>2. CASE w # r
    BY <1>4, <2>2, StopMoves
  <2> QED BY <1>4, <2>1, <2>2, StopMoves
<1>5. CASE OpenPlain
  BY <1>5, Before DEF OpenPlain, run, EntryTypeOK
<1>6. CASE \E q \in Runs : Step(q)
  BY <1>1, <1>6 DEF Beside
<1>7. CASE \E w \in Writers : Save(w)
  BY <1>2, <1>3, <1>7, SaveMoves
<1>8. CASE \E w \in Writers : Halts(w)
  BY <1>4, <1>8 DEF history
<1> QED BY <1>5, <1>6, <1>7, <1>8, StepKinds

\* A run is under way from when it begins.
LEMMA OnlyBegins ==
    ASSUME EntryIInv, EntryNext, NEW r \in Runs, r \in UnderWay'
    PROVE  r \in UnderWay \/ Begin(r)
<1>1. CASE Step(r)
  <2>1. CASE place[r] = "idle"
    BY <1>1, <2>1 DEF Step, LoadSession, LoadReport, Assess, InstallTooLate, Govern, Reload
  <2> QED BY <1>1, <2>1, StepIsBeside
<1>2. CASE ~Step(r)
  BY <1>2, Elsewhere DEF UnderWay, Outcomes
<1> QED BY <1>1, <1>2

\* Evidence is in the documents until it is loaded, and then in the run.
LEMMA EvidenceRemains ==
    ASSUME EntryIInv, EntryNext, NEW r \in Runs
    PROVE  EvidenceStays(r)'
<1>1. EvidenceStays(r) /\ EntryTypeOK /\ live["session"] \in SessionContents
  BY Before DEF EntryTypeOK, HoldContents
<1>2. \A label : Goto(r, label) => place'[r] = label
  BY <1>1, GotoMoves
<1>3. cleared \subseteq cleared'
  BY HistoryGrows
<1>4. CASE Begin(r)
  <2>1. /\ live' = live
        /\ found'[r] = [identity |-> live["session"].of, report |-> live["report"] # Absent]
        /\ place'[r] \in {"load_session", "raised"}
    BY <1>1, <1>2, <1>4 DEF Begin, saves, EntryTypeOK
  <2>2. found'[r].identity # None => live'["session"] \notin {Absent, Off}
    BY <2>1, ContentsDiffer
  <2>3. found'[r].report => live'["report"] # Absent
    <3> SUFFICES ASSUME live["report"] = Absent PROVE ~found'[r].report
      BY <2>1
    <3>1. found' = [found EXCEPT ![r] = [identity |-> live["session"].of, report |-> FALSE]]
      BY <1>4 DEF Begin
    <3> QED BY <1>1, <3>1 DEF EntryTypeOK
  <2>4. place'[r] \notin {"assess", "off"} \cup Loaded
    BY <2>1 DEF Loaded
  <2> QED BY <2>2, <2>3, <2>4 DEF EvidenceStays
<1>5. CASE Step(r) /\ ~Begin(r)
  <2>1. live' = live /\ found' = found
    BY <1>5, StepIsBeside DEF Beside, saves, Step, LoadSession, LoadReport, Assess, InstallTooLate,
                              Govern, Reload, history
  <2>2. CASE LoadSession(r)
    <3>1. \/ place'[r] = "load_report" /\ prior'[r] = live["session"] /\ ~Damaged(live["session"])
          \/ place'[r] = "raised"
      BY <1>1, <1>2, <2>2 DEF LoadSession, EntryTypeOK
    <3>2. live["session"] \notin {Absent, Off} /\ ~Damaged(live["session"]) => live["session"].kind = "on"
      BY <1>1, MarkersAre DEF Damaged
    <3> QED BY <1>1, <1>3, <2>1, <2>2, <3>1, <3>2 DEF EvidenceStays, Loaded, LoadSession
  <2>3. CASE LoadReport(r)
    <3>1. /\ prior' = prior
          /\ \/ place'[r] = "assess" /\ evidence'[r] = (live["report"] # Absent)
             \/ place'[r] = "raised"
      BY <1>1, <1>2, <2>3 DEF LoadReport, EntryTypeOK
    <3> QED BY <1>1, <1>3, <2>1, <2>3, <3>1 DEF EvidenceStays, Loaded, LoadReport
  <2>4. CASE Assess(r)
    <3>1. PICK late \in BOOLEAN : Goto(r, Verdict(r, late))
      BY <2>4 DEF Assess
    <3>2. /\ Verdict(r, late) \in {"raised", "abort", "off", "install"}
          /\ Verdict(r, late) = "off" => ~Required(r)
      BY DEF Verdict
    <3>3. ~Required(r) => ~found[r].report /\ (found[r].identity = None \/ r \in cleared)
      BY <1>1, <2>4 DEF Required, EvidenceStays, Assess, Loaded
    <3> QED BY <1>1, <1>2, <1>3, <2>1, <2>4, <3>1, <3>2, <3>3 DEF EvidenceStays, Loaded, Assess
  <2>5. CASE InstallTooLate(r) \/ Govern(r) \/ Reload(r)
    <3>1. place'[r] \in {"abort", "raised", "reload", "save_session"}
      BY <1>2, <2>5 DEF InstallTooLate, Govern, Reload
    <3> QED BY <1>1, <2>1, <3>1 DEF EvidenceStays, Loaded
  <2> QED BY <1>5, <2>2, <2>3, <2>4, <2>5 DEF Step
<1>6. CASE ~Step(r)
  <2>1. found'[r] = found[r] /\ prior'[r] = prior[r] /\ evidence'[r] = evidence[r]
    BY <1>6, Elsewhere
  <2>2. place'[r] = place[r] \/ place'[r] \notin {"load_session", "assess", "off"} \cup Loaded
    BY <1>6, Elsewhere DEF Loaded
  <2>3. live'["report"] = live["report"] \/ live'["report"] # Absent
    BY DocumentsRemain DEF Document
  <2>4. ASSUME r \notin cleared', place[r] = "load_session", live["session"] \notin {Absent, Off}
        PROVE  live'["session"] \notin {Absent, Off}
    <3>1. r \in UnderWay
      BY <2>4 DEF UnderWay, Outcomes
    <3> QED BY <2>4, <3>1, DocumentsRemain DEF Document
  <2> QED BY <1>1, <1>3, <2>1, <2>2, <2>3, <2>4 DEF EvidenceStays
<1> QED BY <1>4, <1>5, <1>6

\* Nothing joins a run that stays alone.
LEMMA AloneStays ==
    ASSUME EntryIInv, EntryNext, NEW r \in Runs
    PROVE  AloneSoFar(r)'
<1> SUFFICES ASSUME alone'[r], r \in UnderWay' PROVE UnderWay' = {r} /\ ~plain'
  BY DEF AloneSoFar
<1>1. EntryTypeOK /\ AloneSoFar(r) /\ r \in Writers /\ r # PlainSession
  BY Before
<1>2. UnderWay' \subseteq Runs
  BY DEF UnderWay
<1>3. CASE Begin(r)
  <2>1. UnderWay = {} /\ ~plain /\ plain' = plain
    BY <1>1, <1>3 DEF Begin, EntryTypeOK
  <2>2. ASSUME NEW q \in UnderWay', q # r PROVE FALSE
    <3>1. place'[q] = place[q]
      BY <1>2, <1>3, <2>2, StepIsBeside DEF Beside, Step
    <3> QED BY <1>2, <2>1, <2>2, <3>1 DEF UnderWay
  <2> QED BY <2>1, <2>2
<1>4. CASE ~Begin(r)
  <2>1. r \in UnderWay
    BY <1>4, OnlyBegins
  <2>2. alone[r]
    BY <1>4, Elsewhere, StepIsBeside DEF Step, Begin, LoadSession, LoadReport, Assess,
                                         InstallTooLate, Govern, Reload, history
  <2>3. UnderWay = {r} /\ ~plain
    BY <1>1, <2>1, <2>2 DEF AloneSoFar
  <2>4. ASSUME NEW q \in UnderWay', q # r PROVE FALSE
    <3>1. q \in Runs /\ Begin(q)
      BY <1>2, <2>3, <2>4, OnlyBegins
    <3>2. Beside(q)
      BY <3>1, StepIsBeside DEF Step
    <3> QED BY <2>1, <2>4, <3>2 DEF Beside
  <2>5. ~plain'
    <3>1. CASE OpenPlain
      BY <1>1, <2>1, <3>1 DEF OpenPlain, EntryTypeOK
    <3>2. CASE \E q \in Runs : Step(q)
      BY <2>3, <3>2, StepIsBeside DEF Beside
    <3>3. CASE \E w \in Writers : Save(w)
      BY <2>3, <3>3, SaveMoves
    <3>4. CASE \E w \in Writers : Halts(w)
      BY <2>3, <3>4, StopMoves
    <3> QED BY <3>1, <3>2, <3>3, <3>4, StepKinds
  <2>6. r \in UnderWay'
    OBVIOUS
  <2> QED BY <2>4, <2>5, <2>6
<1> QED BY <1>3, <1>4

\* A run that is alone goes on with the identity it found.
LEMMA IdentityRemains ==
    ASSUME EntryIInv, EntryNext, NEW r \in Runs
    PROVE  IdentityStays(r)'
<1> SUFFICES ASSUME alone'[r], found'[r].identity # None
             PROVE  /\ place'[r] = "load_session" => live'["session"].of = found'[r].identity
                    /\ place'[r] \in Loaded =>
                          prior'[r].kind = "on" /\ prior'[r].of = found'[r].identity
                    /\ place'[r] \in {"install", "verdict"} \/ Governs(r)' =>
                          Identity(setting'[r]) = found'[r].identity
  BY DEF IdentityStays
<1>1. /\ EntryTypeOK /\ live["session"] \in SessionContents
      /\ AloneSoFar(r) /\ IdentityStays(r)
  BY Before DEF EntryTypeOK, HoldContents
<1>2. \A label : Goto(r, label) => place'[r] = label
  BY <1>1, GotoMoves
<1>3. CASE Begin(r)
  <2>1. /\ live' = live /\ found'[r].identity = live["session"].of
        /\ place'[r] \in {"load_session", "raised"}
    BY <1>1, <1>2, <1>3 DEF Begin, saves, EntryTypeOK
  <2> QED BY <2>1 DEF Loaded, Governs
<1>4. CASE Step(r) /\ ~Begin(r)
  <2>1. /\ live' = live /\ found' = found /\ alone' = alone /\ setting' = setting
    BY <1>4, StepIsBeside DEF Beside, saves, Step, LoadSession, LoadReport, Assess, InstallTooLate,
                              Govern, Reload, history
  <2>2. CASE LoadSession(r)
    <3>1. \/ place'[r] = "load_report" /\ prior'[r] = live["session"]
          \/ place'[r] = "raised"
      BY <1>1, <1>2, <2>2 DEF LoadSession, EntryTypeOK
    <3>2. live["session"].of = found[r].identity
      BY <1>1, <2>1, <2>2 DEF IdentityStays, LoadSession
    <3>3. live["session"].kind = "on"
      BY <1>1, <2>1, <3>2, MarkersAre
    <3> QED BY <2>1, <3>1, <3>2, <3>3 DEF Governs, Loaded
  <2>3. CASE LoadReport(r)
    <3>1. prior' = prior /\ place[r] \in Loaded /\ place'[r] \in {"assess", "raised"}
      BY <1>2, <2>3 DEF LoadReport, Loaded
    <3> QED BY <1>1, <2>1, <3>1 DEF IdentityStays, Governs, Loaded
  <2>4. CASE Assess(r)
    <3>1. PICK late \in BOOLEAN : Goto(r, Verdict(r, late))
      BY <2>4 DEF Assess
    <3>2. prior[r].kind = "on" /\ prior[r].of = found[r].identity
      BY <1>1, <2>1, <2>4 DEF IdentityStays, Loaded, Assess
    <3>3. /\ Verdict(r, late) \in {"raised", "abort", "off", "install"}
          /\ Verdict(r, late) = "install" => Identity(setting[r]) = prior[r].of
      BY <3>2 DEF Verdict
    <3> QED BY <1>2, <2>1, <3>1, <3>2, <3>3 DEF Governs, Loaded
  <2>5. CASE InstallTooLate(r) \/ Govern(r) \/ Reload(r)
    <3>1. \/ place'[r] = "abort" \/ place'[r] = "raised"
          \/ Governs(r) /\ place'[r] \in {"reload", "save_session"}
      BY <1>2, <2>5 DEF InstallTooLate, Govern, Reload, Governs
    <3> QED BY <1>1, <2>1, <3>1 DEF IdentityStays, Governs, Loaded
  <2> QED BY <1>4, <2>2, <2>3, <2>4, <2>5 DEF Step
<1>5. CASE ~Step(r)
  <2>1. found'[r] = found[r] /\ prior'[r] = prior[r] /\ setting' = setting /\ alone[r]
    BY <1>5, Elsewhere
  <2>2. place'[r] \in {"install", "verdict"} \/ Governs(r)' =>
            place[r] \in {"install", "verdict"} \/ Governs(r)
    BY <1>5, Elsewhere DEF Governs
  <2>3. place'[r] \in {"load_session"} \cup Loaded => place'[r] = place[r]
    BY <1>5, Elsewhere DEF Loaded
  <2>4. ASSUME place[r] = "load_session" PROVE live'["session"] = live["session"]
    <3> SUFFICES ASSUME NEW w \in Holders("session") PROVE FALSE
      BY DocumentMoves DEF Document
    <3>1. UnderWay = {r} /\ ~plain
      BY <1>1, <2>1, <2>4 DEF AloneSoFar, UnderWay, Outcomes
    <3>2. w \in Writers /\ at[w] # "out"
      BY HoldersMaySave
    <3>3. w # PlainSession
      BY <3>1, <3>2, SavingPlain
    <3>4. w \in UnderWay /\ place[w] \in Saving
      BY <3>2, <3>3, SavingRuns, WritersAre
    <3> QED BY <2>4, <3>1, <3>4 DEF Saving
  <2> QED BY <1>1, <2>1, <2>2, <2>3, <2>4 DEF IdentityStays
<1> QED BY <1>3, <1>4, <1>5

-----------------------------------------------------------------------------
(* Types, and the induction. *)

LEMMA FilesAre ==
    ASSUME NEW files, HoldContents(files), NEW d \in Document, NEW c,
           d = "session" => c \in SessionContents, d = "report" => c \in ReportContents
    PROVE  HoldContents([files EXCEPT ![d] = c])
BY DEF HoldContents, Document

\* What the two files of a document may come to hold.
LEMMA WritesAre ==
    ASSUME EntryIInv, NEW w \in Writers, NEW c, WriteTo(w, c),
           c = Torn \/ (c = Payload(w) /\ MaySave(w))
    PROVE  HoldContents(live)' /\ HoldContents(tmp)'
<1>1. /\ HoldContents(live) /\ HoldContents(tmp) /\ Doc(w) \in Document
  BY DocOf DEF EntryIInv, EntryTypeOK
<1>2. /\ Doc(w) = "session" => c \in SessionContents
      /\ Doc(w) = "report" => c \in ReportContents
  BY Payloads DEF SessionContents, ReportContents
<1>3. HoldContents([live EXCEPT ![Doc(w)] = c]) /\ HoldContents([tmp EXCEPT ![Doc(w)] = c])
  BY <1>1, <1>2, FilesAre
<1>4. HoldContents(live') /\ HoldContents(tmp')
  BY <1>1, <1>3 DEF WriteTo
<1> QED BY <1>4 DEF HoldContents

LEMMA SaveTypes ==
    ASSUME EntryIInv, NEW w \in Writers, Save(w)
    PROVE  EntryTypeOK'
<1>1. /\ EntryTypeOK /\ MaySave(w) /\ Doc(w) \in Document
      /\ UNCHANGED <<plain, setting, prior, evidence, found, alone>>
  BY SaveMoves, DocOf DEF EntryIInv
<1>2. HoldContents(live)' /\ HoldContents(tmp)'
  <2>1. HoldContents(live) /\ HoldContents(tmp)
    BY <1>1 DEF EntryTypeOK
  <2>2. CASE UNCHANGED <<live, tmp>>
    BY <2>1, <2>2 DEF HoldContents
  <2>3. CASE live' = live /\ \E c \in {Absent, Empty} : tmp' = [tmp EXCEPT ![Doc(w)] = c]
    <3>1. PICK c \in {Absent, Empty} : tmp' = [tmp EXCEPT ![Doc(w)] = c]
      BY <2>3
    <3>2. HoldContents([tmp EXCEPT ![Doc(w)] = c])
      BY <1>1, <2>1, FilesAre DEF SessionContents, ReportContents
    <3> QED BY <2>1, <2>3, <3>1, <3>2 DEF HoldContents
  <2>4. CASE ReplaceTmp(w)
    <3>1. Absent \in SessionContents /\ Absent \in ReportContents
      BY DEF SessionContents, ReportContents
    <3>2. HoldContents([live EXCEPT ![Doc(w)] = tmp[Doc(w)]])
          /\ HoldContents([tmp EXCEPT ![Doc(w)] = Absent])
      <4>1. /\ Doc(w) = "session" => tmp[Doc(w)] \in SessionContents
            /\ Doc(w) = "report" => tmp[Doc(w)] \in ReportContents
        BY <2>1 DEF HoldContents
      <4> QED BY <1>1, <2>1, <3>1, <4>1, FilesAre
    <3> QED BY <2>4, <3>2 DEF ReplaceTmp, HoldContents
  <2>5. CASE WriteTmp(w)
    BY <1>1, <2>5, WritesAre DEF WriteTmp
  <2>6. CASE WriteTmpFails(w)
    BY <2>2, <2>6, WritesAre DEF WriteTmpFails
  <2>7. CASE OpenTmp(w) \/ OpenTmpFails(w) \/ ReplaceTmpFails(w) \/ SaveReturns(w) \/ SaveRaises(w)
    BY <2>2, <2>3, <2>7 DEF OpenTmp, OpenTmpFails, ReplaceTmpFails, SaveReturns, SaveRaises, Finally
  <2> QED BY <2>4, <2>5, <2>6, <2>7 DEF Save
<1>3. hand' \in [Writers -> {"none", "tmp", "live", "gone"}]
  <2>1. hand \in [Writers -> {"none", "tmp", "live", "gone"}]
    BY <1>1 DEF EntryTypeOK
  <2>2. ASSUME NEW d
        PROVE  /\ Renamed(d, [tmp |-> "live", live |-> "gone"]) \in [Writers -> {"none", "tmp", "live", "gone"}]
               /\ Renamed(d, [tmp |-> "gone"]) \in [Writers -> {"none", "tmp", "live", "gone"}]
    BY <2>1 DEF Renamed
  <2> QED BY <2>1, <2>2 DEF Save, OpenTmp, OpenTmpFails, WriteTmp, WriteTmpFails, ReplaceTmp,
                            ReplaceTmpFails, SaveReturns, SaveRaises, Finally
<1>4. at' \in [Writers -> {"out", "opened", "written", "replaced", "failing", "escaping"}]
  BY <1>1 DEF EntryTypeOK, Save, OpenTmp, OpenTmpFails, WriteTmp, WriteTmpFails, ReplaceTmp,
              ReplaceTmpFails, SaveReturns, SaveRaises, Finally
<1>5. /\ cleared' \subseteq Runs /\ reported' \subseteq Runs
      /\ crossed' \in [Document -> SUBSET Runs]
  BY <1>1 DEF EntryTypeOK, Save, OpenTmp, OpenTmpFails, WriteTmp, WriteTmpFails, ReplaceTmp,
              ReplaceTmpFails, SaveReturns, SaveRaises, Noted, UnderWay, history
<1>6. place' \in [Runs -> {"idle", "load_session", "load_report", "assess", "govern", "reload",
                           "dead"} \cup Saving \cup Outcomes]
  <2>1. CASE place' = place
    BY <1>1, <2>1 DEF EntryTypeOK
  <2>2. CASE SaveReturns(w) /\ w \in Runs
    <3>1. AfterSave[place[w]] \in {"govern", "save_report", "verdict"}
      BY <1>1, <2>2, WritersAre DEF MaySave, AfterSave, Saving
    <3> QED BY <1>1, <2>2, <3>1 DEF SaveReturns, Goto, EntryTypeOK, Saving, Outcomes
  <2>3. CASE SaveRaises(w) /\ w \in Runs
    BY <1>1, <2>3 DEF SaveRaises, Goto, EntryTypeOK, Outcomes
  <2> QED BY <2>1, <2>2, <2>3 DEF Save, OpenTmp, OpenTmpFails, WriteTmp, WriteTmpFails, ReplaceTmp,
                                  ReplaceTmpFails, SaveReturns, SaveRaises, run
<1> QED BY <1>1, <1>2, <1>3, <1>4, <1>5, <1>6 DEF EntryTypeOK

LEMMA StepTypes ==
    ASSUME EntryIInv, NEW r \in Runs, Step(r)
    PROVE  EntryTypeOK'
<1>1. EntryTypeOK /\ UNCHANGED <<saves, plain, setting, cleared, crossed, reported>>
  BY StepIsBeside DEF EntryIInv, Beside
<1>2. live["session"] \in SessionContents /\ live["session"].of \in Identities \cup {None}
  BY <1>1, MarkersAre DEF EntryTypeOK, HoldContents
<1>3. place' \in [Runs -> {"idle", "load_session", "load_report", "assess", "govern", "reload",
                           "dead"} \cup Saving \cup Outcomes]
  <2>1. \A late : Verdict(r, late) \in {"raised", "abort", "off", "install"}
    BY DEF Verdict
  <2>2. PICK label \in {"load_session", "load_report", "assess", "reload"} \cup Saving \cup Outcomes :
          Goto(r, label)
    <3>1. CASE Assess(r)
      BY <2>1, <3>1 DEF Assess, Saving, Outcomes
    <3>2. CASE Begin(r) \/ LoadSession(r) \/ LoadReport(r)
      BY <3>2 DEF Begin, LoadSession, LoadReport, Outcomes
    <3>3. CASE InstallTooLate(r) \/ Govern(r) \/ Reload(r)
      BY <3>3 DEF InstallTooLate, Govern, Reload, Saving, Outcomes
    <3> QED BY <3>1, <3>2, <3>3 DEF Step
  <2> QED BY <1>1, <2>2 DEF Goto, EntryTypeOK
<1>4. prior' \in [Runs -> SessionContents]
  BY <1>1, <1>2 DEF Step, Begin, LoadSession, LoadReport, Assess, InstallTooLate, Govern, Reload,
                    EntryTypeOK
<1>5. evidence' \in [Runs -> BOOLEAN]
  BY <1>1 DEF Step, Begin, LoadSession, LoadReport, Assess, InstallTooLate, Govern, Reload,
              EntryTypeOK
<1>6. /\ found' \in [Runs -> [identity : Identities \cup {None}, report : BOOLEAN]]
      /\ alone' \in [Runs -> BOOLEAN]
  <2>1. CASE Begin(r)
    <3>1. [identity |-> live["session"].of, report |-> live["report"] # Absent]
             \in [identity : Identities \cup {None}, report : BOOLEAN]
      BY <1>2
    <3> QED BY <1>1, <2>1, <3>1 DEF Begin, EntryTypeOK
  <2>2. CASE ~Begin(r)
    BY <1>1, <2>2 DEF Step, LoadSession, LoadReport, Assess, InstallTooLate, Govern, Reload, history,
                      EntryTypeOK
  <2> QED BY <2>1, <2>2
<1> QED BY <1>1, <1>3, <1>4, <1>5, <1>6 DEF EntryTypeOK, HoldContents, saves

LEMMA StopTypes ==
    ASSUME EntryIInv, NEW w \in Writers, Halts(w)
    PROVE  EntryTypeOK'
<1>1. EntryTypeOK /\ UNCHANGED <<setting, prior, evidence, history>>
  BY StopMoves DEF EntryIInv
<1>2. HoldContents(live)' /\ HoldContents(tmp)'
  <2>1. CASE UNCHANGED <<live, tmp>>
    BY <1>1, <2>1 DEF EntryTypeOK, HoldContents
  <2>2. CASE WriteTo(w, Torn)
    BY <2>2, WritesAre
  <2> QED BY <2>1, <2>2 DEF Halts, Stops
<1>3. /\ at' = [at EXCEPT ![w] = "out"] /\ hand' = [hand EXCEPT ![w] = "none"]
  BY DEF Halts, Stops
<1>4. /\ plain' \in BOOLEAN
      /\ place' = place \/ (w \in Runs /\ place' = [place EXCEPT ![w] = "dead"])
  BY <1>1, WritersAre DEF Halts, ClosePlain, Die, Goto, run, EntryTypeOK
<1> QED BY <1>1, <1>2, <1>3, <1>4 DEF EntryTypeOK, history

LEMMA TypesStay ==
    ASSUME EntryIInv, EntryNext
    PROVE  EntryTypeOK'
<1>1. CASE OpenPlain
  BY <1>1 DEF OpenPlain, EntryIInv, EntryTypeOK, HoldContents, saves, run
<1> QED BY <1>1, StepTypes, SaveTypes, StopTypes, StepKinds

LEMMA EntryBegins == EntryInit => EntryIInv
<1> SUFFICES ASSUME EntryInit PROVE EntryIInv
  OBVIOUS
<1>1. EntryTypeOK
  BY DEF EntryInit, EntryTypeOK, HoldContents, SessionContents, ReportContents, Document
<1>2. \A w \in Writers : SaveUnderWay(w)
  BY DEF EntryInit, SaveUnderWay
<1>3. ASSUME NEW r \in Runs PROVE RunHolds(r)
  <2>1. /\ place[r] = "idle" /\ at[r] = "out" /\ reported = {} /\ ~plain
        /\ found[r] = [identity |-> None, report |-> FALSE]
        /\ live["report"] = Absent /\ tmp["report"] = Absent
    BY <1>3, WritersAre DEF EntryInit, Document
  <2>2. NotCrossed(r) /\ MarkerIsThere(r) /\ AloneSoFar(r)
    BY <2>1 DEF NotCrossed, Counts, MarkerIsThere, AloneSoFar, Governs, Installed, UnderWay
  <2>3. ReportIsThere(r)
    BY <2>1, ContentsDiffer DEF ReportIsThere, Reported
  <2>4. EvidenceStays(r) /\ IdentityStays(r)
    BY <2>1 DEF EvidenceStays, IdentityStays, Loaded, Governs
  <2> QED BY <2>2, <2>3, <2>4 DEF RunHolds
<1> QED BY <1>1, <1>2, <1>3 DEF EntryIInv

LEMMA EntryInv == EntrySpec => []EntryIInv
<1>1. EntryIInv /\ EntryNext => EntryIInv'
  <2> SUFFICES ASSUME EntryIInv, EntryNext PROVE EntryIInv'
    OBVIOUS
  <2>1. \A w \in Writers : SaveUnderWay(w)'
    BY SavesStayUnderWay
  <2>2. \A r \in Runs : RunHolds(r)'
    BY NotCrossedStays, MarkerStays, ReportStays, EvidenceRemains, AloneStays, IdentityRemains
    DEF RunHolds
  <2> QED BY <2>1, <2>2, TypesStay DEF EntryIInv
<1>2. EntryIInv /\ UNCHANGED entryVars => EntryIInv'
  <2> SUFFICES ASSUME EntryIInv, UNCHANGED entryVars PROVE EntryIInv'
    OBVIOUS
  <2> USE DEF entryVars, saves, run, history
  <2>1. EntryTypeOK'
    BY DEF EntryIInv, EntryTypeOK, HoldContents
  <2>2. \A w \in Writers : SaveUnderWay(w)'
    BY DEF EntryIInv, SaveUnderWay, MaySave
  <2>3. ASSUME NEW r \in Runs PROVE RunHolds(r)'
    <3>1. RunHolds(r)
      BY DEF EntryIInv
    <3>2. \A d : Undisturbed(d)' = Undisturbed(d)
      BY DEF Undisturbed, Holders, Clean, Doc, Payload
    <3>3. NotCrossed(r)'
      BY <3>1, <3>2 DEF RunHolds, NotCrossed, Counts, Governs
    <3>4. MarkerIsThere(r)' /\ ReportIsThere(r)'
      BY <3>1 DEF RunHolds, MarkerIsThere, ReportIsThere, Governs, Installed, Reported, Holders, Doc
    <3>5. EvidenceStays(r)' /\ AloneSoFar(r)' /\ IdentityStays(r)'
      BY <3>1 DEF RunHolds, EvidenceStays, AloneSoFar, IdentityStays, Governs, UnderWay
    <3> QED BY <3>3, <3>4, <3>5 DEF RunHolds
  <2> QED BY <2>1, <2>2, <2>3 DEF EntryIInv
<1> QED BY EntryBegins, <1>1, <1>2, PTL DEF EntrySpec

\* The variables have their types.
THEOREM EntryTypeCorrect == EntrySpec => []EntryTypeOK
<1>1. EntryIInv => EntryTypeOK
  BY DEF EntryIInv
<1> QED BY EntryInv, <1>1, PTL

\* The marker is on disk while a run governs, step by step of every save, unless
\* a plain session that was open before has written over it or the saves of two
\* writers overlapped in its one temporary file.
THEOREM MarkerGuardsCalls == EntrySpec => []MarkerBeforeCalls
<1>1. EntryIInv => MarkerBeforeCalls
  BY DEF EntryIInv, RunHolds, MarkerIsThere, MarkerBeforeCalls
<1> QED BY EntryInv, <1>1, PTL

\* Evidence that was there when a run began keeps it off the plain path, also
\* where saves overlapped.
THEOREM OnIsForGood == EntrySpec => []NeverOffAgain
<1>1. EntryIInv => NeverOffAgain
  BY DEF EntryIInv, RunHolds, EvidenceStays, NeverOffAgain
<1> QED BY EntryInv, <1>1, PTL

\* A verdict is given exactly when its report became the report document, unless
\* the saves of two reports overlapped.
THEOREM ReportBacksVerdict == EntrySpec => []VerdictIffReported
<1>1. EntryIInv => VerdictIffReported
  BY DEF EntryIInv, RunHolds, ReportIsThere, Reported, VerdictIffReported, Outcomes
<1> QED BY EntryInv, <1>1, PTL

\* A run with nothing beside it decides under the identity it found.
THEOREM IdentityHolds == EntrySpec => []IdentityIsKept
<1>1. EntryIInv => IdentityIsKept
  BY DEF EntryIInv, RunHolds, IdentityStays, IdentityIsKept
<1> QED BY EntryInv, <1>1, PTL

-----------------------------------------------------------------------------
(* One governing run. *)

USE BudgetAssumption, RunAssumption, ShardsAssumption

Handle == reservations[held[Run]]

NoneReserved == usdReserved = 0 /\ \A k \in Budget!Kinds : reserved[k] = 0

\* The handle in hand is all that is reserved, in the lane of the call.
OneReserved ==
    /\ held[Run] \in Budget!ReservationIds
    /\ Handle.kind = Lane
    /\ usdReserved = Handle.usd
    /\ \A k \in Budget!Kinds : reserved[k] = IF k = Lane THEN 1 ELSE 0

\* An examination that was paid for and overran the budget: the except branch
\* finds nothing to release.
PaidOver ==
    /\ NoneReserved
    /\ Handle.state = "committed"
    /\ stage = "examine"

HoldsOne ==
    /\ pc[Run] # "idle" => stage \in CallStages
    /\ pc[Run] = "idle" => NoneReserved
    /\ pc[Run] = "reserved" => OneReserved /\ Handle.state = "reserved"
    /\ pc[Run] \in {"executing", "returned"} => OneReserved /\ Handle.state = "executing"
    /\ pc[Run] = "unwinding" =>
         /\ raised[Run] # "none"
         /\ (OneReserved /\ Handle.state = "executing") \/ PaidOver

\* Completions, steps of the trace and committed calls, before and after the
\* examination of a round.
BooksFollow ==
    /\ used = Len(trace)
    /\ stage \in {"start", "propose"} =>
         completions = << >> /\ trace = << >> /\ \A k \in Budget!Kinds : committed[k] = 0
    /\ stage \in {"round", "examine", "decide", "revise"} =>
         Len(completions) = Len(trace) + 1 /\ committed[Budget!Proposal] = Len(completions)
    /\ stage = "round" \/ (stage = "examine" /\ pc[Run] # "unwinding") =>
         committed[Budget!Examiner] = Len(trace)
    /\ stage \in {"decide", "revise"} => committed[Budget!Examiner] = Len(trace) + 1

\* What is decided on is what was examined, and a revision is asked for because
\* of it.
EvidenceIsCurrent ==
    /\ (stage = "examine" /\ pc[Run] = "returned") \/ stage \in {"decide", "revise"} =>
         observation.text = Current
    /\ stage = "revise" =>
         /\ last.text = Current /\ last.action = "revise"
         /\ last.failing = FusedFailing /\ last.failing # {}

\* An answer that is to be booked is a text.
Answered ==
    stage \in {"propose", "revise"} /\ pc[Run] = "returned" => answer.text \in Texts

\* The examiner's call is under way over connections that were checked.
LinksChecked ==
    stage = "examine" /\ pc[Run] \in {"idle", "reserved", "executing"} =>
        \A r \in Roles : connection[r] = "installed"

OverrunAborts ==
    usdCommitted > MaxUsd =>
        stage = "aborted" \/ (stage = "examine" /\ pc[Run] = "unwinding")

VerdictAtTheEnd == stage # "finished" => outcome.terminal = "none"

IInv ==
    /\ TypeOK /\ HoldsOne /\ BooksFollow /\ EvidenceIsCurrent /\ Answered /\ LinksChecked
    /\ OverrunAborts /\ VerdictAtTheEnd /\ VerdictRestsOnBoth /\ VerdictMatchesBooks

-----------------------------------------------------------------------------

\* The types of what a call's steps read.
LEMMA CallTypes ==
    ASSUME IInv
    PROVE  /\ Lane \in Budget!Kinds /\ Promise \in Nat
           /\ nextId \in 1..(MaxReservations + 1)
           /\ reservations \in [Budget!ReservationIds -> Budget!Handles]
           /\ usdReserved \in Int /\ usdCommitted \in Nat
           /\ reserved \in [Budget!Kinds -> Nat] /\ committed \in [Budget!Kinds -> Nat]
           /\ pc \in [{Run} -> {"idle", "reserved", "executing", "returned", "unwinding"}]
           /\ held \in [{Run} -> 0..MaxReservations]
           /\ cost \in [{Run} -> Nat]
           /\ raised \in [{Run} -> Budget!AbortClasses \cup {"none"}]
           /\ overrun \in Nat /\ incurred \in Nat /\ expired \in BOOLEAN
           /\ LoopTypeOK
<1>1. Lane \in Budget!Kinds
  BY DEF Lane, Budget!Kinds, Budget!Proposal, Budget!Examiner
<1>2. config.reserveProposal \in Nat /\ config.reserveExaminer \in Nat
  BY DEF IInv, TypeOK, LoopTypeOK
<1> QED BY <1>1, <1>2 DEF IInv, TypeOK, Budget!TypeOK, Promise

\* The last of a sequence that has just grown.
LEMMA LastOfAppend ==
    ASSUME NEW S, NEW s \in Seq(S), NEW e \in S
    PROVE  /\ Append(s, e) \in Seq(S) /\ Len(Append(s, e)) = Len(s) + 1
           /\ Last(Append(s, e)) = e
BY DEF Last

\* What IInv says beyond the types and the reservation in hand.
Judged ==
    /\ BooksFollow /\ EvidenceIsCurrent /\ Answered /\ LinksChecked /\ OverrunAborts
    /\ VerdictAtTheEnd /\ VerdictRestsOnBoth /\ VerdictMatchesBooks

\* An abort leaves nothing to be judged.
LEMMA AbortJudged ==
    ASSUME IInv, NEW class \in AbortClasses, Abort(class),
           UNCHANGED <<used, trace, config, fails, answer, observation, last>>,
           completions' \in Seq(Texts), connection' \in [Roles -> Links]
    PROVE  Judged' /\ LoopTypeOK' /\ stage' = "aborted"
<1>1. stage' = "aborted" /\ outcome' = [NoOutcome EXCEPT !.abort = class]
  BY DEF Abort
<1>2. /\ outcome' = [terminal |-> "none", abort |-> class, output |-> EmptyText,
                     failing |-> {}, calls |-> 0]
      /\ outcome'.terminal = "none"
  BY <1>1 DEF NoOutcome
<1>3. LoopTypeOK'
  <2>1. outcome' \in [terminal : Terminals \cup {"none"}, abort : AbortClasses \cup {"none"},
                      output : Texts \cup {EmptyText}, failing : SUBSET Shards, calls : Nat]
    BY <1>2
  <2>2. stage' \in CallStages \cup Ended \cup {"start", "round", "decide"}
    BY <1>1 DEF Ended
  <2> QED BY <2>1, <2>2 DEF IInv, TypeOK, LoopTypeOK
<1>4. BooksFollow'
  BY <1>1 DEF IInv, BooksFollow
<1>5. EvidenceIsCurrent' /\ Answered' /\ LinksChecked' /\ OverrunAborts' /\ VerdictAtTheEnd'
  BY <1>1, <1>2 DEF EvidenceIsCurrent, Answered, LinksChecked, OverrunAborts, VerdictAtTheEnd
<1>6. VerdictRestsOnBoth' /\ VerdictMatchesBooks'
  BY <1>2 DEF VerdictRestsOnBoth, VerdictMatchesBooks
<1> QED BY <1>1, <1>3, <1>4, <1>5, <1>6 DEF Judged

LEMMA LoopUnchanged ==
    ASSUME UNCHANGED loop
    PROVE  /\ UNCHANGED <<config, fails, connection, stage, answer, observation,
                          completions, trace, used, last, outcome>>
           /\ Lane' = Lane /\ Current' = Current /\ FusedFailing' = FusedFailing
           /\ (LoopTypeOK => LoopTypeOK')
BY DEF loop, Lane, Current, FusedFailing, LoopTypeOK

\* A step of a call before its answer books nothing and leaves all as it was.
LEMMA CallStepJudged ==
    ASSUME IInv, UNCHANGED <<committed, usdCommitted, loop>>,
           pc[Run] \in {"idle", "reserved", "executing"},
           pc'[Run] \in {"idle", "reserved", "executing"}
    PROVE  Judged' /\ LoopTypeOK'
<1>1. LoopTypeOK'
  BY LoopUnchanged DEF IInv, TypeOK
<1>2. BooksFollow'
  BY LoopUnchanged DEF IInv, BooksFollow
<1>3. EvidenceIsCurrent'
  BY LoopUnchanged DEF IInv, EvidenceIsCurrent
<1>4. Answered' /\ LinksChecked' /\ OverrunAborts' /\ VerdictAtTheEnd'
  BY LoopUnchanged DEF IInv, Answered, LinksChecked, OverrunAborts, VerdictAtTheEnd
<1>5. VerdictRestsOnBoth' /\ VerdictMatchesBooks'
  BY LoopUnchanged DEF IInv, VerdictRestsOnBoth, VerdictMatchesBooks
<1> QED BY <1>1, <1>2, <1>3, <1>4, <1>5 DEF Judged

-----------------------------------------------------------------------------

\* What the steps of a call do to the account.

\* A granted reservation is the only one.
LEMMA ReserveLaneInv ==
    ASSUME IInv, ReserveLane
    PROVE  IInv'
<1>1. /\ pc[Run] = "idle" /\ stage \in CallStages /\ nextId \in Budget!ReservationIds
      /\ reservations' = [reservations EXCEPT
                            ![nextId] = [kind |-> Lane, usd |-> Promise, state |-> "reserved"]]
      /\ nextId' = nextId + 1
      /\ reserved' = [reserved EXCEPT ![Lane] = @ + 1]
      /\ usdReserved' = usdReserved + Promise
      /\ pc' = [pc EXCEPT ![Run] = "reserved"] /\ held' = [held EXCEPT ![Run] = nextId]
      /\ raised' = [raised EXCEPT ![Run] = "none"]
      /\ UNCHANGED <<expired, usdCommitted, committed, cost, overrun, incurred, loop>>
  BY DEF ReserveLane, Budget!Reserve
<1>2. NoneReserved
  BY <1>1 DEF IInv, HoldsOne
<1>3. /\ pc'[Run] = "reserved" /\ held'[Run] = nextId
      /\ reservations'[nextId] = [kind |-> Lane, usd |-> Promise, state |-> "reserved"]
  BY <1>1, CallTypes
<1>4. Lane' = Lane /\ stage' = stage
  BY <1>1, LoopUnchanged
<1>5. HoldsOne'
  <2>1. Handle' = [kind |-> Lane, usd |-> Promise, state |-> "reserved"]
    BY <1>3 DEF Handle
  <2>2. usdReserved' = Promise /\ \A k \in Budget!Kinds : reserved'[k] = IF k = Lane THEN 1 ELSE 0
    BY <1>1, <1>2, CallTypes DEF NoneReserved
  <2>3. OneReserved'
    BY <1>1, <1>3, <1>4, <2>1, <2>2 DEF OneReserved, Budget!ReservationIds
  <2> QED BY <1>1, <1>3, <1>4, <2>1, <2>3 DEF HoldsOne
<1>6. Budget!TypeOK'
  <2>1. [kind |-> Lane, usd |-> Promise, state |-> "reserved"] \in Budget!Handles
    BY CallTypes DEF Budget!Handles, Budget!States
  <2>2. nextId' \in 1..(MaxReservations + 1) /\ nextId \in 0..MaxReservations
    BY <1>1, CallTypes DEF Budget!ReservationIds
  <2>3. usdReserved' \in Int /\ reserved' \in [Budget!Kinds -> Nat]
    BY <1>1, CallTypes
  <2> QED BY <1>1, <2>1, <2>2, <2>3, CallTypes DEF Budget!TypeOK
<1>7. Judged' /\ LoopTypeOK'
  BY <1>1, <1>3, CallStepJudged
<1> QED BY <1>5, <1>6, <1>7 DEF IInv, Judged, TypeOK

\* A refusal leaves the account as it was.
LEMMA LaneRefusedInv ==
    ASSUME IInv, LaneRefused
    PROVE  IInv'
<1>1. /\ pc[Run] = "idle" /\ Abort(Budget!Refusal(Lane, Promise))
      /\ Budget!Refusal(Lane, Promise) # "none"
      /\ raised' = [raised EXCEPT ![Run] = Budget!Refusal(Lane, Promise)]
      /\ UNCHANGED <<expired, nextId, reservations, usdReserved, usdCommitted, reserved, committed,
                     pc, held, cost, overrun, incurred>>
      /\ UNCHANGED <<config, fails, connection, answer, observation, completions, trace, used, last>>
  BY DEF LaneRefused, Budget!ReserveRefused, Budget!ledger
<1>2. Budget!Refusal(Lane, Promise) \in Budget!AbortClasses
  BY <1>1 DEF Budget!Refusal, Budget!AbortClasses
<1>3. Judged' /\ LoopTypeOK' /\ stage' = "aborted"
  BY <1>1, <1>2, AbortJudged, CallTypes DEF LoopTypeOK, AbortClasses
<1>4. Budget!TypeOK'
  BY <1>1, <1>2, CallTypes DEF Budget!TypeOK
<1>5. HoldsOne'
  BY <1>1 DEF IInv, HoldsOne, NoneReserved
<1> QED BY <1>3, <1>4, <1>5 DEF IInv, Judged, TypeOK

LEMMA BeginCallInv ==
    ASSUME IInv, BeginCall
    PROVE  IInv'
<1>1. /\ pc[Run] = "reserved" /\ Handle.state = "reserved"
      /\ reservations' = [reservations EXCEPT
                            ![held[Run]] = [kind |-> Handle.kind, usd |-> Handle.usd,
                                            state |-> "executing"]]
      /\ pc' = [pc EXCEPT ![Run] = "executing"]
      /\ UNCHANGED <<expired, nextId, usdReserved, usdCommitted, reserved, committed,
                     held, cost, raised, overrun, incurred, loop>>
  BY DEF BeginCall, Budget!BeginExecute, Budget!Restamped, Handle
<1>2. OneReserved
  BY <1>1 DEF IInv, HoldsOne
<1>3. pc'[Run] = "executing" /\ Handle \in Budget!Handles
      /\ Handle' = [kind |-> Handle.kind, usd |-> Handle.usd, state |-> "executing"]
  BY <1>1, <1>2, CallTypes DEF OneReserved, Handle
<1>4. Lane' = Lane /\ stage' = stage
  BY <1>1, LoopUnchanged
<1>5. HoldsOne'
  <2>1. OneReserved'
    BY <1>1, <1>2, <1>3, <1>4 DEF OneReserved, Budget!ReservationIds, Budget!Kinds,
                                  Budget!Proposal, Budget!Examiner
  <2> QED BY <1>1, <1>3, <1>4, <2>1 DEF IInv, HoldsOne
<1>6. Budget!TypeOK'
  <2>1. [kind |-> Handle.kind, usd |-> Handle.usd, state |-> "executing"] \in Budget!Handles
    BY <1>3 DEF Budget!Handles, Budget!States
  <2> QED BY <1>1, <1>2, <2>1, CallTypes DEF Budget!TypeOK, OneReserved
<1>7. Judged' /\ LoopTypeOK'
  BY <1>1, <1>3, CallStepJudged
<1> QED BY <1>5, <1>6, <1>7 DEF IInv, Judged, TypeOK

\* Releasing what the run holds leaves nothing reserved.
LEMMA ReleaseStep ==
    ASSUME IInv, OneReserved, Budget!ReleaseLocked(held[Run])
    PROVE  /\ NoneReserved'
           /\ usdReserved' \in Int /\ reserved' \in [Budget!Kinds -> Nat]
           /\ reservations' \in [Budget!ReservationIds -> Budget!Handles]
           /\ UNCHANGED <<nextId, usdCommitted, committed>>
<1>1. /\ usdReserved' = usdReserved - Handle.usd
      /\ reserved' = [reserved EXCEPT ![Handle.kind] = @ - 1]
      /\ reservations' = [reservations EXCEPT
                            ![held[Run]] = [kind |-> Handle.kind, usd |-> 0, state |-> "released"]]
      /\ UNCHANGED <<nextId, usdCommitted, committed>>
  BY DEF Budget!ReleaseLocked, Budget!Restamped, Handle
<1>2. Handle \in Budget!Handles /\ Handle.kind = Lane
  BY CallTypes DEF OneReserved, Handle
<1>3. usdReserved' = 0
  BY <1>1, <1>2, CallTypes DEF OneReserved, Budget!Handles
<1>4. reserved' \in [Budget!Kinds -> Nat] /\ \A k \in Budget!Kinds : reserved'[k] = 0
  BY <1>1, <1>2, CallTypes DEF OneReserved
<1>5. [kind |-> Handle.kind, usd |-> 0, state |-> "released"] \in Budget!Handles
  BY <1>2 DEF Budget!Handles, Budget!States
<1>6. reservations' \in [Budget!ReservationIds -> Budget!Handles]
  BY <1>1, <1>5, CallTypes DEF OneReserved
<1> QED BY <1>1, <1>3, <1>4, <1>6 DEF NoneReserved

LEMMA BeginTooLateInv ==
    ASSUME IInv, BeginTooLate
    PROVE  IInv'
<1>1. /\ pc[Run] = "reserved" /\ Budget!ReleaseLocked(held[Run])
      /\ pc' = [pc EXCEPT ![Run] = "idle"]
      /\ raised' = [raised EXCEPT ![Run] = "wall_deadline_exhausted"]
      /\ UNCHANGED <<expired, held, cost, overrun, incurred>>
      /\ Abort("wall_deadline_exhausted")
      /\ UNCHANGED <<config, fails, connection, answer, observation, completions, trace, used, last>>
  BY DEF BeginTooLate, Budget!BeginExecuteTooLate
<1>2. /\ NoneReserved'
      /\ usdReserved' \in Int /\ reserved' \in [Budget!Kinds -> Nat]
      /\ reservations' \in [Budget!ReservationIds -> Budget!Handles]
      /\ UNCHANGED <<nextId, usdCommitted, committed>>
  BY <1>1, ReleaseStep DEF IInv, HoldsOne
<1>3. Judged' /\ LoopTypeOK' /\ stage' = "aborted"
  BY <1>1, AbortJudged, CallTypes DEF LoopTypeOK, AbortClasses, Budget!AbortClasses
<1>4. Budget!TypeOK'
  BY <1>1, <1>2, CallTypes DEF Budget!TypeOK, Budget!AbortClasses
<1>5. pc'[Run] = "idle"
  BY <1>1, CallTypes
<1>6. HoldsOne'
  BY <1>2, <1>5 DEF HoldsOne
<1> QED BY <1>3, <1>4, <1>6 DEF IInv, Judged, TypeOK

\* An answer leaves the reservation in hand as it is: the call has still to be
\* booked.
LEMMA AnswerStep ==
    ASSUME IInv, NEW usd \in Nat, Budget!CallReturns(Run, usd),
           stage' = stage
    PROVE  /\ HoldsOne' /\ Budget!TypeOK' /\ pc[Run] = "executing" /\ pc'[Run] = "returned"
           /\ stage \in CallStages
           /\ UNCHANGED <<usdCommitted, committed>>
<1>1. /\ pc[Run] = "executing"
      /\ pc' = [pc EXCEPT ![Run] = "returned"] /\ cost' = [cost EXCEPT ![Run] = usd]
      /\ incurred' = incurred + usd
      /\ UNCHANGED <<expired, nextId, reservations, usdReserved, usdCommitted, reserved, committed,
                     held, raised, overrun>>
  BY DEF Budget!CallReturns, Budget!ledger
<1>2. pc'[Run] = "returned"
  BY <1>1, CallTypes
<1>3. HoldsOne'
  BY <1>1, <1>2 DEF IInv, HoldsOne, OneReserved, Handle, Lane
<1>4. Budget!TypeOK'
  BY <1>1, CallTypes DEF Budget!TypeOK
<1> QED BY <1>1, <1>2, <1>3, <1>4 DEF IInv, HoldsOne

LEMMA DraftAnswersInv ==
    ASSUME IInv, NEW text \in Texts, NEW strange \in BOOLEAN, DraftAnswers(text, strange)
    PROVE  IInv'
<1>1. /\ stage = "propose" /\ Budget!CallReturns(Run, 0)
      /\ answer' = [text |-> text, strange |-> strange]
      /\ UNCHANGED <<config, fails, connection, stage, observation, completions, trace, used,
                     last, outcome>>
  BY DEF DraftAnswers, DraftInHand
<1>2. HoldsOne' /\ Budget!TypeOK' /\ UNCHANGED <<usdCommitted, committed>>
  BY <1>1, AnswerStep
<1>3. LoopTypeOK'
  BY <1>1, CallTypes DEF LoopTypeOK
<1>4. Judged'
  BY <1>1, <1>2 DEF IInv, Judged, BooksFollow, EvidenceIsCurrent, Answered, LinksChecked, OverrunAborts,
                    VerdictAtTheEnd, VerdictRestsOnBoth, VerdictMatchesBooks
<1> QED BY <1>2, <1>3, <1>4 DEF IInv, Judged, TypeOK

\* Whatever a connection reads after a call, it is one of the readings there are.
LEMMA ConnectionTypes ==
    ASSUME IInv, ConnectionMayChange PROVE connection' \in [Roles -> Links]
<1>1. connection \in [Roles -> Links]
  BY CallTypes DEF LoopTypeOK
<1> QED BY <1>1 DEF ConnectionMayChange

LEMMA ProviderAnswersInv ==
    ASSUME IInv, NEW text \in Texts, NEW strange \in BOOLEAN, NEW usd \in ActualCosts,
           ProviderAnswers(text, strange, usd)
    PROVE  IInv'
<1>1. /\ stage \in {"propose", "revise"} /\ Budget!CallReturns(Run, usd)
      /\ answer' = [text |-> text, strange |-> strange]
      /\ ConnectionMayChange
      /\ UNCHANGED <<config, fails, stage, observation, completions, trace, used, last, outcome>>
  BY DEF ProviderAnswers
<1>2. HoldsOne' /\ Budget!TypeOK' /\ UNCHANGED <<usdCommitted, committed>>
  BY <1>1, AnswerStep
<1>3. LoopTypeOK'
  BY <1>1, CallTypes, ConnectionTypes DEF LoopTypeOK
<1>4. Judged'
  BY <1>1, <1>2 DEF IInv, Judged, BooksFollow, EvidenceIsCurrent, Answered, LinksChecked, OverrunAborts,
                    VerdictAtTheEnd, VerdictRestsOnBoth, VerdictMatchesBooks, Current, FusedFailing
<1> QED BY <1>2, <1>3, <1>4 DEF IInv, Judged, TypeOK

LEMMA ExaminerAnswersInv ==
    ASSUME IInv, NEW observed \in Observations, NEW usd \in ActualCosts,
           ExaminerAnswers(observed, usd)
    PROVE  IInv'
<1>1. /\ stage = "examine" /\ Budget!CallReturns(Run, usd)
      /\ observed.text = Current /\ observation' = observed
      /\ ConnectionMayChange
      /\ UNCHANGED <<config, fails, stage, answer, completions, trace, used, last, outcome>>
  BY DEF ExaminerAnswers
<1>2. /\ HoldsOne' /\ Budget!TypeOK' /\ pc[Run] = "executing" /\ pc'[Run] = "returned"
      /\ UNCHANGED <<usdCommitted, committed>>
  BY <1>1, AnswerStep
<1>3. LoopTypeOK'
  BY <1>1, CallTypes, ConnectionTypes DEF LoopTypeOK
<1>4. outcome'.terminal = "none"
  BY <1>1 DEF IInv, VerdictAtTheEnd
<1>5. Judged'
  BY <1>1, <1>2, <1>4 DEF IInv, Judged, BooksFollow, EvidenceIsCurrent, Answered, LinksChecked,
                    OverrunAborts, VerdictAtTheEnd, VerdictRestsOnBoth, VerdictMatchesBooks, Current
<1> QED BY <1>2, <1>3, <1>5 DEF IInv, Judged, TypeOK

LEMMA CallFailsInv ==
    ASSUME IInv, NEW class \in {"backend_error", "schema_invalid", "wall_deadline_exhausted"},
           CallFails(class)
    PROVE  IInv'
<1>1. /\ stage \in CallStages /\ pc[Run] = "executing"
      /\ pc' = [pc EXCEPT ![Run] = "unwinding"] /\ raised' = [raised EXCEPT ![Run] = class]
      /\ ConnectionMayChange
      /\ UNCHANGED <<expired, nextId, reservations, usdReserved, usdCommitted, reserved, committed,
                     held, cost, overrun, incurred>>
      /\ UNCHANGED <<config, fails, stage, answer, observation, completions, trace, used, last,
                     outcome>>
  BY DEF CallFails, Budget!CallFails, Budget!ledger
<1>2. /\ pc'[Run] = "unwinding" /\ raised'[Run] = class /\ class # "none"
      /\ class \in Budget!AbortClasses
  BY <1>1, CallTypes DEF Budget!AbortClasses
<1>3. HoldsOne'
  BY <1>1, <1>2 DEF IInv, HoldsOne, OneReserved, Handle, Lane
<1>4. Budget!TypeOK'
  BY <1>1, <1>2, CallTypes DEF Budget!TypeOK
<1>5. LoopTypeOK'
  BY <1>1, CallTypes, ConnectionTypes DEF LoopTypeOK
<1>6. Judged'
  BY <1>1, <1>2 DEF IInv, Judged, BooksFollow, EvidenceIsCurrent, Answered, LinksChecked, OverrunAborts,
                    VerdictAtTheEnd, VerdictRestsOnBoth, VerdictMatchesBooks, Current,
                    FusedFailing, CallStages
<1> QED BY <1>3, <1>4, <1>5, <1>6 DEF IInv, Judged, TypeOK

-----------------------------------------------------------------------------

\* Booking a call: nothing is reserved any more, and the lane of the call counts
\* one more.
LEMMA CommitStep ==
    ASSUME IInv, Budget!Commit(Run)
    PROVE  /\ NoneReserved' /\ Budget!TypeOK' /\ stage \in CallStages
           /\ Handle'.state = "committed"
           /\ committed' = [committed EXCEPT ![Lane] = @ + 1]
           /\ Budget!Over(Run) <=> usdCommitted' > MaxUsd
           /\ pc'[Run] = IF Budget!Over(Run) /\ Lane = Budget!Examiner THEN "unwinding" ELSE "idle"
           /\ Budget!Over(Run) => raised'[Run] = "spend_reservation_rejection"
<1>1. /\ pc[Run] = "returned"
      /\ usdReserved' = usdReserved - Handle.usd
      /\ usdCommitted' = usdCommitted + cost[Run]
      /\ reserved' = [reserved EXCEPT ![Handle.kind] = @ - 1]
      /\ committed' = [committed EXCEPT ![Handle.kind] = @ + 1]
      /\ reservations' = [reservations EXCEPT
                            ![held[Run]] = [kind |-> Handle.kind, usd |-> cost[Run],
                                            state |-> "committed"]]
      /\ overrun' = overrun + Budget!Excess(cost[Run], Handle.usd)
      /\ raised' = IF Budget!Over(Run)
                   THEN [raised EXCEPT ![Run] = "spend_reservation_rejection"] ELSE raised
      /\ pc' = [pc EXCEPT ![Run] =
                  IF Budget!Over(Run) /\ Handle.kind = Budget!Examiner THEN "unwinding" ELSE "idle"]
      /\ UNCHANGED <<nextId, expired, held, cost, incurred>>
  BY DEF Budget!Commit, Budget!Book, Budget!Restamped, Handle
<1>2. OneReserved /\ stage \in CallStages
  BY <1>1 DEF IInv, HoldsOne
<1>3. Handle \in Budget!Handles /\ Handle.kind = Lane /\ cost[Run] \in Nat
  BY <1>2, CallTypes DEF OneReserved, Handle
<1>4. usdReserved' = 0
  BY <1>1, <1>2, <1>3, CallTypes DEF OneReserved, Budget!Handles
<1>5. reserved' \in [Budget!Kinds -> Nat] /\ \A k \in Budget!Kinds : reserved'[k] = 0
  BY <1>1, <1>2, <1>3, CallTypes DEF OneReserved
<1>6. [kind |-> Handle.kind, usd |-> cost[Run], state |-> "committed"] \in Budget!Handles
  BY <1>3 DEF Budget!Handles, Budget!States
<1>7. /\ reservations' \in [Budget!ReservationIds -> Budget!Handles]
      /\ Handle'.state = "committed"
  BY <1>1, <1>2, <1>6, CallTypes DEF OneReserved, Handle
<1>8. usdCommitted' \in Nat /\ overrun' \in Nat
  BY <1>1, <1>3, CallTypes DEF Budget!Excess, Budget!Handles
<1>9. committed' = [committed EXCEPT ![Lane] = @ + 1] /\ committed' \in [Budget!Kinds -> Nat]
  BY <1>1, <1>3, CallTypes
<1>10. /\ pc'[Run] = IF Budget!Over(Run) /\ Lane = Budget!Examiner THEN "unwinding" ELSE "idle"
       /\ Budget!Over(Run) => raised'[Run] = "spend_reservation_rejection"
       /\ pc' \in [{Run} -> {"idle", "reserved", "executing", "returned", "unwinding"}]
       /\ raised' \in [{Run} -> Budget!AbortClasses \cup {"none"}]
  BY <1>1, <1>3, CallTypes DEF Budget!AbortClasses
<1>11. Budget!Over(Run) <=> usdCommitted' > MaxUsd
  BY <1>1 DEF Budget!Over
<1>12. Budget!TypeOK'
  BY <1>1, <1>4, <1>5, <1>7, <1>8, <1>9, <1>10, CallTypes DEF Budget!TypeOK
<1> QED BY <1>2, <1>4, <1>5, <1>7, <1>9, <1>10, <1>11, <1>12 DEF NoneReserved

LEMMA ProposalOverrunsInv ==
    ASSUME IInv, ProposalOverruns
    PROVE  IInv'
<1>1. /\ stage \in {"propose", "revise"} /\ Budget!Commit(Run)
      /\ Abort("spend_reservation_rejection")
      /\ UNCHANGED <<config, fails, connection, answer, observation, completions, trace, used, last>>
  BY DEF ProposalOverruns
<1>2. NoneReserved' /\ Budget!TypeOK' /\ pc'[Run] = "idle"
  BY <1>1, CommitStep DEF Lane, Budget!Proposal, Budget!Examiner
<1>3. Judged' /\ LoopTypeOK'
  BY <1>1, AbortJudged, CallTypes DEF LoopTypeOK, AbortClasses, Budget!AbortClasses
<1>4. HoldsOne'
  BY <1>2 DEF HoldsOne
<1> QED BY <1>2, <1>3, <1>4 DEF IInv, Judged, TypeOK

LEMMA TakeFirstInv ==
    ASSUME IInv, TakeFirst
    PROVE  IInv'
<1>1. /\ stage = "propose" /\ Budget!Commit(Run) /\ ~Budget!Over(Run)
      /\ completions' = <<answer.text>>
      /\ Abort("served_model_mismatch") \/ (stage' = "round" /\ outcome' = outcome)
      /\ UNCHANGED <<config, fails, connection, answer, observation, trace, used, last>>
  BY DEF TakeFirst
<1>2. answer.text \in Texts
  BY <1>1 DEF IInv, Answered, Budget!Commit
<1>3. completions' \in Seq(Texts) /\ Len(completions') = 1
  BY <1>1, <1>2
<1>4. /\ NoneReserved' /\ Budget!TypeOK' /\ pc'[Run] = "idle"
      /\ committed' = [committed EXCEPT ![Budget!Proposal] = @ + 1]
      /\ ~(usdCommitted' > MaxUsd)
  BY <1>1, CommitStep DEF Lane, Budget!Proposal, Budget!Examiner
<1>5. HoldsOne'
  BY <1>4 DEF HoldsOne
<1>6. CASE Abort("served_model_mismatch")
  <2>1. Judged' /\ LoopTypeOK'
    BY <1>1, <1>3, <1>6, AbortJudged, CallTypes DEF LoopTypeOK, AbortClasses
  <2> QED BY <1>4, <1>5, <2>1 DEF IInv, Judged, TypeOK
<1>7. CASE stage' = "round" /\ outcome' = outcome
  <2>1. LoopTypeOK'
    BY <1>1, <1>3, <1>7, CallTypes DEF LoopTypeOK
  <2>2. /\ trace = << >> /\ used = Len(trace)
        /\ committed'[Budget!Proposal] = 1 /\ committed'[Budget!Examiner] = 0
    <3>1. /\ trace = << >> /\ used = Len(trace)
          /\ committed[Budget!Proposal] = 0 /\ committed[Budget!Examiner] = 0
      BY <1>1 DEF IInv, BooksFollow, Budget!Kinds
    <3> QED BY <1>4, <3>1, CallTypes DEF Budget!Kinds, Budget!Proposal, Budget!Examiner
  <2>3. BooksFollow'
    BY <1>1, <1>3, <1>7, <2>2 DEF BooksFollow
  <2>4. outcome'.terminal = "none"
    BY <1>1, <1>7 DEF IInv, VerdictAtTheEnd
  <2>5. Judged'
    BY <1>4, <1>7, <2>3, <2>4 DEF Judged, EvidenceIsCurrent, Answered, LinksChecked, OverrunAborts,
                            VerdictAtTheEnd, VerdictRestsOnBoth, VerdictMatchesBooks
  <2> QED BY <1>4, <1>5, <2>1, <2>5 DEF IInv, Judged, TypeOK
<1> QED BY <1>1, <1>6, <1>7

\* A step of the trace that grows by one.
TraceSteps == [round : Nat, input : Texts, output : Texts, failing : SUBSET Shards,
               action : {"revise"}]

LEMMA TakeRevisionInv ==
    ASSUME IInv, TakeRevision
    PROVE  IInv'
<1>1. /\ stage = "revise" /\ Budget!Commit(Run) /\ ~Budget!Over(Run)
      /\ completions' = Append(completions, answer.text)
      /\ used' = used + 1 /\ trace' = Append(trace, Revised)
      /\ Conclude("repeated", last) \/ (stage' = "round" /\ outcome' = outcome)
      /\ UNCHANGED <<config, fails, connection, answer, observation, last>>
  BY DEF TakeRevision
<1>2. answer.text \in Texts
  BY <1>1 DEF IInv, Answered, Budget!Commit
<1>3. /\ Len(completions) = Len(trace) + 1 /\ committed[Budget!Proposal] = Len(completions)
      /\ committed[Budget!Examiner] = Len(trace) + 1 /\ used = Len(trace)
      /\ completions \in Seq(Texts) /\ trace \in Seq(TraceSteps)
  BY <1>1, CallTypes DEF IInv, BooksFollow, LoopTypeOK, TraceSteps
<1>4. /\ observation.text = Current /\ last.text = Current /\ last.action = "revise"
      /\ last.failing = FusedFailing /\ last.failing # {}
      /\ Current \in Texts /\ last.failing \in SUBSET Shards
  <2>1. Current \in Texts
    BY <1>3 DEF Current, Last
  <2> QED BY <1>1, <2>1, CallTypes DEF IInv, EvidenceIsCurrent, LoopTypeOK
<1>5. Revised \in TraceSteps
  BY <1>2, <1>3, <1>4 DEF Revised, TraceSteps
<1>6. /\ completions' \in Seq(Texts) /\ Len(completions') = Len(completions) + 1
      /\ trace' \in Seq(TraceSteps) /\ Len(trace') = Len(trace) + 1
  BY <1>1, <1>2, <1>3, <1>5, LastOfAppend
<1>7. /\ NoneReserved' /\ Budget!TypeOK' /\ pc'[Run] = "idle"
      /\ committed' = [committed EXCEPT ![Budget!Proposal] = @ + 1]
      /\ ~(usdCommitted' > MaxUsd)
  BY <1>1, CommitStep DEF Lane, Budget!Proposal, Budget!Examiner
<1>8. /\ committed'[Budget!Proposal] = Len(completions')
      /\ committed'[Budget!Examiner] = Len(trace')
      /\ Len(completions') = Len(trace') + 1
  BY <1>3, <1>6, <1>7, CallTypes DEF Budget!Kinds, Budget!Proposal, Budget!Examiner
<1>9. HoldsOne'
  BY <1>7 DEF HoldsOne
<1>10. used' = Len(trace') /\ used' \in Nat
  BY <1>1, <1>3, <1>6
<1>11. CASE Conclude("repeated", last)
  <2>1. /\ stage' = "finished"
        /\ outcome' = [terminal |-> "repeated", abort |-> "none", output |-> last.text,
                       failing |-> last.failing, calls |-> Len(completions')]
    BY <1>11 DEF Conclude
  <2>2. LoopTypeOK'
    <3>1. outcome' \in [terminal : Terminals \cup {"none"}, abort : AbortClasses \cup {"none"},
                        output : Texts \cup {EmptyText}, failing : SUBSET Shards, calls : Nat]
      BY <1>3, <1>4, <1>6, <2>1 DEF Terminals
    <3> QED BY <1>1, <1>6, <1>10, <2>1, <3>1, CallTypes DEF LoopTypeOK, TraceSteps, Ended
  <2>3. BooksFollow' /\ EvidenceIsCurrent' /\ Answered' /\ LinksChecked' /\ OverrunAborts' /\ VerdictAtTheEnd'
    BY <1>7, <1>10, <2>1 DEF BooksFollow, EvidenceIsCurrent, Answered, LinksChecked, OverrunAborts,
                             VerdictAtTheEnd
  <2>4. VerdictRestsOnBoth'
    BY <1>1, <1>4, <2>1 DEF VerdictRestsOnBoth, FusedFailing
  <2>5. VerdictMatchesBooks'
    BY <1>6, <1>8, <2>1 DEF VerdictMatchesBooks
  <2> QED BY <1>7, <1>9, <2>2, <2>3, <2>4, <2>5 DEF IInv, TypeOK
<1>12. CASE stage' = "round" /\ outcome' = outcome
  <2>1. LoopTypeOK'
    BY <1>1, <1>6, <1>10, <1>12, CallTypes DEF LoopTypeOK, TraceSteps
  <2>2. BooksFollow'
    BY <1>8, <1>10, <1>12 DEF BooksFollow
  <2>3. outcome'.terminal = "none"
    BY <1>1, <1>12 DEF IInv, VerdictAtTheEnd
  <2>4. Judged'
    BY <1>7, <1>12, <2>2, <2>3 DEF Judged, EvidenceIsCurrent, Answered, LinksChecked, OverrunAborts,
                                   VerdictAtTheEnd, VerdictRestsOnBoth, VerdictMatchesBooks
  <2> QED BY <1>7, <1>9, <2>1, <2>4 DEF IInv, Judged, TypeOK
<1> QED BY <1>1, <1>11, <1>12

LEMMA TakeObservationInv ==
    ASSUME IInv, TakeObservation
    PROVE  IInv'
<1>1. /\ stage = "examine" /\ Budget!Commit(Run) /\ pc[Run] = "returned"
      /\ stage' = IF Budget!Over(Run) THEN "examine" ELSE "decide"
      /\ UNCHANGED <<config, fails, connection, answer, observation, completions, trace, used,
                     last, outcome>>
  BY DEF TakeObservation, Budget!Commit
<1>2. /\ NoneReserved' /\ Budget!TypeOK' /\ Handle'.state = "committed"
      /\ committed' = [committed EXCEPT ![Budget!Examiner] = @ + 1]
      /\ Budget!Over(Run) <=> usdCommitted' > MaxUsd
      /\ pc'[Run] = IF Budget!Over(Run) THEN "unwinding" ELSE "idle"
      /\ Budget!Over(Run) => raised'[Run] = "spend_reservation_rejection"
  BY <1>1, CommitStep DEF Lane
<1>3. HoldsOne'
  BY <1>1, <1>2 DEF HoldsOne, PaidOver, CallStages
<1>4. LoopTypeOK'
  BY <1>1, CallTypes DEF LoopTypeOK
<1>5. /\ committed'[Budget!Examiner] = Len(trace) + 1
      /\ committed'[Budget!Proposal] = Len(completions) /\ Len(completions) = Len(trace) + 1
      /\ used = Len(trace)
  <2>1. /\ committed[Budget!Examiner] = Len(trace) /\ committed[Budget!Proposal] = Len(completions)
        /\ Len(completions) = Len(trace) + 1 /\ used = Len(trace)
    BY <1>1 DEF IInv, BooksFollow
  <2> QED BY <1>2, <2>1, CallTypes DEF Budget!Kinds, Budget!Proposal, Budget!Examiner
<1>6. BooksFollow'
  BY <1>1, <1>2, <1>5 DEF BooksFollow
<1>7. observation.text = Current /\ Current' = Current /\ outcome.terminal = "none"
  BY <1>1 DEF IInv, EvidenceIsCurrent, Current, VerdictAtTheEnd
<1>8. Judged'
  BY <1>1, <1>2, <1>6, <1>7 DEF Judged, EvidenceIsCurrent, Answered, LinksChecked, OverrunAborts,
                            VerdictAtTheEnd, VerdictRestsOnBoth, VerdictMatchesBooks
<1> QED BY <1>2, <1>3, <1>4, <1>8 DEF IInv, Judged, TypeOK

LEMMA UnwindInv ==
    ASSUME IInv, Unwind
    PROVE  IInv'
<1>1. /\ pc[Run] = "unwinding" /\ pc' = [pc EXCEPT ![Run] = "idle"]
      /\ IF Handle.state = "committed" THEN UNCHANGED Budget!ledger
                                       ELSE Budget!ReleaseLocked(held[Run])
      /\ UNCHANGED <<expired, held, cost, raised, overrun, incurred>>
      /\ Abort(raised[Run])
      /\ UNCHANGED <<config, fails, connection, answer, observation, completions, trace, used, last>>
  BY DEF Unwind, Budget!Unwind, Handle
<1>2. raised[Run] \in AbortClasses
  BY <1>1, CallTypes DEF IInv, HoldsOne, AbortClasses
<1>3. pc'[Run] = "idle"
  BY <1>1, CallTypes
<1>4. /\ NoneReserved'
      /\ usdReserved' \in Int /\ reserved' \in [Budget!Kinds -> Nat]
      /\ reservations' \in [Budget!ReservationIds -> Budget!Handles]
      /\ UNCHANGED <<nextId, usdCommitted, committed>>
  <2>1. CASE PaidOver
    BY <1>1, <2>1, CallTypes DEF PaidOver, NoneReserved, Budget!ledger
  <2>2. CASE OneReserved /\ Handle.state = "executing"
    BY <1>1, <2>2, ReleaseStep
  <2> QED BY <1>1, <2>1, <2>2 DEF IInv, HoldsOne
<1>5. Judged' /\ LoopTypeOK'
  BY <1>1, <1>2, AbortJudged, CallTypes DEF LoopTypeOK
<1>6. Budget!TypeOK'
  BY <1>1, <1>4, CallTypes DEF Budget!TypeOK
<1>7. HoldsOne'
  BY <1>3, <1>4 DEF HoldsOne
<1> QED BY <1>5, <1>6, <1>7 DEF IInv, Judged, TypeOK

-----------------------------------------------------------------------------

\* Connections that pass the check read as they did at install, and the check
\* has a class for every other reading.
LEMMA DriftStops ==
    ASSUME connection \in [Roles -> Links]
    PROVE  /\ DriftClass = "none" => \A r \in Roles : connection[r] = "installed"
           /\ DriftClass # "none" => DriftClass \in AbortClasses
<1>1. /\ connection["proposer"] \in {"installed", "missing", "origin", "account", "model"}
      /\ connection["examiner"] \in {"installed", "missing", "origin", "account", "model"}
  BY DEF Roles, Links
<1>2. ASSUME NEW link \in {"origin", "account", "model"}
      PROVE  Mismatch(link) # "none" /\ Mismatch(link) \in AbortClasses
  BY DEF Mismatch, AbortClasses
<1> QED BY <1>1, <1>2 DEF DriftClass, Roles, AbortClasses

LEMMA RecheckInv ==
    ASSUME IInv, Recheck
    PROVE  IInv'
<1>1. /\ stage \in {"start", "round"}
      /\ UNCHANGED <<account, config, fails, connection, answer, observation,
                     completions, trace, used, last>>
      /\ \/ DriftClass # "none" /\ Abort(DriftClass)
         \/ /\ DriftClass = "none" /\ outcome' = outcome
            /\ stage' = IF stage = "start" THEN "propose" ELSE "examine"
  BY DEF Recheck
<1>2. pc[Run] = "idle" /\ NoneReserved
  BY <1>1, CallTypes DEF IInv, HoldsOne, CallStages
<1>3. HoldsOne' /\ Budget!TypeOK'
  BY <1>1, <1>2 DEF IInv, TypeOK, Budget!TypeOK, HoldsOne, NoneReserved, account
<1>4. CASE DriftClass # "none" /\ Abort(DriftClass)
  <2>1. Judged' /\ LoopTypeOK'
    BY <1>1, <1>4, AbortJudged, DriftStops, CallTypes DEF LoopTypeOK
  <2> QED BY <1>3, <2>1 DEF IInv, Judged, TypeOK
<1>5. CASE /\ DriftClass = "none" /\ outcome' = outcome
           /\ stage' = IF stage = "start" THEN "propose" ELSE "examine"
  <2>1. LoopTypeOK'
    BY <1>1, <1>5, CallTypes DEF LoopTypeOK, CallStages
  <2>2. \A r \in Roles : connection[r] = "installed"
    BY <1>5, DriftStops, CallTypes DEF LoopTypeOK
  <2>3. outcome.terminal = "none"
    BY <1>1 DEF IInv, VerdictAtTheEnd
  <2>4. BooksFollow'
    BY <1>1, <1>5 DEF IInv, BooksFollow, account
  <2>5. Judged'
    BY <1>1, <1>2, <1>5, <2>2, <2>3, <2>4
       DEF IInv, Judged, EvidenceIsCurrent, Answered, LinksChecked, OverrunAborts,
           VerdictAtTheEnd, VerdictRestsOnBoth, VerdictMatchesBooks, account
  <2> QED BY <1>3, <2>1, <2>5 DEF IInv, Judged, TypeOK
<1> QED BY <1>1, <1>4, <1>5

LEMMA EvaluatorRaisesInv ==
    ASSUME IInv, EvaluatorRaises
    PROVE  IInv'
<1>1. /\ stage = "examine" /\ pc[Run] = "idle" /\ stage' = "escaped"
      /\ UNCHANGED <<account, config, fails, connection, answer, observation,
                     completions, trace, used, last, outcome>>
  BY DEF EvaluatorRaises
<1>2. HoldsOne' /\ Budget!TypeOK'
  BY <1>1 DEF IInv, TypeOK, Budget!TypeOK, HoldsOne, NoneReserved, account
<1>3. LoopTypeOK'
  BY <1>1, CallTypes DEF LoopTypeOK, Ended
<1>4. Judged'
  BY <1>1 DEF IInv, Judged, BooksFollow, EvidenceIsCurrent, Answered, LinksChecked, OverrunAborts,
              VerdictAtTheEnd, VerdictRestsOnBoth, VerdictMatchesBooks, account
<1> QED BY <1>2, <1>3, <1>4 DEF IInv, Judged, TypeOK

\* A round that is not decided ends the run.
LEMMA RoundAbortsInv ==
    ASSUME IInv, FuseFails \/ NoTemplate
    PROVE  IInv'
<1>1. PICK class \in {"fuse_failure", "schema_invalid"} :
        /\ stage = "decide" /\ Abort(class)
        /\ UNCHANGED <<account, config, fails, connection, answer, observation,
                       completions, trace, used, last>>
  BY DEF FuseFails, NoTemplate
<1>2. pc[Run] = "idle" /\ NoneReserved
  BY <1>1, CallTypes DEF IInv, HoldsOne, CallStages
<1>3. HoldsOne' /\ Budget!TypeOK'
  BY <1>1, <1>2 DEF IInv, TypeOK, Budget!TypeOK, HoldsOne, NoneReserved, account
<1>4. Judged' /\ LoopTypeOK'
  BY <1>1, AbortJudged, CallTypes DEF LoopTypeOK, AbortClasses, Budget!AbortClasses
<1> QED BY <1>3, <1>4 DEF IInv, Judged, TypeOK

\* decide accepts a text that fails nothing and no other; while there is time it
\* rules one of three actions.
LEMMA DecideRules ==
    ASSUME NEW failing, NEW round, NEW rounds
    PROVE  LET d == Decide(failing, round, rounds, FALSE) IN
           /\ d.action \in {"accept", "revise", "refuse"} /\ d.reason \in Reasons
           /\ d.action = "accept" <=> failing = {}
BY DEF Decide, NoRoundLeft, Ruled, Reasons

LEMMA DecideRoundInv ==
    ASSUME IInv, DecideRound
    PROVE  IInv'
<1>1. /\ stage = "decide"
      /\ last' = [text |-> Current, failing |-> FusedFailing,
                  action |-> Decision.action, reason |-> Decision.reason]
      /\ completions' = completions
      /\ \/ Decision.action = "revise" /\ stage' = "revise" /\ outcome' = outcome
         \/ Conclude(Decision.action, last')
      /\ UNCHANGED <<account, config, fails, connection, answer, observation, trace, used>>
  BY DEF DecideRound
<1>2. /\ pc[Run] = "idle" /\ NoneReserved
  BY <1>1, CallTypes DEF IInv, HoldsOne, CallStages
<1>3. HoldsOne' /\ Budget!TypeOK'
  BY <1>1, <1>2 DEF IInv, TypeOK, Budget!TypeOK, HoldsOne, NoneReserved, account
<1>4. /\ observation.text = Current /\ Len(completions) = Len(trace) + 1
      /\ committed[Budget!Proposal] = Len(completions)
      /\ committed[Budget!Examiner] = Len(trace) + 1 /\ used = Len(trace)
      /\ ~(usdCommitted > MaxUsd) /\ outcome.terminal = "none"
      /\ completions \in Seq(Texts) /\ connection \in [Roles -> Links]
  BY <1>1, CallTypes DEF IInv, EvidenceIsCurrent, BooksFollow, OverrunAborts, VerdictAtTheEnd,
                         LoopTypeOK
<1>5. Current \in Texts /\ FusedFailing \in SUBSET Shards
  <2>1. Current \in Texts
    BY <1>1, <1>4, CallTypes DEF Current, Last, LoopTypeOK
  <2>2. observation.penalised \in SUBSET Shards
    BY CallTypes DEF LoopTypeOK, Observations
  <2>3. fails \in [Texts -> SUBSET Shards]
    BY CallTypes DEF LoopTypeOK
  <2> QED BY <2>1, <2>2, <2>3 DEF FusedFailing
<1>6. /\ Decision.action \in {"accept", "revise", "refuse"} /\ Decision.reason \in Reasons
      /\ Decision.action = "accept" <=> FusedFailing = {}
  BY DecideRules DEF Decision
<1>7. last' \in [text : Texts \cup {EmptyText}, failing : SUBSET Shards,
                 action : {"none", "accept", "revise", "refuse"}, reason : Reasons]
  BY <1>1, <1>5, <1>6
<1>8. Current' = Current /\ FusedFailing' = FusedFailing
  BY <1>1 DEF Current, FusedFailing
<1>9. CASE Decision.action = "revise" /\ stage' = "revise" /\ outcome' = outcome
  <2>1. LoopTypeOK'
    BY <1>1, <1>7, <1>9, CallTypes DEF LoopTypeOK, CallStages
  <2>2. BooksFollow'
    BY <1>1, <1>4, <1>9 DEF BooksFollow, account
  <2>3. EvidenceIsCurrent'
    BY <1>1, <1>4, <1>6, <1>8, <1>9 DEF EvidenceIsCurrent
  <2>4. Judged'
    BY <1>1, <1>2, <1>4, <1>9, <2>2, <2>3 DEF Judged, Answered, LinksChecked, OverrunAborts,
           VerdictAtTheEnd, VerdictRestsOnBoth, VerdictMatchesBooks, account
  <2> QED BY <1>3, <2>1, <2>4 DEF IInv, Judged, TypeOK
<1>10. CASE Conclude(Decision.action, last')
  <2>1. /\ stage' = "finished"
        /\ outcome' = [terminal |-> Decision.action, abort |-> "none", output |-> Current,
                       failing |-> FusedFailing, calls |-> Len(completions)]
    BY <1>1, <1>10 DEF Conclude
  <2>2. LoopTypeOK'
    <3>1. outcome' \in [terminal : Terminals \cup {"none"}, abort : AbortClasses \cup {"none"},
                        output : Texts \cup {EmptyText}, failing : SUBSET Shards, calls : Nat]
      BY <1>4, <1>5, <1>6, <2>1 DEF Terminals
    <3> QED BY <1>1, <1>7, <2>1, <3>1, CallTypes DEF LoopTypeOK, Ended
  <2>3. BooksFollow' /\ EvidenceIsCurrent' /\ Answered' /\ LinksChecked' /\ OverrunAborts'
        /\ VerdictAtTheEnd'
    BY <1>1, <1>4, <2>1 DEF BooksFollow, EvidenceIsCurrent, Answered, LinksChecked,
                            OverrunAborts, VerdictAtTheEnd, account
  <2>4. VerdictRestsOnBoth'
    BY <1>1, <1>4, <1>6, <2>1 DEF VerdictRestsOnBoth, FusedFailing
  <2>5. VerdictMatchesBooks'
    BY <1>1, <1>4, <1>6, <2>1 DEF VerdictMatchesBooks, account
  <2> QED BY <1>3, <2>2, <2>3, <2>4, <2>5 DEF IInv, TypeOK
<1> QED BY <1>1, <1>9, <1>10

LEMMA DeadlinePassesInv ==
    ASSUME IInv, DeadlinePasses
    PROVE  IInv'
<1>1. expired' = TRUE /\ UNCHANGED <<loop, nextId, reservations, usdReserved, usdCommitted, reserved,
                                    committed, pc, held, cost, raised, overrun, incurred>>
  BY DEF DeadlinePasses, Budget!DeadlinePasses, Budget!ledger
<1>2. HoldsOne' /\ Budget!TypeOK'
  BY <1>1, LoopUnchanged, CallTypes DEF IInv, Budget!TypeOK, HoldsOne, NoneReserved, OneReserved,
                                       PaidOver, Handle
<1>3. Judged' /\ LoopTypeOK'
  BY <1>1, LoopUnchanged
     DEF IInv, TypeOK, Judged, BooksFollow, EvidenceIsCurrent, Answered, LinksChecked,
         OverrunAborts, VerdictAtTheEnd, VerdictRestsOnBoth, VerdictMatchesBooks
<1> QED BY <1>2, <1>3 DEF IInv, Judged, TypeOK

LEMMA InitInv ==
    ASSUME Init PROVE IInv
<1>1. Budget!TypeOK
  BY DEF Init, Budget!Init, Budget!TypeOK, Budget!Handles, Budget!NoHandle, Budget!States,
         Budget!Kinds, Budget!Proposal, Budget!ReservationIds
<1>2. LoopTypeOK
  <2>1. last \in [text : Texts \cup {EmptyText}, failing : SUBSET Shards,
                  action : {"none", "accept", "revise", "refuse"}, reason : Reasons]
    BY DEF Init, NoRound, Reasons
  <2>2. outcome \in [terminal : Terminals \cup {"none"}, abort : AbortClasses \cup {"none"},
                     output : Texts \cup {EmptyText}, failing : SUBSET Shards, calls : Nat]
    BY DEF Init, NoOutcome
  <2>3. completions \in Seq(Texts) /\ trace \in Seq(TraceSteps)
    BY DEF Init
  <2> QED BY <2>1, <2>2, <2>3 DEF Init, LoopTypeOK, TraceSteps
<1>3. HoldsOne
  BY DEF Init, Budget!Init, HoldsOne, NoneReserved
<1>4. Judged
  BY DEF Init, Budget!Init, NoOutcome, Judged, BooksFollow, EvidenceIsCurrent, Answered,
         LinksChecked, OverrunAborts, VerdictAtTheEnd, VerdictRestsOnBoth, VerdictMatchesBooks
<1> QED BY <1>1, <1>2, <1>3, <1>4 DEF IInv, Judged, TypeOK

LEMMA NextInv ==
    ASSUME IInv, [Next]_vars PROVE IInv'
<1>1. CASE DeadlinePasses
  BY <1>1, DeadlinePassesInv
<1>2. CASE Recheck \/ EvaluatorRaises \/ FuseFails \/ NoTemplate \/ DecideRound
  BY <1>2, RecheckInv, EvaluatorRaisesInv, RoundAbortsInv, DecideRoundInv
<1>3. CASE ReserveLane \/ LaneRefused \/ BeginCall \/ BeginTooLate
  BY <1>3, ReserveLaneInv, LaneRefusedInv, BeginCallInv, BeginTooLateInv
<1>4. CASE CallEnds
  BY <1>4, DraftAnswersInv, ProviderAnswersInv, ExaminerAnswersInv, CallFailsInv DEF CallEnds
<1>5. CASE ProposalOverruns \/ TakeFirst \/ TakeRevision \/ TakeObservation \/ Unwind
  BY <1>5, ProposalOverrunsInv, TakeFirstInv, TakeRevisionInv, TakeObservationInv, UnwindInv
<1>6. CASE UNCHANGED vars
  <2>1. UNCHANGED loop /\ UNCHANGED account
    BY <1>6 DEF vars
  <2>2. HoldsOne' /\ Budget!TypeOK'
    BY <2>1, LoopUnchanged DEF IInv, TypeOK, Budget!TypeOK, HoldsOne, NoneReserved, OneReserved,
                               PaidOver, Handle, account
  <2>3. Judged' /\ LoopTypeOK'
    BY <2>1, LoopUnchanged
       DEF IInv, TypeOK, Judged, BooksFollow, EvidenceIsCurrent, Answered, LinksChecked,
           OverrunAborts, VerdictAtTheEnd, VerdictRestsOnBoth, VerdictMatchesBooks, account
  <2> QED BY <2>2, <2>3 DEF IInv, Judged, TypeOK
<1> QED BY <1>1, <1>2, <1>3, <1>4, <1>5, <1>6 DEF Next, Loop

LEMMA RunInv == Spec => []IInv
<1>1. Init => IInv
  BY InitInv
<1>2. IInv /\ [Next]_vars => IInv'
  BY NextInv
<1> QED BY <1>1, <1>2, PTL DEF Spec

-----------------------------------------------------------------------------

\* Every variable of the run and of its budget keeps its type.
THEOREM TypeCorrect == Spec => []TypeOK
<1>1. IInv => TypeOK
  BY DEF IInv
<1> QED BY <1>1, RunInv, PTL

\* A run that has ended, however it ended, has given back what it reserved
\* (loop.py, _release_unless_committed and the except branches).
THEOREM NothingIsLeftReserved == Spec => []EndedRunHoldsNothing
<1>1. IInv => EndedRunHoldsNothing
  BY DEF IInv, TypeOK, Budget!TypeOK, HoldsOne, NoneReserved, EndedRunHoldsNothing, CallStages, Ended
<1> QED BY <1>1, RunInv, PTL

\* A verdict is about the text that was evaluated and examined, and rests on
\* what both said.
THEOREM VerdictIsGrounded == Spec => []VerdictRestsOnBoth
<1>1. IInv => VerdictRestsOnBoth
  BY DEF IInv
<1> QED BY <1>1, RunInv, PTL

\* At a verdict the books agree with the completions and with the trace.
THEOREM BooksAgreeAtVerdict == Spec => []VerdictMatchesBooks
<1>1. IInv => VerdictMatchesBooks
  BY DEF IInv
<1> QED BY <1>1, RunInv, PTL

\* Money spent above the budget leaves no verdict, in either lane.
THEOREM OverrunHasNoVerdict == Spec => []NoVerdictOverBudget
<1>1. IInv => NoVerdictOverBudget
  BY DEF IInv, OverrunAborts, VerdictAtTheEnd, NoVerdictOverBudget
<1> QED BY <1>1, RunInv, PTL

\* The examiner is asked only over connections that read as at install.
THEOREM ExaminerSeesInstall == Spec => ExaminerAskedAsInstalled
<1>1. ASSUME IInv, [Next]_vars, reserved'[Budget!Examiner] > reserved[Budget!Examiner]
      PROVE  \A r \in Roles : connection[r] = "installed"
  <2>1. reserved' # reserved /\ reserved[Budget!Examiner] \in Nat
    BY <1>1, CallTypes DEF Budget!Kinds
  <2>2. ReserveLane \/ Budget!Commit(Run) \/ (OneReserved /\ Budget!ReleaseLocked(held[Run]))
    BY <1>1, <2>1 DEF Next, Loop, vars, account, DeadlinePasses, Budget!DeadlinePasses, Recheck,
         EvaluatorRaises, LaneRefused, Budget!ReserveRefused, BeginCall, Budget!BeginExecute,
         CallEnds, DraftAnswers, ProviderAnswers, ExaminerAnswers, Budget!CallReturns, CallFails,
         Budget!CallFails, ProposalOverruns, TakeFirst, TakeRevision, TakeObservation,
         FuseFails, NoTemplate, DecideRound, Budget!ledger, BeginTooLate,
         Budget!BeginExecuteTooLate, Unwind, Budget!Unwind, IInv, HoldsOne, PaidOver, Handle
  <2>3. NoneReserved' => ~(reserved'[Budget!Examiner] > reserved[Budget!Examiner])
    BY <2>1 DEF NoneReserved, Budget!Kinds
  <2>4. ReserveLane
    BY <1>1, <2>2, <2>3, CommitStep, ReleaseStep
  <2>5. reserved' = [reserved EXCEPT ![Lane] = @ + 1] /\ stage \in CallStages /\ pc[Run] = "idle"
    BY <2>4 DEF ReserveLane, Budget!Reserve
  <2>6. stage = "examine"
    BY <1>1, <2>1, <2>5, CallTypes DEF Lane, CallStages, Budget!Proposal, Budget!Examiner, Budget!Kinds
  <2> QED BY <1>1, <2>5, <2>6 DEF IInv, LinksChecked
<1>2. IInv /\ [Next]_vars =>
        [reserved'[Budget!Examiner] > reserved[Budget!Examiner] =>
            \A r \in Roles : connection[r] = "installed"]_vars
  BY <1>1
<1> QED BY <1>2, RunInv, PTL DEF Spec, ExaminerAskedAsInstalled

=============================================================================
