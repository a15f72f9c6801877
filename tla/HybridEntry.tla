---------------------------- MODULE HybridEntry ----------------------------
(***************************************************************************)
(* Runs of the hybrid path that share one session id: execute_configured   *)
(* (ai4/constrain/_v07_3c/entry.py), the installation (install.py) and the *)
(* two documents they keep (persist.py, _v07_3b/session.py).               *)
(*                                                                         *)
(* The session document says whether the session was ever on and with      *)
(* which identity; it is also the file of a plain ConstrainedSession of    *)
(* that id, which writes it without those fields (session.py).  The report *)
(* document is the last success report.  Once either document shows hybrid *)
(* evidence, a run may only govern or abort: None, which sends the caller  *)
(* down the plain path, is over.                                           *)
(*                                                                         *)
(* Nothing locks the documents from one writer to another, and every save  *)
(* of a document goes through one and the same temporary file: it is       *)
(* opened, written, renamed over the document and, where it is still       *)
(* there, removed.  The steps of different writers interleave.             *)
(*                                                                         *)
(* What happens between the installation and the report is GoverningRun.   *)
(***************************************************************************)
EXTENDS HybridContext

CONSTANTS
    Runs,          \* calls of run() with an integration, each made once
    PlainSession,  \* the plain session object
    Settings       \* settings the runs may be made with

ASSUME EntryAssumption ==
    /\ PlainSession \notin Runs
    /\ \A s \in Settings : s.calls \in Nat /\ s.completions \in Nat

VARIABLES
    live,      \* document -> contents of its file
    tmp,       \* document -> contents of its temporary file
    at,        \* writer -> where it stands in a save
    hand,      \* writer -> name of the file it has open for writing
    plain,     \* whether the plain session is open
    place,     \* run -> where it stands, and what it came to
    setting,   \* run -> its integration and connections
    prior,     \* run -> the session document it has loaded
    evidence,  \* run -> whether a report document was there
    \* history
    found,     \* run -> identity and report the documents showed when it began
    alone,     \* run -> whether nothing else was under way since it began
    cleared,   \* runs while which the session document went off
    crossed,   \* document -> runs while which two saves of it overlapped
    reported   \* runs whose report became the report document

saves == <<live, tmp, at, hand>>
run == <<place, setting, prior, evidence>>
history == <<found, alone, cleared, crossed, reported>>
entryVars == <<saves, plain, run, history>>

-----------------------------------------------------------------------------
(* The documents and their writers. *)

Document == {"session", "report"}
Writers == Runs \cup {PlainSession}

Content(kind) == [kind |-> kind, of |-> None]
Absent == Content("absent")
Empty == Content("empty")
Torn == Content("torn")
Off == Content("off")
On(identity) == [kind |-> "on", of |-> identity]
ReportOf(r) == [kind |-> "report", of |-> r]

\* What load raises on.
Damaged(content) == content \in {Empty, Torn}

Outcomes == {"off", "verdict", "abort", "raised"}
UnderWay == {r \in Runs : place[r] \notin {"idle", "dead"} \cup Outcomes}

Saving == {"install", "save_session", "save_report"}

Doc(w) == IF w \in Runs /\ place[w] = "save_report" THEN "report" ELSE "session"

\* The marker of the installation, over an empty session: turns of a plain
\* session are not carried over.  persist_success_session writes back what was
\* loaded.
Payload(w) ==
    IF w = PlainSession THEN Off
    ELSE IF place[w] = "install" THEN On(Identity(setting[w]))
    ELSE IF place[w] = "save_session" THEN prior[w]
    ELSE ReportOf(w)

\* Where a run goes on once its save has returned.
AfterSave == [install |-> "govern", save_session |-> "save_report", save_report |-> "verdict"]

EntryInit ==
    /\ live = [d \in Document |-> Absent] /\ tmp = [d \in Document |-> Absent]
    /\ at = [w \in Writers |-> "out"]
    /\ hand = [w \in Writers |-> "none"]
    /\ plain = FALSE
    /\ place = [r \in Runs |-> "idle"]
    /\ setting \in [Runs -> Settings]
    /\ prior = [r \in Runs |-> Absent]
    /\ evidence = [r \in Runs |-> FALSE]
    /\ found = [r \in Runs |-> [identity |-> None, report |-> FALSE]]
    /\ alone = [r \in Runs |-> TRUE]
    /\ cleared = {} /\ reported = {}
    /\ crossed = [d \in Document |-> {}]

Goto(r, label) == place' = [place EXCEPT ![r] = label]

-----------------------------------------------------------------------------
(* One run, but for its saves. *)

\* require_governing_integration and the two stores.
Begin(r) ==
    /\ place[r] = "idle"
    /\ Goto(r, IF Validated(setting[r]) THEN "load_session" ELSE "raised")
    /\ found' = [found EXCEPT ![r] = [identity |-> live["session"].of,
                                      report |-> live["report"] # Absent]]
    /\ alone' = [q \in Runs |-> IF q = r THEN UnderWay = {} /\ ~plain
                                ELSE alone[q] /\ q \notin UnderWay]
    /\ UNCHANGED <<saves, plain, setting, prior, evidence, cleared, crossed, reported>>

\* load_session_document; a file that cannot be read or parsed raises.
LoadSession(r) ==
    /\ place[r] = "load_session"
    /\ \/ /\ ~Damaged(live["session"])
          /\ Goto(r, "load_report")
          /\ prior' = [prior EXCEPT ![r] = live["session"]]
       \/ Goto(r, "raised") /\ UNCHANGED prior
    /\ UNCHANGED <<saves, plain, setting, evidence, history>>

\* Bug: the report document is not looked at.
LoadReportIgnored(r) ==
    /\ place[r] = "load_report"
    /\ Goto(r, "assess") \/ Goto(r, "raised")
    /\ UNCHANGED <<saves, plain, setting, prior, evidence, history>>

LoadReport(r) ==
    /\ place[r] = "load_report"
    /\ \/ /\ ~Damaged(live["report"])
          /\ Goto(r, "assess")
          /\ evidence' = [evidence EXCEPT ![r] = live["report"] # Absent]
       \/ Goto(r, "raised") /\ UNCHANGED evidence
    /\ UNCHANGED <<saves, plain, setting, prior, history>>

\* repair_continuity: any evidence raises ever_on; hybrid_continuity_required.
Required(r) == prior[r].kind = "on" \/ evidence[r]

\* Bug: the stored identity is not compared.
VerdictWithoutDrift(r, late) ==
    LET s == setting[r] IN
    IF ConfigurationRefusal(s) # "ok" THEN "raised"
    ELSE IF MintRefusal(s) # "ok" THEN
        IF Required(r) THEN "abort"
        ELSE IF MintRefusal(s) = "provenance_mismatch" THEN "off" ELSE "raised"
    ELSE IF ~Ready(s, Required(r), TRUE, late) THEN IF Required(r) THEN "abort" ELSE "off"
    ELSE "install"

\* What execute_configured makes of its settings: "install", or how it ends.
\* The configuration raises whatever the evidence; what is not observed or not
\* ready aborts where continuity is required and else leaves the plain path; a
\* connection or pin other than the stored one is identity drift.
Verdict(r, late) ==
    LET s == setting[r] IN
    IF ConfigurationRefusal(s) # "ok" THEN "raised"
    ELSE IF MintRefusal(s) # "ok" THEN
        IF Required(r) THEN "abort"
        ELSE IF MintRefusal(s) = "provenance_mismatch" THEN "off" ELSE "raised"
    ELSE IF ~Ready(s, Required(r), TRUE, late) THEN IF Required(r) THEN "abort" ELSE "off"
    ELSE IF prior[r].kind = "on" /\ prior[r].of # Identity(s) THEN "abort"
    ELSE "install"

\* The deadline is set from the clock after the documents are loaded, and may
\* have passed whenever hybrid_ready reads the clock again.
Assess(r) ==
    /\ place[r] = "assess"
    /\ \E late \in BOOLEAN : Goto(r, Verdict(r, late))
    /\ UNCHANGED <<saves, plain, setting, prior, evidence, history>>

\* HybridOrchestrator.install asks hybrid_ready once more, before the marker.
InstallTooLate(r) ==
    /\ place[r] = "install" /\ at[r] = "out"
    /\ Goto(r, "abort")
    /\ UNCHANGED <<saves, plain, setting, prior, evidence, history>>

\* run_governing_loop and the report: decided, aborted, or another exception.
Govern(r) ==
    /\ place[r] = "govern"
    /\ \E label \in {"reload", "abort", "raised"} : Goto(r, label)
    /\ UNCHANGED <<saves, plain, setting, prior, evidence, history>>

\* The document is loaded again; one that is gone, off or damaged by now aborts.
Reload(r) ==
    /\ place[r] = "reload"
    /\ \/ /\ live["session"].kind = "on"
          /\ Goto(r, "save_session")
          /\ prior' = [prior EXCEPT ![r] = live["session"]]
       \/ Goto(r, "abort") /\ UNCHANGED prior
    /\ UNCHANGED <<saves, plain, setting, evidence, history>>

-----------------------------------------------------------------------------
(* A save, of a run or of the plain session. *)

Holders(d) == {w \in Writers : at[w] \in {"opened", "written"} /\ Doc(w) = d}

MaySave(w) == IF w = PlainSession THEN plain ELSE place[w] \in Saving

\* History: what a change of the documents means for the runs.
Noted ==
    /\ cleared' = IF live'["session"] = Off /\ live["session"] \notin {Off, Absent}
                  THEN cleared \cup UnderWay ELSE cleared
    /\ reported' = reported \cup {r \in Runs : live'["report"] = ReportOf(r)}

\* write_text opens the temporary file, which creates or empties it.
OpenTmp(w) ==
    /\ at[w] = "out" /\ MaySave(w)
    /\ tmp' = [tmp EXCEPT ![Doc(w)] = Empty]
    /\ at' = [at EXCEPT ![w] = "opened"]
    /\ hand' = [hand EXCEPT ![w] = "tmp"]
    /\ crossed' = IF Holders(Doc(w)) = {} THEN crossed
                  ELSE [crossed EXCEPT ![Doc(w)] = @ \cup UnderWay]
    /\ UNCHANGED <<live, plain, run, found, alone, cleared, reported>>

OpenTmpFails(w) ==
    /\ at[w] = "out" /\ MaySave(w)
    /\ at' = [at EXCEPT ![w] = "failing"]
    /\ UNCHANGED <<live, tmp, hand, plain, run, history>>

\* What w writes is in the file it opened, under whatever name that has by now.
WriteTo(w, content) ==
    /\ live' = IF hand[w] = "live" THEN [live EXCEPT ![Doc(w)] = content] ELSE live
    /\ tmp' = IF hand[w] = "tmp" THEN [tmp EXCEPT ![Doc(w)] = content] ELSE tmp

InHand(w) == IF hand[w] = "live" THEN live[Doc(w)] ELSE tmp[Doc(w)]

\* Over another writer's bytes, a shorter text leaves their tail.
WriteTmp(w) ==
    /\ at[w] = "opened"
    /\ \/ WriteTo(w, Payload(w))
       \/ InHand(w) # Empty /\ WriteTo(w, Torn)
    /\ at' = [at EXCEPT ![w] = "written"]
    /\ hand' = [hand EXCEPT ![w] = "none"]
    /\ Noted
    /\ UNCHANGED <<plain, run, found, alone, crossed>>

\* The disk refuses the bytes or some of them; or UTF-8 has no encoding for a
\* text of the report, which is not an OSError.
WriteTmpFails(w) ==
    /\ at[w] = "opened"
    /\ \/ at' = [at EXCEPT ![w] = "failing"] /\ UNCHANGED <<live, tmp>>
       \/ at' = [at EXCEPT ![w] = "failing"] /\ WriteTo(w, Torn)
       \/ Doc(w) = "report" /\ at' = [at EXCEPT ![w] = "escaping"] /\ UNCHANGED <<live, tmp>>
    /\ hand' = [hand EXCEPT ![w] = "none"]
    /\ UNCHANGED <<plain, run, history>>

\* The file a name stood for has another name now, or none.
Renamed(d, names) ==
    [w \in Writers |-> IF Doc(w) = d /\ hand[w] \in DOMAIN names THEN names[hand[w]] ELSE hand[w]]

\* Path.replace: whatever the temporary name stands for becomes the document.
ReplaceTmp(w) ==
    /\ at[w] = "written"
    /\ tmp[Doc(w)] # Absent
    /\ live' = [live EXCEPT ![Doc(w)] = tmp[Doc(w)]]
    /\ tmp' = [tmp EXCEPT ![Doc(w)] = Absent]
    /\ hand' = Renamed(Doc(w), [tmp |-> "live", live |-> "gone"])
    /\ at' = [at EXCEPT ![w] = "replaced"]
    /\ Noted
    /\ UNCHANGED <<plain, run, found, alone, crossed>>

\* The temporary file is gone, or the rename is refused.
ReplaceTmpFails(w) ==
    /\ at[w] = "written"
    /\ at' = [at EXCEPT ![w] = "failing"]
    /\ UNCHANGED <<live, tmp, hand, plain, run, history>>

\* finally: a temporary file that is there is removed, whoever opened it; an
\* error in doing so is passed over.
Finally(w) ==
    /\ \/ UNCHANGED <<tmp, hand>>
       \/ /\ tmp' = [tmp EXCEPT ![Doc(w)] = Absent]
          /\ hand' = Renamed(Doc(w), [tmp |-> "gone"])
    /\ at' = [at EXCEPT ![w] = "out"]
    /\ UNCHANGED live

\* save returns, and the run goes on; a verdict is returned only from here.
SaveReturns(w) ==
    /\ at[w] = "replaced"
    /\ Finally(w)
    /\ IF w \in Runs THEN Goto(w, AfterSave[place[w]]) ELSE UNCHANGED place
    /\ UNCHANGED <<plain, setting, prior, evidence, history>>

\* Bug: a save that fails does not stop the run.
SaveRaisesFailsOpen(w) ==
    /\ at[w] \in {"failing", "escaping"}
    /\ Finally(w)
    /\ IF w \in Runs THEN Goto(w, AfterSave[place[w]]) ELSE UNCHANGED place
    /\ UNCHANGED <<plain, setting, prior, evidence, history>>

\* save raises: a marker that is not saved is an installation that fails.  An
\* OSError is an abort, any other exception leaves execute_configured.
SaveRaises(w) ==
    /\ at[w] \in {"failing", "escaping"}
    /\ Finally(w)
    /\ IF w \in Runs THEN Goto(w, IF at[w] = "failing" THEN "abort" ELSE "raised")
                     ELSE UNCHANGED place
    /\ UNCHANGED <<plain, setting, prior, evidence, history>>

-----------------------------------------------------------------------------
(* The plain session, and processes that die. *)

\* SessionState.from_dict refuses a document with hybrid fields.
OpenPlain ==
    /\ ~plain /\ live["session"] \in {Absent, Off}
    /\ plain' = TRUE
    /\ alone' = [r \in Runs |-> alone[r] /\ r \notin UnderWay]
    /\ UNCHANGED <<saves, run, found, cleared, crossed, reported>>

\* What was being written may be there in part.
Stops(w) ==
    /\ \/ UNCHANGED <<live, tmp>>
       \/ at[w] = "opened" /\ WriteTo(w, Torn)
    /\ at' = [at EXCEPT ![w] = "out"]
    /\ hand' = [hand EXCEPT ![w] = "none"]

\* The session object is given up, or its process dies.
ClosePlain ==
    /\ plain
    /\ Stops(PlainSession)
    /\ plain' = FALSE
    /\ UNCHANGED <<run, history>>

\* The process of a run dies.
Die(r) ==
    /\ r \in UnderWay
    /\ Stops(r)
    /\ Goto(r, "dead")
    /\ UNCHANGED <<plain, setting, prior, evidence, history>>

-----------------------------------------------------------------------------

Step(r) ==
    \/ Begin(r) \/ LoadSession(r) \/ LoadReport(r) \/ Assess(r) \/ InstallTooLate(r)
    \/ Govern(r) \/ Reload(r)

Save(w) ==
    \/ OpenTmp(w) \/ OpenTmpFails(w) \/ WriteTmp(w) \/ WriteTmpFails(w)
    \/ ReplaceTmp(w) \/ ReplaceTmpFails(w) \/ SaveReturns(w) \/ SaveRaises(w)

EntryNext ==
    \/ \E r \in Runs : Step(r) \/ Die(r)
    \/ \E w \in Writers : Save(w)
    \/ OpenPlain \/ ClosePlain

EntrySpec == EntryInit /\ [][EntryNext]_entryVars

-----------------------------------------------------------------------------

Identities == {Identity(s) : s \in Settings}

SessionContents == {Absent, Empty, Torn, Off} \cup {On(i) : i \in Identities}
ReportContents == {Absent, Empty, Torn} \cup {ReportOf(r) : r \in Runs}

HoldContents(files) ==
    /\ files \in [Document -> SessionContents \cup ReportContents]
    /\ files["session"] \in SessionContents /\ files["report"] \in ReportContents

\* Types: each file holds what the writers of its document write, or part of it.
EntryTypeOK ==
    /\ HoldContents(live) /\ HoldContents(tmp)
    /\ at \in [Writers -> {"out", "opened", "written", "replaced", "failing", "escaping"}]
    /\ hand \in [Writers -> {"none", "tmp", "live", "gone"}]
    /\ plain \in BOOLEAN
    /\ place \in [Runs -> {"idle", "load_session", "load_report", "assess", "govern", "reload",
                           "dead"} \cup Saving \cup Outcomes]
    /\ setting \in [Runs -> Settings]
    /\ prior \in [Runs -> SessionContents]
    /\ evidence \in [Runs -> BOOLEAN]
    /\ found \in [Runs -> [identity : Identities \cup {None}, report : BOOLEAN]]
    /\ alone \in [Runs -> BOOLEAN]
    /\ crossed \in [Document -> SUBSET Runs]
    /\ cleared \subseteq Runs /\ reported \subseteq Runs

Governs(r) == place[r] \in {"govern", "reload", "save_session", "save_report"}

\* The marker is on disk before the first hybrid call and for as long as the run
\* governs, whoever else installs, fails, dies or removes a temporary file
\* ("ONLY THEN may proposal / examiner / fuse / decide begin", install.py).  Two
\* writers can take it away: a plain session that was open before and writes
\* over it, and one whose save of the document overlaps another's, since both
\* write to the one temporary file.
MarkerBeforeCalls ==
    \A r \in Runs : Governs(r) =>
        live["session"].kind = "on" \/ r \in cleared \cup crossed["session"]

\* A session that was on when a run began never sends that run down the plain
\* path, whatever its connections and its clock, and through every crash
\* before; nor does one with a report, even where a plain session has cleared
\* the marker ("evidence cannot be cleared toward OFF", persist.py).  Saves that
\* overlap make no exception: a damaged document raises.
NeverOffAgain ==
    \A r \in Runs : place[r] = "off" =>
        ~found[r].report /\ (found[r].identity = None \/ r \in cleared)

\* A caller is given a verdict exactly when the report that says so became the
\* report document, and an abort or an exception when it did not, whatever step
\* of a save fails and whoever removes the temporary file.  Where two saves of
\* the report overlap, one may install the other's text.
VerdictIffReported ==
    \A r \in Runs \ crossed["report"] :
        place[r] \in Outcomes => (place[r] = "verdict" <=> r \in reported)

\* A run with nothing beside it decides under the identity the session had
\* when it began: other connections or pins end in an abort.
IdentityIsKept ==
    \A r \in Runs :
        place[r] = "verdict" /\ alone[r] /\ found[r].identity # None =>
            Identity(setting[r]) = found[r].identity
=============================================================================
