--------------------------- MODULE SessionCommit ---------------------------
(***************************************************************************)
(* Turns of one session and their way to disk: ConstrainedSession          *)
(* (ai4/constrain/session.py) over FileSessionStore and a JSONL tracer.    *)
(*                                                                         *)
(* A process holds one session object of this id.  complete() and          *)
(* evaluate_text() hold the object's lock from the first check to the last *)
(* trace event, so a process has one turn under way; what interleaves is   *)
(* the file operations of different processes, and the death of a process  *)
(* between any two of them.                                                *)
(*                                                                         *)
(* The directory maps the two names a save uses to inodes: a process that  *)
(* has the temporary file open keeps writing to the inode it opened, under *)
(* whatever name that inode has by then.  A snapshot is the sequence of    *)
(* its turns; a turn is its number.  Sessions with persist=False, which    *)
(* save nothing, are left out; so is what a turn decides (ControlLoop).    *)
(***************************************************************************)
EXTENDS Naturals, Sequences, FiniteSets, SequencesExt, FiniteSetsExt

CONSTANTS
    Processes,    \* processes that open the session
    Unencodable,  \* turns with text that UTF-8 cannot encode (lone surrogates)
    MaxTurns      \* bound: turns begun in one behaviour

ASSUME TurnsAssumption ==
    /\ MaxTurns \in Nat
    /\ Unencodable \subseteq 1..MaxTurns

Turns == 1..MaxTurns

VARIABLES
    name,      \* "live" and "tmp" -> inode, NoInode where there is no such file
    data,      \* inode -> contents
    pc,        \* process -> where its session object stands
    turns,     \* process -> the object's _turns
    fd,        \* process -> inode it has open for writing
    error,     \* process -> exception that is under way
    nextTurn,
    returned,  \* turns whose complete() returned
    traced     \* turns of which the trace has an event

vars == <<name, data, pc, turns, fd, error, nextTurn, returned, traced>>

-----------------------------------------------------------------------------

NoInode == 0
Inodes == 1..(2 + Cardinality(Processes))

Blank == [kind |-> "empty", turns |-> << >>]
Torn == [kind |-> "torn", turns |-> << >>]
Snapshot(s) == [kind |-> "snapshot", turns |-> s]

InUse == {name.live, name.tmp} \cup {fd[p] : p \in Processes}
FreeInode == Min(Inodes \ InUse)

\* What load returns: the snapshot, an empty session where there is no file, or
\* an error for a file that is empty or does not parse.
Loadable == name.live \in Inodes => data[name.live].kind = "snapshot"
Loaded == IF name.live = NoInode THEN << >> ELSE data[name.live].turns

Init ==
    /\ name = [live |-> NoInode, tmp |-> NoInode]
    /\ data = [i \in Inodes |-> Blank]
    /\ pc = [p \in Processes |-> "closed"]
    /\ turns = [p \in Processes |-> << >>]
    /\ fd = [p \in Processes |-> NoInode]
    /\ error = [p \in Processes |-> "none"]
    /\ nextTurn = 1
    /\ returned = {} /\ traced = {}

\* The constructor adopts the stored turns; an unreadable file fails it.
OpenSession(p) ==
    /\ pc[p] = "closed"
    /\ Loadable
    /\ turns' = [turns EXCEPT ![p] = Loaded]
    /\ pc' = [pc EXCEPT ![p] = "idle"]
    /\ UNCHANGED <<name, data, fd, error, nextTurn, returned, traced>>

\* Bug: the turn is traced before it is saved.
CompleteTracesFirst(p) ==
    /\ pc[p] = "idle"
    /\ nextTurn \in Turns
    /\ turns' = [turns EXCEPT ![p] = Append(@, nextTurn)]
    /\ traced' = traced \cup {nextTurn}
    /\ nextTurn' = nextTurn + 1
    /\ pc' = [pc EXCEPT ![p] = "saving"]
    /\ UNCHANGED <<name, data, fd, error, returned>>

\* run() or evaluate() has returned a report and _commit_turn appends the turn.
\* When they raise, nothing is appended: a call that leaves no trace here.
Complete(p) ==
    /\ pc[p] = "idle"
    /\ nextTurn \in Turns
    /\ turns' = [turns EXCEPT ![p] = Append(@, nextTurn)]
    /\ nextTurn' = nextTurn + 1
    /\ pc' = [pc EXCEPT ![p] = "saving"]
    /\ UNCHANGED <<name, data, fd, error, returned, traced>>

Fails(p, class) ==
    /\ pc' = [pc EXCEPT ![p] = "failing"]
    /\ error' = [error EXCEPT ![p] = class]
    /\ fd' = [fd EXCEPT ![p] = NoInode]

\* write_text opens the temporary file, which creates or empties it.
OpenTmp(p) ==
    /\ pc[p] = "saving"
    /\ LET inode == IF name.tmp = NoInode THEN FreeInode ELSE name.tmp IN
       /\ name' = [name EXCEPT !.tmp = inode]
       /\ data' = [data EXCEPT ![inode] = Blank]
       /\ fd' = [fd EXCEPT ![p] = inode]
    /\ pc' = [pc EXCEPT ![p] = "opened"]
    /\ UNCHANGED <<turns, error, nextTurn, returned, traced>>

OpenTmpFails(p) ==
    /\ pc[p] = "saving"
    /\ Fails(p, "OSError")
    /\ UNCHANGED <<name, data, turns, nextTurn, returned, traced>>

\* Every turn of the snapshot is encoded and written.  Over another writer's
\* bytes, a shorter snapshot leaves their tail.
WriteTmp(p) ==
    /\ pc[p] = "opened"
    /\ Range(turns[p]) \cap Unencodable = {}
    /\ \E written \in {Snapshot(turns[p]), Torn} :
         /\ data[fd[p]] = Blank => written = Snapshot(turns[p])
         /\ data' = [data EXCEPT ![fd[p]] = written]
    /\ fd' = [fd EXCEPT ![p] = NoInode]
    /\ pc' = [pc EXCEPT ![p] = "written"]
    /\ UNCHANGED <<name, turns, error, nextTurn, returned, traced>>

\* The disk refuses the bytes or some of them; or the text has no encoding.
WriteTmpFails(p) ==
    /\ pc[p] = "opened"
    /\ IF Range(turns[p]) \cap Unencodable = {}
       THEN /\ \E partial \in {data[fd[p]], Torn} : data' = [data EXCEPT ![fd[p]] = partial]
            /\ Fails(p, "OSError")
       ELSE /\ Fails(p, "UnicodeEncodeError")
            /\ UNCHANGED data
    /\ UNCHANGED <<name, turns, nextTurn, returned, traced>>

\* Path.replace: whatever the temporary name stands for becomes the live file.
ReplaceTmp(p) ==
    /\ pc[p] = "written"
    /\ name.tmp # NoInode
    /\ name' = [live |-> name.tmp, tmp |-> NoInode]
    /\ pc' = [pc EXCEPT ![p] = "replaced"]
    /\ UNCHANGED <<data, turns, fd, error, nextTurn, returned, traced>>

\* The temporary file is gone, or the rename is refused.
ReplaceTmpFails(p) ==
    /\ pc[p] = "written"
    /\ Fails(p, "OSError")
    /\ UNCHANGED <<name, data, turns, nextTurn, returned, traced>>

\* finally: a temporary file that is there is removed; an error in doing so is
\* passed over.
Unlinked == {[name EXCEPT !.tmp = NoInode], name}

\* save returns.
SaveReturns(p) ==
    /\ pc[p] = "replaced"
    /\ name' \in Unlinked
    /\ pc' = [pc EXCEPT ![p] = "tracing"]
    /\ UNCHANGED <<data, turns, fd, error, nextTurn, returned, traced>>

\* Bug: the turn of a failed save stays in memory.
SaveRaisesKeepsTurn(p) ==
    /\ pc[p] = "failing"
    /\ name' \in Unlinked
    /\ UNCHANGED turns
    /\ pc' = [pc EXCEPT ![p] = "idle"]
    /\ error' = [error EXCEPT ![p] = "none"]
    /\ UNCHANGED <<data, fd, nextTurn, returned, traced>>

\* save raises.  An OSError comes out as ConstraintExecutionError, and
\* _commit_turn takes the turn back; any other exception passes it by.
SaveRaises(p) ==
    /\ pc[p] = "failing"
    /\ name' \in Unlinked
    /\ turns' = IF error[p] = "OSError" THEN [turns EXCEPT ![p] = Front(@)] ELSE turns
    /\ pc' = [pc EXCEPT ![p] = "idle"]
    /\ error' = [error EXCEPT ![p] = "none"]
    /\ UNCHANGED <<data, fd, nextTurn, returned, traced>>

\* _trace_turn writes its events and complete() returns the turn; without a
\* tracer nothing is written.
TraceAndReturn(p) ==
    /\ pc[p] = "tracing"
    /\ traced' \in {traced, traced \cup {Last(turns[p])}}
    /\ returned' = returned \cup {Last(turns[p])}
    /\ pc' = [pc EXCEPT ![p] = "idle"]
    /\ UNCHANGED <<name, data, turns, fd, error, nextTurn>>

\* An event cannot be written, the first or a later one: complete() raises, and
\* the turn is saved and stays.
TraceFails(p) ==
    /\ pc[p] = "tracing"
    /\ traced' \in {traced, traced \cup {Last(turns[p])}}
    /\ pc' = [pc EXCEPT ![p] = "idle"]
    /\ UNCHANGED <<name, data, turns, fd, error, nextTurn, returned>>

\* The process ends or dies, wherever it stands; what it was writing may be there
\* in part.
Exit(p) ==
    /\ pc[p] # "closed"
    /\ data' \in {data} \cup {[data EXCEPT ![i] = Torn] : i \in {fd[p]} \ {NoInode}}
    /\ pc' = [pc EXCEPT ![p] = "closed"]
    /\ turns' = [turns EXCEPT ![p] = << >>]
    /\ fd' = [fd EXCEPT ![p] = NoInode]
    /\ error' = [error EXCEPT ![p] = "none"]
    /\ UNCHANGED <<name, nextTurn, returned, traced>>

Next == \E p \in Processes :
    \/ OpenSession(p) \/ Complete(p)
    \/ OpenTmp(p) \/ OpenTmpFails(p)
    \/ WriteTmp(p) \/ WriteTmpFails(p)
    \/ ReplaceTmp(p) \/ ReplaceTmpFails(p)
    \/ SaveReturns(p) \/ SaveRaises(p)
    \/ TraceAndReturn(p) \/ TraceFails(p)
    \/ Exit(p)

Spec == Init /\ [][Next]_vars

-----------------------------------------------------------------------------

\* Types; the two names never stand for the same file.
TypeOK ==
    /\ name \in [live : Inodes \cup {NoInode}, tmp : Inodes \cup {NoInode}]
    /\ name.live = name.tmp => name.live = NoInode
    /\ data \in [Inodes -> [kind : {"empty", "torn", "snapshot"}, turns : Seq(Turns)]]
    /\ pc \in [Processes -> {"closed", "idle", "saving", "opened", "written", "replaced",
                             "failing", "tracing"}]
    /\ turns \in [Processes -> Seq(Turns)]
    /\ fd \in [Processes -> Inodes \cup {NoInode}]
    /\ error \in [Processes -> {"none", "OSError", "UnicodeEncodeError"}]
    /\ nextTurn \in 1..(MaxTurns + 1)
    /\ returned \subseteq Turns /\ traced \subseteq Turns

\* An idle session object holds exactly the turns a later load will see, as
\* long as every turn can be encoded: "a failed persist cannot leave a turn
\* that later loads will not see" (_commit_turn).
IdleMatchesDisk ==
    \A p \in Processes :
        pc[p] = "idle" /\ Range(turns[p]) \cap Unencodable = {} => turns[p] = Loaded

\* One process after the other, dying anywhere: turns are saved one at a time, a
\* call that has returned is on disk for good, no restart loses a turn or finds
\* a file it cannot read, and the trace tells of nothing that is not on disk.
Log == INSTANCE SessionLog WITH log <- Loaded, acked <- returned, told <- traced
ImplementsSessionLog == Log!Spec

\* "Persistence success is save returning after the tmp write and Path.replace.
\* That is the live commit point" (FileSessionStore): a save that returns has
\* put its own snapshot, or one taken later, into the live file.
SaveReturnedIsCommitted ==
    \A p \in Processes : pc[p] = "replaced" => Last(turns[p]) \in Range(Loaded)
=============================================================================
