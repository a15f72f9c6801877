--------------------------- MODULE MCHybridEntry ---------------------------
(***************************************************************************)
(* Two calls of run() on one session id, with a plain session beside       *)
(* them.  The settings are one that is ready and others that each differ   *)
(* from it in one thing the entry distinguishes.                           *)
(***************************************************************************)
EXTENDS HybridEntry, TLC

RunsAlike == Permutations(Runs)

\* States are told apart by what a later step or an invariant can still read: a
\* temporary file that nobody writes is emptied before it is used; what a run
\* has loaded is not looked at after it was assessed, nor what it began with
\* once it is installed with something beside it, has aborted, raised or died.
Failed == {"dead", "abort", "raised"}

BeganWith(r) ==
    IF place[r] \in Failed THEN None
    ELSE IF place[r] = "off" THEN found[r]
    ELSE IF (Governs(r) \/ place[r] = "verdict") /\ ~alone[r] THEN None
    ELSE <<setting[r], found[r], alone[r]>>

StillRead ==
    LET Kept(value, r, places) == IF place[r] \in places THEN value ELSE None
    IN <<live, [d \in Document |-> IF Holders(d) = {} THEN Absent ELSE tmp[d]],
         at, hand, plain, place,
         [r \in Runs |-> BeganWith(r)],
         [r \in Runs |-> Kept(prior[r], r, {"load_report", "assess", "save_session"})],
         [r \in Runs |-> Kept(evidence[r], r, {"assess"})],
         {r \in cleared : place[r] \notin Failed \cup {"verdict"}},
         crossed["session"] \cap UnderWay,
         {r \in crossed["report"] : place[r] # "dead"},
         {r \in reported : place[r] # "dead"}>>

Origin(h, p) == [scheme |-> "https", host |-> h, port |-> p, user |-> None]
Connection(id, h) ==
    [id |-> id, origin |-> Origin(h, None), account |-> id, session |-> id, model |-> id]
Pin(id, h) ==
    [provider |-> id, model |-> id, credential |-> None, origin |-> Origin(h, 443),
     connection |-> Connection(id, h)]

Plain ==
    [locked |-> Artifacts, allowlist |-> {Origin("a", None), Origin("b", 443)},
     proposer |-> Pin("p", "a"), examiner |-> Pin("e", "b"),
     examinerId |-> "x", evaluator |-> "v", calls |-> 1, completions |-> 1]

\* Ready under another identity; blind; examined by itself; sent elsewhere;
\* not on the list; with an artifact of its own.
MCSettings ==
    {Plain,
     [Plain EXCEPT !.examinerId = "y"],
     [Plain EXCEPT !.proposer.connection.session = None],
     [Plain EXCEPT !.examiner.provider = "p"],
     [Plain EXCEPT !.examiner.connection.origin = Origin("a", None)],
     [Plain EXCEPT !.proposer.origin = Origin("c", None)],
     [Plain EXCEPT !.locked = Artifacts \ {"fuse"}]}
=============================================================================
