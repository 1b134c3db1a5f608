------------------------------- MODULE Reads --------------------------------
(***************************************************************************)
(* The read side of the mirror: the routes that answer from the series,    *)
(* beside the writers.  A view of the series is assembled in several       *)
(* critical sections: the members in one, each member's establishment in   *)
(* one of its own, the rotation anchors in one more; the range,            *)
(* consistency and rotation routes then return to the store with what they *)
(* picked from the view; retrieval is one read of one row.  Submissions    *)
(* run in every gap.  They are the atomic ones: module Mirror implements   *)
(* those, and a transaction holds the store's mutex from begin to commit,  *)
(* so no reader sees inside one.                                           *)
(*                                                                         *)
(* Readers change nothing in the store, so one is enough for what any of   *)
(* them sees.                                                              *)
(***************************************************************************)
EXTENDS Answers

CONSTANT Ask        \* the requests readers make: [route, and its parameters]

(* The parameters of a route that are numbers are u64.                     *)
ASSUME AskAssumption ==
    \A ask \in Ask :
        /\ ask.route \in {"lookup", "range"} => ask.size \in Nat
        /\ ask.route \in {"range", "consistency"} => ask.from \in Nat /\ ask.to \in Nat
        /\ ask.route = "itub" => ask.index \in Nat

VARIABLE read       \* the reader's request

vars == <<staged, entries, checkpoints, rotations, admitted, read>>

-----------------------------------------------------------------------------
(* What is true of the store at one moment; a reader never sees it whole.  *)
AnchorsHeld == {q.cp : q \in rotations}
FloorNow == Floor(checkpoints \cup AnchorsHeld)
UsableNow == {cp \in checkpoints : Recomputes(entries, cp)}
ViewNow == The({SeriesView(entries, u, f) : u \in {UsableNow}, f \in {FloorNow}})

(* What a tree size has come to: no member has it, one is authenticated,   *)
(* one is series-usable, or the series equivocates there or below.         *)
Unknown == 0
Authenticated == 1
SeriesUsable == 2
Equivocated == 3
Standing(size) ==
    IF FloorNow <= size THEN Equivocated
    ELSE IF OfSize(checkpoints, size) = {} THEN Unknown
    ELSE IF OfSize(UsableNow, size) = {} THEN Authenticated ELSE SeriesUsable

-----------------------------------------------------------------------------
Init == AtomicInit /\ read = [step |-> "idle"]

(* A request answers, or is refused with an error about a size.            *)
Answer(with) ==
    read' = [step |-> "answered", ask |-> read.ask, began |-> read.began,
             ok |-> TRUE, with |-> with]
RefuseAt(error, size) ==
    read' = [step |-> "answered", ask |-> read.ask, began |-> read.began,
             ok |-> FALSE, error |-> error, size |-> size]
Refuse(error) == RefuseAt(error, 0)

InFlight == read.step \notin {"idle", "answered"}

AskedSizes(ask) ==
    CASE ask.route \in {"lookup", "range"} -> {ask.size}
      [] ask.route = "consistency" -> {ask.from, ask.to}
      [] OTHER -> {}

(* A request arrives.  `began` is what was true of the store then.         *)
Begin(ask) ==
    /\ ~InFlight
    /\ read' = [ step |-> CASE ask.route = "rotation" -> "anchor"
                           [] ask.route = "entry" -> "retrieve"
                           [] ask.route = "consistency" /\ ask.from > ask.to -> "disordered"
                           [] OTHER -> "members",
                 ask |-> ask, picked |-> <<>>,
                 began |-> [floor |-> FloorNow,
                            standing |-> [size \in AskedSizes(ask) |-> Standing(size)]] ]

(* consistency_handler refuses sizes out of order before it reads.         *)
RefuseOrder == read.step = "disordered" /\ Refuse("ConsistencyOrder")

(* retrieve_by_id: the row with that id, or an explicit absence.           *)
(* Mutant: staged bytes are served at the index they would have.           *)
StagedBytes(entry) ==
    {[index |-> i, entry |-> entry] : i \in IF entry \in staged THEN {NextIndex(entries)} ELSE {}}
Retrieved(entry) ==
    {[index |-> i, entry |-> entry] : i \in {n \in DOMAIN entries : entries[n] = entry}}
Retrieve == read.step = "retrieve" /\ Answer([rows |-> Retrieved(read.ask.entry)])

(* get_rotation_checkpoint: the earliest anchor held for the manifest.     *)
ReadAnchor ==
    /\ read.step = "anchor"
    /\ LET held == {q.cp : q \in {o \in rotations : o.manifest = read.ask.manifest}} IN
        IF held = {} THEN Refuse("UnknownRotationProof")
        ELSE read' = [read EXCEPT !.step = "members", !.picked = <<Earliest(held)>>]

(* series_view: all_checkpoints, then one critical section per member in   *)
(* series order.                                                           *)
ReadMembers ==
    /\ read.step = "members"
    /\ read' = [ step |-> "scan", ask |-> read.ask, picked |-> read.picked, began |-> read.began,
                 all |-> checkpoints, left |-> checkpoints, usable |-> {} ]

(* Mutant: the scan waits for a member's entries to arrive.                *)
ScanWhenHeld ==
    /\ read.step = "scan" /\ read.left # {}
    /\ HoldsPrefix(entries, Earliest(read.left).size)
    /\ LET cp == Earliest(read.left) IN
        read' = [read EXCEPT !.left = @ \ {cp}, !.usable = @ \cup {cp}]

ScanMember ==
    /\ read.step = "scan" /\ read.left # {}
    /\ LET cp == Earliest(read.left) IN
        read' = [read EXCEPT !.left = @ \ {cp},
                             !.usable = IF Usable(entries, cp, @) THEN @ \cup {cp} ELSE @]

(* all_rotation_checkpoints, then the governance of each interval: rows    *)
(* below usable members, which no writer changes.  A governance statement  *)
(* of another revision fails the view, and so does an unreadable one.      *)
FinishView ==
    /\ read.step = "scan" /\ read.left = {}
    /\ \E floor \in {Floor(read.all \cup AnchorsHeld)} :
       \E view \in {SeriesView(entries, read.usable, floor)} :
        IF view.stop = "refused" THEN Refuse("StatementRefused")
        ELSE read' = [ step |-> "viewed", ask |-> read.ask, picked |-> read.picked,
                       began |-> read.began,
                       all |-> read.all, view |-> view ]

Viewed(route) == read.step = "viewed" /\ read.ask.route = route

AnswerList == Viewed("list") /\ Answer([members |-> read.all, usable |-> read.view.usable])

(* get_checkpoint_handler: the latest member of that size, usable or not.  *)
AnswerLookup ==
    /\ Viewed("lookup")
    /\ LET found == OfSize(read.all, read.ask.size) IN
        IF read.view.floor <= read.ask.size THEN RefuseAt("SeriesEquivocated", read.ask.size)
        ELSE IF found = {} THEN RefuseAt("UnknownCheckpoint", read.ask.size)
        ELSE Answer([rests |-> {Latest(found)}])

(* itub_handler; no bound is an answer, a 404 with the reason.             *)
AnswerItub ==
    /\ Viewed("itub")
    /\ Answer([rests |-> Itub(read.view, read.ask.index), members |-> read.all])

(* series_usable_checkpoint: nothing at or beyond the floor, else the      *)
(* earliest usable member of that size, or why there is none.              *)
(* Mutants: the floor is not consulted; it is consulted last; the second   *)
(* pick replaces the first.                                                *)
WhyNoMember(size) ==
    IF OfSize(read.all, size) = {} THEN "UnknownCheckpoint"
    ELSE IF OfSize(read.view.usable, size) = {} THEN "CheckpointNotSeriesUsable"
    ELSE Accepted
FloorNotConsulted(size) == WhyNoMember(size)
FloorLast(size) ==
    IF WhyNoMember(size) # Accepted THEN WhyNoMember(size)
    ELSE IF read.view.floor <= size THEN "SeriesEquivocated" ELSE Accepted
Grounds(size) == IF read.view.floor <= size THEN "SeriesEquivocated" ELSE WhyNoMember(size)

PickAgain(size, next) ==
    IF Grounds(size) # Accepted THEN RefuseAt(Grounds(size), size)
    ELSE read' = [ step |-> next, ask |-> read.ask, began |-> read.began,
                   picked |-> <<Earliest(OfSize(read.view.usable, size))>> ]
Pick(size, next) ==
    IF Grounds(size) # Accepted THEN RefuseAt(Grounds(size), size)
    ELSE read' = [ step |-> next, ask |-> read.ask, began |-> read.began,
                   picked |-> Append(read.picked, Earliest(OfSize(read.view.usable, size))) ]

PickForRange == Viewed("range") /\ Pick(read.ask.size, "build")

(* consistency_handler views the series twice, once for each size.         *)
PickFrom == Viewed("consistency") /\ read.picked = <<>> /\ Pick(read.ask.from, "members")
PickTo == Viewed("consistency") /\ read.picked # <<>> /\ Pick(read.ask.to, "prove")

(* rotation_proof_element: the anchor must lie below the floor.            *)
PickAnchor ==
    /\ Viewed("rotation")
    /\ IF read.view.floor <= read.picked[1].size
       THEN RefuseAt("SeriesEquivocated", read.picked[1].size)
       ELSE read' = [ step |-> "open", ask |-> read.ask, began |-> read.began,
                      picked |-> read.picked ]

(* build_range_response_in, one critical section.                          *)
(* Mutant: the window is checked against the rows held.                    *)
RangeVerdict(cp, within) ==
    IF ~HoldsPrefix(entries, cp.size) THEN "IncompleteEntries"
    ELSE IF ~(read.ask.from < read.ask.to /\ within) THEN "InvalidRange"
    ELSE IF Root(entries, cp.size) # cp.root THEN "CheckpointRootMismatch"
    ELSE Accepted
RangeOver(cp, verdict) ==
    IF verdict # Accepted THEN RefuseAt(verdict, cp.size)
    ELSE Answer([rests |-> {cp}, rows |-> Restrict(entries, read.ask.from .. read.ask.to - 1)])
BuildHeldRange ==
    /\ read.step = "build"
    /\ \E cp \in {read.picked[1]} :
        RangeOver(cp, RangeVerdict(cp, HoldsPrefix(entries, read.ask.to)))
BuildRange ==
    /\ read.step = "build"
    /\ \E cp \in {read.picked[1]} : RangeOver(cp, RangeVerdict(cp, read.ask.to <= cp.size))

(* consistency_proof between the two picked sizes.                         *)
ProveConsistency ==
    /\ read.step = "prove"
    /\ LET to == read.picked[2] IN
        IF HoldsPrefix(entries, to.size)
        THEN Answer([rests |-> {read.picked[1], to}])
        ELSE RefuseAt("IncompleteEntries", to.size)

(* count_entries, inclusion_proof and leaf_hashes_range, over rows that    *)
(* stay once counted: the path opens the anchor's root.                    *)
(* Mutant: the path is not opened against the anchor's own root.           *)
OpenUnchecked ==
    /\ read.step = "open"
    /\ IF HoldsPrefix(entries, read.picked[1].size)
       THEN Answer([rests |-> {read.picked[1]}])
       ELSE RefuseAt("IncompleteEntries", read.picked[1].size)
OpenAnchor ==
    /\ read.step = "open"
    /\ LET cp == read.picked[1] IN
        IF ~HoldsPrefix(entries, cp.size) THEN RefuseAt("IncompleteEntries", cp.size)
        ELSE IF Root(entries, cp.size) # cp.root THEN RefuseAt("CheckpointRootMismatch", cp.size)
        ELSE Answer([rests |-> {cp}])

Reader ==
    \/ RefuseOrder \/ Retrieve
    \/ ReadAnchor \/ ReadMembers \/ ScanMember
    \/ FinishView \/ AnswerList \/ AnswerLookup \/ AnswerItub
    \/ PickForRange \/ PickFrom \/ PickTo \/ PickAnchor
    \/ BuildRange \/ ProveConsistency \/ OpenAnchor

Next ==
    \/ AtomicNext /\ UNCHANGED read
    \/ (\E ask \in Ask : Begin(ask)) /\ UNCHANGED atomicVars
    \/ Reader /\ UNCHANGED atomicVars

(* A reader runs on its own thread, and every holder of the mutex gives it *)
(* up: what with_conn and with_transaction run under it returns, and the   *)
(* guard is dropped with them.  std::sync::Mutex promises no turn, so this *)
(* also assumes that a waiting thread is not passed over for ever.         *)
Fairness == WF_vars(Reader /\ UNCHANGED atomicVars)

Spec == Init /\ [][Next]_vars /\ Fairness
-----------------------------------------------------------------------------
(* A request is one the readers make, what it collected was published, and *)
(* a refusal names an error of error.rs.                                   *)
TypeOK ==
    \/ read = [step |-> "idle"]
    \/ /\ read.step \in
             { "retrieve", "disordered", "anchor", "members", "scan", "viewed", "build", "prove",
               "open", "answered" }
       /\ read.ask \in Ask
       /\ read.began.floor \in 0 .. NoFloor
       /\ read.began.standing \in [AskedSizes(read.ask) -> Unknown .. Equivocated]
       /\ read.step = "scan" =>
            read.left \subseteq read.all /\ read.usable \subseteq read.all \ read.left
       /\ read.step \in {"build", "open"} => Len(read.picked) = 1
       /\ read.step = "prove" => Len(read.picked) = 2
       /\ read.step = "answered" => read.ok \/ read.error \in Errors

Answered(route) == read.step = "answered" /\ read.ok /\ read.ask.route = route
AnsweredWithBound == \E route \in {"lookup", "itub", "range", "consistency", "rotation"} : Answered(route)

(* Equivocation ends the series: no answer rests on a checkpoint at or     *)
(* beyond a divergence the store showed when the request began, whichever  *)
(* of the two tables showed it (SeriesView, equivocation_floor).           *)
NothingPastAKnownDivergence ==
    AnsweredWithBound => \A cp \in read.with.rests : cp.size < read.began.floor

(* The answer about a tree size, served or refused, and why, is true of    *)
(* that size at some moment of the request, though it comes from several   *)
(* critical sections and two views (series_usable_checkpoint).  A size     *)
(* only ever rises from unknown to equivocated, so it is one it had        *)
(* between the first moment and this one.  What was usable when picked is  *)
(* still provable when the range or the path is built, and only the        *)
(* client's own window is ever out of order then.  A view fails only for a *)
(* statement that ends the walk (of another revision, or unreadable) under *)
(* a member that is usable.                                                *)
Claimed(error) ==
    CASE error = "UnknownCheckpoint" -> Unknown
      [] error = "CheckpointNotSeriesUsable" -> Authenticated
      [] error = "SeriesEquivocated" -> Equivocated
AnsweredAsTheSizeStood ==
    (read.step = "answered" /\ read.ask.route \in {"lookup", "range", "consistency"}) =>
        IF read.ok
        THEN \A size \in AskedSizes(read.ask) :
                /\ read.began.standing[size] # Equivocated
                /\ Standing(size) >= IF read.ask.route = "lookup" THEN Authenticated ELSE SeriesUsable
        ELSE CASE read.error = "InvalidRange" ->
                    ~(read.ask.from < read.ask.to /\ read.ask.to <= read.ask.size)
               [] read.error = "ConsistencyOrder" -> read.ask.from > read.ask.to
               [] read.error = "StatementRefused" ->
                    \E cp \in UsableNow : Walk(cp.root).aborted
               [] OTHER ->
                    /\ read.began.standing[read.size] <= Claimed(read.error)
                    /\ Claimed(read.error) <= Standing(read.size)

(* What a size has come to it does not go back on: nothing known is        *)
(* unknown again, nothing usable is lost but to an equivocation, and what  *)
(* is refused for equivocation is refused for good, whatever is admitted   *)
(* or promoted (checkpoint::series_view).  As readers leave the store      *)
(* alone, the steps taken while the reader is idle are all of its steps.   *)
StandingOnlyRises ==
    [][ read.step = "idle" =>
          \A size \in {cp.size : cp \in Published} : Standing(size) <= Standing(size)'
      ]_<<entries, checkpoints, rotations>>

(* What is retrieved can be evidenced: a checkpoint the mirror admitted    *)
(* has that entry at that index, and it is served at no second one.        *)
(* Staging alone makes nothing retrievable (retrieve_by_id).               *)
RetrievedIsEvidenced ==
    Answered("entry") =>
        /\ Cardinality(read.with.rows) <= 1
        /\ \A row \in read.with.rows : \E a \in admitted :
                row.index < a.cp.size /\ a.cp.root[row.index] = row.entry

(* What a bound, an enumeration, a consistency path or a rotation proof    *)
(* rests on is the root of the leaves held, when it is answered and after, *)
(* though it was established several critical sections before.  So the two *)
(* checkpoints a consistency path joins are of one log, though they were   *)
(* picked from two views.                                                  *)
AnswersRestOnHeldLeaves ==
    (AnsweredWithBound /\ read.ask.route # "lookup") =>
        \A cp \in read.with.rests : Recomputes(entries, cp)

(* An enumeration carries exactly the requested leaves of the checkpoint   *)
(* it names.                                                               *)
RangeIsTheLog ==
    Answered("range") =>
        \A cp \in read.with.rests :
            /\ DOMAIN read.with.rows = read.ask.from .. read.ask.to - 1
            /\ IsRestriction(read.with.rows, cp.root)

(* A rotation proof is one for every verifier of the whole log: in the log *)
(* its checkpoint commits, the manifest at the named index rotates the     *)
(* keys, and the checkpoint verifies under the keys it retires, though     *)
(* the anchor was judged by a prefix (rotation_proof_element).             *)
ServedRotationIsGenuine ==
    Answered("rotation") =>
        \A cp \in read.with.rests : read.ask.manifest \in Anchors(cp.root, cp)

(* Where the log's times never decrease, a bound in force is only          *)
(* tightened or withdrawn: of two moments with a bound for an index, the   *)
(* later has no looser one, whatever arrives in between (checkpoint::itub).*)
TimesInOrder == \A a, b \in checkpoints : a.size < b.size => a.time <= b.time
Indices == UNION {DOMAIN cp.root : cp \in Published}
ItubOnlyTightens ==
    [][ read.step = "idle" /\ TimesInOrder' =>
          \A before \in {ViewNow}, after \in {ViewNow'}, index \in Indices :
            \A old \in Itub(before, index), new \in Itub(after, index) :
              new.time <= old.time ]_<<entries, checkpoints, rotations>>

(* Every request is answered or refused, however many submissions run in   *)
(* the gaps of its view.                                                   *)
EveryRequestEnds == InFlight ~> ~InFlight

-----------------------------------------------------------------------------
(* What the documents say and the code does not do.                        *)

(* "ITUB(index): the series-usable checkpoint with the smallest tree_size  *)
(* > index" (checkpoint.rs, itub): of the members the view holds, none     *)
(* that covers the index and is usable whenever the answer is comes        *)
(* before it.                                                              *)
BoundIsTheSmallest ==
    Answered("itub") =>
        \A cp \in read.with.rests, o \in read.with.members :
            (read.ask.index < o.size /\ IsRestriction(o.root, cp.root)) => NotAfter(cp, o)

(* GET /v1/checkpoints "never refuses" (README.md).                        *)
ListNeverRefuses == (read.step = "answered" /\ read.ask.route = "list") => read.ok
=============================================================================
