---------------------------- MODULE Reads_proofs ----------------------------
(***************************************************************************)
(* What the read routes answer is right for any submissions, any requests  *)
(* and any governance, whatever is submitted between two critical sections *)
(* of a request.  Of the governance walk, only the rotation proof needs to *)
(* know anything: that a longer log keeps what a shorter one established.  *)
(***************************************************************************)
EXTENDS Reads, Governance_proofs

-----------------------------------------------------------------------------
(* The store.                                                              *)

(* The tables hold what was published and admitted, every canonical entry  *)
(* is a leaf of an admitted checkpoint, and none is at two indices.        *)
StoreSound ==
    /\ checkpoints \subseteq Published /\ IsFiniteSet(checkpoints)
    /\ \A q \in rotations : q.cp \in Published
    /\ \A cp \in checkpoints : \E a \in admitted : a.cp = cp
    /\ IsInjective(entries)
    /\ \A i \in DOMAIN entries : \E a \in admitted : i < a.cp.size /\ a.cp.root[i] = entries[i]

StoreGrows ==
    /\ IsRestriction(entries, entries')
    /\ checkpoints \subseteq checkpoints'
    /\ rotations \subseteq rotations'
    /\ admitted \subseteq admitted'

(* What is published has a size and a time.                                *)
LEMMA PublishedSized == Sized(Published) /\ \A cps \in SUBSET Published : Sized(cps)
  BY SubmissionAssumption DEF Sized, Published, IsCheckpoint

(* A promoted batch rewrites no row, and adds leaves of its checkpoint.    *)
LEMMA PromotionSound ==
    ASSUME NEW cp, NEW batch, PromoteAll(cp, batch)
    PROVE  /\ IsRestriction(entries, entries')
           /\ IsInjective(entries')
           /\ \A i \in DOMAIN entries' :
                \/ i \in DOMAIN entries /\ entries'[i] = entries[i]
                \/ i < cp.size /\ cp.root[i] = entries'[i]
<1>1. /\ DOMAIN entries' = DOMAIN entries \cup {batch[x].index : x \in DOMAIN batch}
      /\ \A i \in DOMAIN entries : entries'[i] = entries[i]
  BY DEF PromoteAll, WithBatch
<1>2. \A x \in DOMAIN batch :
        /\ entries'[batch[x].index] = batch[x].entry
        /\ batch[x].index < cp.size /\ cp.root[batch[x].index] = batch[x].entry
  BY DEF PromoteAll, AlreadyPresent, Opens
<1>3. IsInjective(entries')
  BY DEF PromoteAll
<1> QED BY <1>1, <1>2, <1>3 DEF IsRestriction

(* No step rewrites the store, and every step keeps it sound.              *)
LEMMA StoreStep ==
    ASSUME StoreSound, [Next]_vars
    PROVE  StoreGrows /\ StoreSound'
<1>1. CASE UNCHANGED atomicVars
  BY <1>1 DEF StoreSound, StoreGrows, atomicVars, IsRestriction
<1>2. ASSUME NEW e \in Entry, AtomicStage(e)
      PROVE  StoreGrows /\ StoreSound'
  BY <1>2 DEF AtomicStage, StoreSound, StoreGrows, IsRestriction
<1>3. ASSUME NEW s \in Submission, AtomicAdmit(s)
      PROVE  StoreGrows /\ StoreSound'
  <2>1. PICK a : a.cp = s.cp /\ Record(a)
    BY <1>3 DEF AtomicAdmit, Verdict
  <2>2. PromoteAll(s.cp, s.batch)
    BY <1>3 DEF AtomicAdmit
  <2>3. /\ checkpoints' = checkpoints \cup NewMembers(a)
        /\ NewMembers(a) = {} \/ NewMembers(a) = {s.cp}
        /\ rotations' = rotations \cup NewAnchors(rotations, a)
        /\ \A q \in NewAnchors(rotations, a) : q.cp = s.cp
        /\ admitted' = admitted \cup {a}
    BY <2>1 DEF Record, NewMembers, NewAnchors
  <2>4. s.cp \in Published
    BY DEF Published
  <2>5. IsFiniteSet(checkpoints')
    BY <2>3, FS_AddElement DEF StoreSound
  <2>6. IsRestriction(entries, entries') /\ IsInjective(entries')
    BY <2>2, PromotionSound
  <2>7. \A i \in DOMAIN entries' :
            \E b \in admitted' : i < b.cp.size /\ b.cp.root[i] = entries'[i]
    BY <2>1, <2>2, <2>3, PromotionSound DEF StoreSound
  <2> QED BY <2>1, <2>3, <2>4, <2>5, <2>6, <2>7 DEF StoreSound, StoreGrows
<1>4. ASSUME NEW cp \in checkpoints, NEW claim \in Claims, AtomicPromote(cp, claim)
      PROVE  StoreGrows /\ StoreSound'
  <2>1. PromoteAll(cp, <<claim>>)
    BY <1>4 DEF AtomicPromote
  <2>2. UNCHANGED <<checkpoints, rotations, admitted>>
    BY <1>4 DEF AtomicPromote
  <2>3. IsRestriction(entries, entries') /\ IsInjective(entries')
    BY <2>1, PromotionSound
  <2>4. PICK b \in admitted : b.cp = cp
    BY DEF StoreSound
  <2>5. \A i \in DOMAIN entries' :
            \E a \in admitted' : i < a.cp.size /\ a.cp.root[i] = entries'[i]
    BY <2>1, <2>2, <2>4, PromotionSound DEF StoreSound
  <2> QED BY <2>2, <2>3, <2>5 DEF StoreSound, StoreGrows
<1> QED BY <1>1, <1>2, <1>3, <1>4 DEF Next, AtomicNext, vars, atomicVars

(* All the checkpoints held, in whichever table, are sized.                *)
LEMMA HeldSized ==
    ASSUME StoreSound
    PROVE  /\ \A cps \in SUBSET checkpoints : Sized(cps \cup AnchorsHeld) /\ Sized(cps)
           /\ FloorNow \in 0 .. NoFloor /\ NoFloor \in Nat
<1>1. checkpoints \cup AnchorsHeld \in SUBSET Published
  BY DEF StoreSound, AnchorsHeld
<1>2. Sized(checkpoints \cup AnchorsHeld)
  BY <1>1, PublishedSized
<1>3. \A cps \in SUBSET checkpoints : Sized(cps \cup AnchorsHeld) /\ Sized(cps)
  BY <1>1, PublishedSized
<1> QED BY <1>2, <1>3, FloorIsLowest, MaxTreeSizeAssumption DEF FloorNow, NoFloor

(* What the standing of a size says.                                       *)
LEMMA StandingMeans ==
    ASSUME NEW size
    PROVE  /\ Standing(size) \in Unknown .. Equivocated
           /\ Standing(size) = Equivocated <=> FloorNow <= size
           /\ Standing(size) \notin {Unknown, Equivocated} => OfSize(checkpoints, size) # {}
           /\ Standing(size) = SeriesUsable =>
                \E cp \in OfSize(checkpoints, size) : Recomputes(entries, cp)
           /\ \A cp \in checkpoints : cp.size = size =>
                /\ Standing(size) >= Authenticated
                /\ Recomputes(entries, cp) => Standing(size) >= SeriesUsable
<1>1. OfSize(UsableNow, size) = {cp \in OfSize(checkpoints, size) : Recomputes(entries, cp)}
  BY DEF OfSize, UsableNow
<1>2. \A cp \in checkpoints : cp.size = size => cp \in OfSize(checkpoints, size)
  BY DEF OfSize
<1>3. \/ FloorNow <= size /\ Standing(size) = 3
      \/ ~(FloorNow <= size) /\ OfSize(checkpoints, size) = {} /\ Standing(size) = 0
      \/ /\ ~(FloorNow <= size) /\ OfSize(checkpoints, size) # {}
         /\ OfSize(UsableNow, size) = {} /\ Standing(size) = 1
      \/ /\ ~(FloorNow <= size) /\ OfSize(checkpoints, size) # {}
         /\ OfSize(UsableNow, size) # {} /\ Standing(size) = 2
  BY DEF Standing, Unknown, Authenticated, SeriesUsable, Equivocated
<1> QED BY <1>1, <1>2, <1>3 DEF Unknown, Authenticated, SeriesUsable, Equivocated

(* As the store grows the floor sinks, what is usable stays so, and a size *)
(* never goes back on what it has come to.                                 *)
LEMMA StoreRises ==
    ASSUME StoreSound, StoreSound', StoreGrows
    PROVE  /\ \A cps \in SUBSET checkpoints :
                Floor(cps \cup AnchorsHeld') <= Floor(cps \cup AnchorsHeld)
           /\ FloorNow' <= FloorNow
           /\ \A cp : Recomputes(entries, cp) =>
                /\ Recomputes(entries', cp)
                /\ Root(entries', cp.size) = Root(entries, cp.size)
           /\ UsableNow \subseteq UsableNow'
           /\ \A size \in Nat : Standing(size) <= Standing(size)'
<1>1. AnchorsHeld \subseteq AnchorsHeld' /\ checkpoints \subseteq checkpoints'
  BY DEF StoreGrows, AnchorsHeld
<1>2. Sized(checkpoints' \cup AnchorsHeld')
  <2>1. checkpoints' \cup AnchorsHeld' \in SUBSET Published
    BY DEF StoreSound, AnchorsHeld
  <2> QED BY <2>1, PublishedSized
<1>3. ASSUME NEW cps \in SUBSET checkpoints
      PROVE  Floor(cps \cup AnchorsHeld') <= Floor(cps \cup AnchorsHeld)
  <2>1. Sized(cps \cup AnchorsHeld')
    BY <1>1, <1>2 DEF Sized
  <2> QED BY <1>1, <2>1, FloorOnlySinks
<1>4. FloorNow' <= FloorNow
  BY <1>1, <1>2, FloorOnlySinks DEF FloorNow
<1>5. ASSUME NEW cp, Recomputes(entries, cp)
      PROVE  Recomputes(entries', cp) /\ Root(entries', cp.size) = Root(entries, cp.size)
  BY <1>5, RecomputesGrows DEF StoreGrows
<1>6. UsableNow \subseteq UsableNow'
  BY <1>1, <1>5 DEF UsableNow
<1>7. ASSUME NEW size \in Nat
      PROVE  Standing(size) <= Standing(size)'
  <2>1. OfSize(checkpoints, size) \subseteq OfSize(checkpoints', size)
    BY <1>1 DEF OfSize
  <2>2. OfSize(UsableNow, size) \subseteq OfSize(UsableNow', size)
    BY <1>6 DEF OfSize
  <2>3. FloorNow <= size => FloorNow' <= size
    <3>1. FloorNow \in Int
      BY HeldSized
    <3>2. FloorNow' \in Int
      BY <1>2, FloorIsLowest, MaxTreeSizeAssumption DEF FloorNow, NoFloor
    <3> QED BY <1>4, <3>1, <3>2
  <2> QED BY <2>1, <2>2, <2>3 DEF Standing, Unknown, Authenticated, SeriesUsable, Equivocated
<1> QED BY <1>3, <1>4, <1>5, <1>6, <1>7

-----------------------------------------------------------------------------
(* The request.                                                            *)

(* Of a size that was known, or usable, when the request began, these      *)
(* checkpoints still have a member, and these a usable one.                *)
StillKnown(cps, usable) ==
    \A size \in AskedSizes(read.ask) :
        /\ read.began.standing[size] \in {Authenticated, SeriesUsable} => OfSize(cps, size) # {}
        /\ read.began.standing[size] = SeriesUsable =>
            \E cp \in OfSize(usable, size) : Recomputes(entries, cp)

(* What was true when the request began bounds what is true now.           *)
Began ==
    /\ read.ask \in Ask
    /\ read.began.floor \in 0 .. NoFloor /\ FloorNow <= read.began.floor
    /\ read.began.standing \in [AskedSizes(read.ask) -> Unknown .. Equivocated]
    /\ \A size \in AskedSizes(read.ask) :
        /\ read.began.standing[size] <= Standing(size)
        /\ read.began.standing[size] = Equivocated => read.began.floor <= size
    /\ StillKnown(checkpoints, checkpoints)

(* A pick is a member of its size, below the floor, and stays usable.      *)
GoodPick(cp, size) ==
    /\ cp \in Published /\ cp \in checkpoints /\ cp.size = size
    /\ Recomputes(entries, cp)
    /\ cp.size < read.began.floor

(* Which steps the requests of a route take, and what they carry there.    *)
Fits ==
    /\ read.step = "retrieve" => read.ask.route = "entry"
    /\ read.step = "disordered" => read.ask.route = "consistency" /\ read.ask.from > read.ask.to
    /\ read.step = "anchor" =>
        /\ read.ask.route = "rotation"
        /\ read = [ step |-> "anchor", ask |-> read.ask, picked |-> read.picked, began |-> read.began ]
    /\ read.step \in {"members", "scan", "viewed"} =>
        /\ read.ask.route # "entry"
        /\ read.ask.route = "range" => read.picked = <<>>
        /\ read.ask.route = "rotation" => \E cp \in Published : read.picked = <<cp>>
        /\ read.ask.route = "consistency" =>
            \/ read.picked = <<>>
            \/ \E cp \in Published : read.picked = <<cp>> /\ GoodPick(cp, read.ask.from)
    /\ read.step = "build" =>
        /\ read.ask.route = "range"
        /\ \E cp \in Published : read.picked = <<cp>> /\ GoodPick(cp, read.ask.size)
    /\ read.step = "prove" =>
        /\ read.ask.route = "consistency"
        /\ Len(read.picked) = 2
        /\ GoodPick(read.picked[1], read.ask.from) /\ GoodPick(read.picked[2], read.ask.to)
    /\ read.step = "open" =>
        /\ read.ask.route = "rotation"
        /\ \E cp \in Published : read.picked = <<cp>> /\ cp.size < read.began.floor

(* The members scanned so far are usable exactly if they recomputed, and   *)
(* come before the members left.                                           *)
ScanSound ==
    /\ read = [ step |-> "scan", ask |-> read.ask, picked |-> read.picked, began |-> read.began,
                all |-> read.all, left |-> read.left, usable |-> read.usable ]
    /\ read.all \subseteq checkpoints /\ read.left \subseteq read.all
    /\ read.usable \subseteq read.all \ read.left
    /\ \A cp \in read.usable : Recomputes(entries, cp) /\ \A o \in read.left : NotAfter(cp, o)
    /\ Floor(read.all \cup AnchorsHeld) <= read.began.floor
    /\ StillKnown(read.all, read.left \cup read.usable)

ViewSound ==
    /\ read.all \subseteq checkpoints
    /\ read.view.usable \subseteq read.all
    /\ \A cp \in read.view.usable : Recomputes(entries, cp)
    /\ read.view.floor \in Nat
    /\ FloorNow <= read.view.floor /\ read.view.floor <= read.began.floor
    /\ \A index \in Nat : \A cp \in Itub(read.view, index) :
            cp \in read.view.usable /\ cp.size < read.view.floor
    /\ StillKnown(read.all, read.view.usable)

(* An answer about a size is true of it at some moment of the request; so  *)
(* is a refusal, and nothing else refuses the routes that ask about one.   *)
AboutASize == read.ask.route \in {"lookup", "range", "consistency"}
ServedAsStood ==
    \A size \in AskedSizes(read.ask) :
        /\ read.began.standing[size] # Equivocated
        /\ Standing(size) >= IF read.ask.route = "lookup" THEN Authenticated ELSE SeriesUsable
RefusedAsStood(error, size) ==
    \/ error = "InvalidRange" /\ ~(read.ask.from < read.ask.to /\ read.ask.to <= read.ask.size)
    \/ error = "ConsistencyOrder" /\ read.ask.from > read.ask.to
    \/ error = "StatementRefused" /\ \E cp \in UsableNow : Walk(cp.root).aborted
    \/ /\ error \in {"UnknownCheckpoint", "CheckpointNotSeriesUsable", "SeriesEquivocated"}
       /\ size \in AskedSizes(read.ask)
       /\ read.began.standing[size] <= Claimed(error) /\ Claimed(error) <= Standing(size)

AnswerSound ==
    /\ read.ok \/ read.error \in Errors
    /\ NothingPastAKnownDivergence
    /\ AboutASize => IF read.ok THEN ServedAsStood ELSE RefusedAsStood(read.error, read.size)
    /\ RetrievedIsEvidenced
    /\ AnswersRestOnHeldLeaves
    /\ RangeIsTheLog

RequestSound ==
    /\ \/ read = [step |-> "idle"]
       \/ read.step \in { "retrieve", "disordered", "anchor", "members", "scan", "viewed",
                          "build", "prove", "open", "answered" }
    /\ read.step # "idle" => Began
    /\ Fits
    /\ read.step = "scan" => ScanSound
    /\ read.step = "viewed" => ViewSound
    /\ read.step = "answered" => AnswerSound

IInv == StoreSound /\ RequestSound

(* The sizes a request asks about are numbers.                             *)
LEMMA AskedTyped ==
    ASSUME NEW ask \in Ask
    PROVE  AskedSizes(ask) \in SUBSET Nat
  BY AskAssumption DEF AskedSizes

(* What a refusal about a size claims of it is one standing.               *)
LEMMA ClaimedTyped ==
    /\ Claimed("UnknownCheckpoint") = Unknown
    /\ Claimed("CheckpointNotSeriesUsable") = Authenticated
    /\ Claimed("SeriesEquivocated") = Equivocated
    /\ \A error \in {"UnknownCheckpoint", "CheckpointNotSeriesUsable", "SeriesEquivocated"} :
        Claimed(error) \in 0 .. 3
<1>1. Claimed("UnknownCheckpoint") = 0
  BY DEF Claimed, Unknown
<1>2. Claimed("CheckpointNotSeriesUsable") = 1
  BY DEF Claimed, Authenticated
<1>3. Claimed("SeriesEquivocated") = 3
  BY DEF Claimed, Equivocated
<1> QED BY <1>1, <1>2, <1>3 DEF Unknown, Authenticated, Equivocated

(* What a sound answer about a size says is what the property asks.        *)
LEMMA SoundAnswersStand ==
    ASSUME AboutASize => IF read.ok THEN ServedAsStood ELSE RefusedAsStood(read.error, read.size)
    PROVE  AnsweredAsTheSizeStood
<1> SUFFICES ASSUME AboutASize PROVE AnsweredAsTheSizeStood
  BY DEF AboutASize, AnsweredAsTheSizeStood
<1>1. CASE read.ok
  BY <1>1 DEF ServedAsStood, AnsweredAsTheSizeStood
<1>2. CASE ~read.ok
  BY <1>2 DEF RefusedAsStood, AnsweredAsTheSizeStood
<1> QED BY <1>1, <1>2

(* What a submission does to the store leaves a waiting request sound.     *)
LEMMA SubmissionsDoNotDisturb ==
    ASSUME StoreSound, StoreSound', StoreGrows, RequestSound, UNCHANGED read
    PROVE  RequestSound'
<1>1. /\ \A cps \in SUBSET checkpoints :
            Floor(cps \cup AnchorsHeld') <= Floor(cps \cup AnchorsHeld)
      /\ FloorNow' <= FloorNow
      /\ \A cp : Recomputes(entries, cp) =>
            Recomputes(entries', cp) /\ Root(entries', cp.size) = Root(entries, cp.size)
      /\ UsableNow \subseteq UsableNow'
      /\ \A size \in Nat : Standing(size) <= Standing(size)'
  BY StoreRises
<1>2. \A size : Standing(size) \in 0 .. 3 /\ Standing(size)' \in 0 .. 3
  <2>1. \A size : Standing(size) \in Unknown .. Equivocated
    BY StandingMeans
  <2>2. (\A size : Standing(size) \in Unknown .. Equivocated)'
    BY DEF Standing, Unknown, Authenticated, SeriesUsable, Equivocated
  <2> QED BY <2>1, <2>2 DEF Unknown, Equivocated
<1>3. checkpoints \subseteq checkpoints' /\ admitted \subseteq admitted'
  BY DEF StoreGrows
<1>4. FloorNow \in Int /\ FloorNow' \in Int /\ NoFloor \in Nat
  <2>1. FloorNow \in Int /\ NoFloor \in Nat
    BY HeldSized
  <2>2. (checkpoints \cup AnchorsHeld)' \in SUBSET Published
    BY DEF StoreSound, AnchorsHeld
  <2>3. FloorNow' \in Int
    BY <2>2, PublishedSized, FloorIsLowest, <2>1 DEF FloorNow
  <2> QED BY <2>1, <2>3
<1>5. ASSUME Began PROVE Began'
  <2>1. AskedSizes(read.ask) \in SUBSET Nat
    BY <1>5, AskedTyped DEF Began
  <2>2. \A size \in AskedSizes(read.ask) : read.began.standing[size] \in 0 .. 3
    BY <1>5 DEF Began, Unknown, Equivocated
  <2>3. \A size \in AskedSizes(read.ask) : read.began.standing[size] <= Standing(size)'
    BY <1>1, <1>2, <1>5, <2>1, <2>2 DEF Began
  <2>4. FloorNow' <= read.began.floor
    BY <1>1, <1>4, <1>5 DEF Began
  <2>5. StillKnown(checkpoints, checkpoints)'
    <3>1. \A size : OfSize(checkpoints, size) \subseteq OfSize(checkpoints', size)
      BY <1>3 DEF OfSize
    <3> QED BY <1>1, <1>5, <3>1 DEF Began, StillKnown
  <2> QED BY <1>5, <2>3, <2>4, <2>5 DEF Began
<1>6. \A cp, size : GoodPick(cp, size) => GoodPick(cp, size)'
  BY <1>1, <1>3 DEF GoodPick
<1>7. ASSUME Fits PROVE Fits'
  BY <1>6, <1>7 DEF Fits
<1>8. \A cps, usable : StillKnown(cps, usable) => StillKnown(cps, usable)'
  BY <1>1 DEF StillKnown
<1>9. ASSUME Began, ScanSound PROVE ScanSound'
  <2>1. read.all \in SUBSET checkpoints
    BY <1>9 DEF ScanSound
  <2>2. Floor(read.all \cup AnchorsHeld') <= Floor(read.all \cup AnchorsHeld)
    BY <1>1, <2>1
  <2>3. Floor(read.all \cup AnchorsHeld) \in Int /\ Floor(read.all \cup AnchorsHeld') \in Int
    <3>1. Sized(read.all \cup AnchorsHeld)
      BY <2>1, HeldSized
    <3>2. read.all \cup AnchorsHeld' \in SUBSET Published
      BY <1>3, <2>1 DEF StoreSound, AnchorsHeld
    <3> QED BY <1>4, <3>1, <3>2, PublishedSized, FloorIsLowest
  <2>4. Floor(read.all \cup AnchorsHeld') <= read.began.floor
    BY <1>4, <1>9, <2>2, <2>3 DEF ScanSound, Began
  <2>5. StillKnown(read.all, read.left \cup read.usable)'
    BY <1>8, <1>9 DEF ScanSound
  <2> QED BY <1>1, <1>3, <1>9, <2>4, <2>5 DEF ScanSound
<1>10. ASSUME ViewSound PROVE ViewSound'
  <2>1. StillKnown(read.all, read.view.usable)'
    BY <1>8, <1>10 DEF ViewSound
  <2>2. FloorNow' <= read.view.floor
    BY <1>1, <1>4, <1>10 DEF ViewSound
  <2> QED BY <1>1, <1>3, <1>10, <2>1, <2>2 DEF ViewSound
<1>11. ASSUME Began, AnswerSound PROVE AnswerSound'
  <2>1. NothingPastAKnownDivergence'
    BY <1>11 DEF AnswerSound, NothingPastAKnownDivergence, AnsweredWithBound, Answered
  <2>2. RetrievedIsEvidenced'
    BY <1>3, <1>11 DEF AnswerSound, RetrievedIsEvidenced, Answered
  <2>3. AnswersRestOnHeldLeaves'
    BY <1>1, <1>11 DEF AnswerSound, AnswersRestOnHeldLeaves, AnsweredWithBound, Answered
  <2>4. RangeIsTheLog'
    BY <1>11 DEF AnswerSound, RangeIsTheLog, Answered
  <2>5. (AboutASize => IF read.ok THEN ServedAsStood ELSE RefusedAsStood(read.error, read.size))'
    <3>1. \A size \in AskedSizes(read.ask) : size \in Nat /\ Standing(size) <= Standing(size)'
      BY <1>1, <1>11, AskedTyped DEF Began
    <3>2. ServedAsStood => ServedAsStood'
      BY <1>2, <3>1 DEF ServedAsStood, Authenticated, SeriesUsable
    <3>3. \A error \in {"UnknownCheckpoint", "CheckpointNotSeriesUsable", "SeriesEquivocated"} :
            Claimed(error) \in 0 .. 3
      BY ClaimedTyped
    <3>4. \A error, size : RefusedAsStood(error, size) => RefusedAsStood(error, size)'
      BY <1>1, <1>2, <3>1, <3>3 DEF RefusedAsStood
    <3> QED BY <1>11, <3>2, <3>4 DEF AnswerSound, AboutASize
  <2> QED BY <1>11, <2>1, <2>2, <2>3, <2>4, <2>5 DEF AnswerSound
<1> QED BY <1>5, <1>7, <1>9, <1>10, <1>11 DEF RequestSound

-----------------------------------------------------------------------------
(* The steps of a request.                                                 *)

(* A reader leaves the store as it is.                                     *)
LEMMA StoreStill ==
    ASSUME UNCHANGED atomicVars
    PROVE  /\ UNCHANGED <<entries, checkpoints, rotations, admitted>>
           /\ AnchorsHeld' = AnchorsHeld /\ FloorNow' = FloorNow /\ UsableNow' = UsableNow
           /\ \A size : Standing(size)' = Standing(size)
<1>1. UNCHANGED <<entries, checkpoints, rotations, admitted>>
  BY DEF atomicVars
<1>2. AnchorsHeld' = AnchorsHeld /\ UsableNow' = UsableNow
  BY <1>1 DEF AnchorsHeld, UsableNow
<1>3. FloorNow' = FloorNow
  BY <1>1, <1>2 DEF FloorNow
<1> QED BY <1>1, <1>2, <1>3 DEF Standing

(* A step of a request does not change what was asked, and when.           *)
LEMMA StillBegan ==
    ASSUME Began, UNCHANGED atomicVars, read'.ask = read.ask, read'.began = read.began
    PROVE  /\ Began'
           /\ \A cp, size : GoodPick(cp, size) => GoodPick(cp, size)'
           /\ \A cps, usable : StillKnown(cps, usable) => StillKnown(cps, usable)'
<1>1. Began'
  <2>1. StillKnown(checkpoints, checkpoints)'
    BY StoreStill DEF Began, StillKnown
  <2> QED BY <2>1, StoreStill DEF Began
<1>2. \A cp, size : GoodPick(cp, size) => GoodPick(cp, size)'
  BY StoreStill DEF GoodPick
<1>3. \A cps, usable : StillKnown(cps, usable) => StillKnown(cps, usable)'
  BY StoreStill DEF StillKnown
<1> QED BY <1>1, <1>2, <1>3

(* A refusal that is true of its size is a sound answer.                   *)
LEMMA RefusalIsSound ==
    ASSUME Began, UNCHANGED atomicVars, NEW error \in Errors, NEW size, RefuseAt(error, size),
           AboutASize => RefusedAsStood(error, size)
    PROVE  RequestSound'
<1>1. /\ read'.step = "answered" /\ read'.ask = read.ask /\ read'.began = read.began
      /\ read'.ok = FALSE /\ read'.error = error /\ read'.size = size
  BY DEF RefuseAt
<1>2. Began' /\ Fits'
  BY <1>1, StillBegan DEF Fits
<1>3. RefusedAsStood(error, size) => RefusedAsStood(error, size)'
  BY <1>1, StoreStill DEF RefusedAsStood
<1>4. AnswerSound'
  BY <1>1, <1>3 DEF AnswerSound, AboutASize, NothingPastAKnownDivergence, RetrievedIsEvidenced,
                    AnswersRestOnHeldLeaves, RangeIsTheLog, AnsweredWithBound, Answered
<1> QED BY <1>1, <1>2, <1>4 DEF RequestSound

(* What makes an answer sound, for each route.                             *)
LEMMA AnswerIsSound ==
    ASSUME Began, UNCHANGED atomicVars, NEW with, Answer(with),
           AboutASize => ServedAsStood,
           read.ask.route \in {"lookup", "itub", "range", "consistency", "rotation"} =>
                \A cp \in with.rests : cp.size < read.began.floor,
           read.ask.route \in {"itub", "range", "consistency", "rotation"} =>
                \A cp \in with.rests : Recomputes(entries, cp),
           read.ask.route = "range" =>
                \A cp \in with.rests :
                    /\ DOMAIN with.rows = read.ask.from .. read.ask.to - 1
                    /\ IsRestriction(with.rows, cp.root),
           read.ask.route = "entry" =>
                /\ Cardinality(with.rows) <= 1
                /\ \A row \in with.rows : \E a \in admitted :
                        row.index < a.cp.size /\ a.cp.root[row.index] = row.entry
    PROVE  RequestSound'
<1>1. /\ read'.step = "answered" /\ read'.ask = read.ask /\ read'.began = read.began
      /\ read'.ok = TRUE /\ read'.with = with
  BY DEF Answer
<1>2. Began' /\ Fits'
  BY <1>1, StillBegan DEF Fits
<1>3. (AboutASize => ServedAsStood)'
  BY <1>1, StoreStill DEF AboutASize, ServedAsStood
<1>4. NothingPastAKnownDivergence'
  BY <1>1 DEF NothingPastAKnownDivergence, AnsweredWithBound, Answered
<1>5. AnswersRestOnHeldLeaves'
  BY <1>1, StoreStill DEF AnswersRestOnHeldLeaves, AnsweredWithBound, Answered
<1>6. RangeIsTheLog'
  BY <1>1 DEF RangeIsTheLog, Answered
<1>7. RetrievedIsEvidenced'
  BY <1>1, StoreStill DEF RetrievedIsEvidenced, Answered
<1>8. AnswerSound'
  BY <1>1, <1>3, <1>4, <1>5, <1>6, <1>7 DEF AnswerSound
<1> QED BY <1>1, <1>2, <1>8 DEF RequestSound

(* A request begins with what is true of the store.                        *)
LEMMA RequestsBegin ==
    ASSUME StoreSound, NEW ask \in Ask, Begin(ask), UNCHANGED atomicVars
    PROVE  RequestSound'
<1> DEFINE standing == [size \in AskedSizes(ask) |-> Standing(size)]
<1>1. /\ read'.ask = ask /\ read'.picked = <<>>
      /\ read'.began = [floor |-> FloorNow, standing |-> standing]
      /\ read'.step \in {"anchor", "retrieve", "disordered", "members"}
      /\ read'.step = "anchor" <=> ask.route = "rotation"
      /\ read'.step = "retrieve" <=> ask.route = "entry"
      /\ read'.step = "disordered" => ask.route = "consistency" /\ ask.from > ask.to
  BY DEF Begin
<1>2. read'.step = "anchor" =>
        read' = [step |-> "anchor", ask |-> ask, picked |-> <<>>, began |-> read'.began]
  BY DEF Begin
<1>3. Began'
  <2>1. FloorNow \in 0 .. NoFloor /\ NoFloor \in Nat
    BY HeldSized
  <2>2. \A size \in AskedSizes(ask) :
            /\ Standing(size) \in Unknown .. Equivocated
            /\ Standing(size) <= Standing(size)
            /\ Standing(size) = Equivocated => FloorNow <= size
    BY StandingMeans DEF Unknown, Equivocated
  <2>3. StillKnown(checkpoints, checkpoints)'
    BY <1>1, StandingMeans, StoreStill
       DEF StillKnown, Unknown, Authenticated, SeriesUsable, Equivocated
  <2> QED BY <1>1, <2>1, <2>2, <2>3, StoreStill DEF Began
<1>4. Fits'
  BY <1>1, <1>2 DEF Fits
<1> QED BY <1>1, <1>3, <1>4 DEF RequestSound

(* The consistency route refuses sizes out of order.                       *)
LEMMA OrderRefused ==
    ASSUME RequestSound, RefuseOrder, UNCHANGED atomicVars
    PROVE  RequestSound'
<1>1. Began /\ read.ask.from > read.ask.to /\ RefuseAt("ConsistencyOrder", 0)
  BY DEF RequestSound, Fits, RefuseOrder, Refuse
<1>2. RefusedAsStood("ConsistencyOrder", 0) /\ "ConsistencyOrder" \in Errors
  BY <1>1 DEF RefusedAsStood, Errors, RangeErrors
<1> QED BY <1>1, <1>2, RefusalIsSound

(* What is retrieved is a row of the store.                                *)
LEMMA RetrievalSound ==
    ASSUME StoreSound, RequestSound, Retrieve, UNCHANGED atomicVars
    PROVE  RequestSound'
<1> DEFINE rows == Retrieved(read.ask.entry)
<1>1. Began /\ read.ask.route = "entry" /\ Answer([rows |-> rows])
  BY DEF RequestSound, Fits, Retrieve
<1>2. \A row \in rows : \E a \in admitted :
            row.index < a.cp.size /\ a.cp.root[row.index] = row.entry
  BY DEF StoreSound, Retrieved
<1>3. Cardinality(rows) <= 1
  <2>1. \A q, r \in rows : q = r
    BY DEF StoreSound, IsInjective, Retrieved
  <2> HIDE DEF rows
  <2>2. rows = {} \/ \E r : rows = {r}
    BY <2>1
  <2>3. CASE rows = {}
    BY <2>3, FS_EmptySet
  <2>4. CASE \E r : rows = {r}
    BY <2>4, FS_Singleton, SMTT(20)
  <2> QED BY <2>2, <2>3, <2>4
<1> HIDE DEF rows
<1> QED BY <1>1, <1>2, <1>3, AnswerIsSound DEF AboutASize

(* The rotation route picks the earliest anchor held.                      *)
LEMMA AnchorRead ==
    ASSUME StoreSound, RequestSound, ReadAnchor, UNCHANGED atomicVars
    PROVE  RequestSound'
<1>1. /\ Began /\ read.ask.route = "rotation"
      /\ read = [ step |-> "anchor", ask |-> read.ask, picked |-> read.picked, began |-> read.began ]
  BY DEF RequestSound, Fits, ReadAnchor
<1>2. CASE Refuse("UnknownRotationProof")
  <2>1. RefuseAt("UnknownRotationProof", 0) /\ "UnknownRotationProof" \in Errors
    BY <1>2 DEF Refuse, Errors, SeriesErrors
  <2> QED BY <1>1, <2>1, RefusalIsSound DEF AboutASize
<1>3. ASSUME NEW cp \in Published,
             read' = [read EXCEPT !.step = "members", !.picked = <<cp>>]
      PROVE  RequestSound'
  <2>1. /\ read'.step = "members" /\ read'.ask = read.ask
        /\ read'.picked = <<cp>> /\ read'.began = read.began
    BY <1>1, <1>3
  <2>2. Began'
    BY <1>1, <2>1, StillBegan
  <2>3. Fits'
    BY <1>1, <2>1 DEF Fits
  <2> QED BY <2>1, <2>2, <2>3 DEF RequestSound
<1> DEFINE held == {q.cp : q \in {o \in rotations : o.manifest = read.ask.manifest}}
<1>4. held # {} => Earliest(held) \in Published
  <2>1. held \in SUBSET Published
    BY DEF StoreSound
  <2> HIDE DEF held
  <2> QED BY <2>1, PublishedSized, EarliestExists
<1> QED BY <1>2, <1>3, <1>4 DEF ReadAnchor

(* A view starts from the members held.                                    *)
LEMMA MembersRead ==
    ASSUME StoreSound, RequestSound, ReadMembers, UNCHANGED atomicVars
    PROVE  RequestSound'
<1>1. Began /\ Fits /\ read.step = "members"
  BY DEF RequestSound, ReadMembers
<1>2. /\ read' = [ step |-> "scan", ask |-> read.ask, picked |-> read.picked, began |-> read.began,
                   all |-> checkpoints, left |-> checkpoints, usable |-> {} ]
      /\ read'.step = "scan" /\ read'.ask = read.ask /\ read'.picked = read.picked
      /\ read'.began = read.began /\ read'.all = checkpoints /\ read'.left = checkpoints
      /\ read'.usable = {}
  BY DEF ReadMembers
<1>3. Began' /\ \A cp, size : GoodPick(cp, size) => GoodPick(cp, size)'
  BY <1>1, <1>2, StillBegan
<1>4. Fits'
  BY <1>1, <1>2, <1>3 DEF Fits
<1>5. ScanSound'
  <2>1. checkpoints \cup {} = checkpoints
    OBVIOUS
  <2>2. StillKnown(read.all, read.left \cup read.usable)'
    BY <1>2, <1>3, <2>1, StoreStill DEF Began
  <2> QED BY <1>1, <1>2, <2>2, StoreStill DEF ScanSound, FloorNow, Began
<1> QED BY <1>2, <1>3, <1>4, <1>5 DEF RequestSound

(* The next member in series order is judged.                              *)
LEMMA MemberScanned ==
    ASSUME StoreSound, RequestSound, ScanMember, UNCHANGED atomicVars
    PROVE  RequestSound'
<1> DEFINE cp == Earliest(read.left)
           usable == IF Usable(entries, cp, read.usable) THEN read.usable \cup {cp} ELSE read.usable
<1>1. Began /\ Fits /\ ScanSound /\ read.step = "scan" /\ read.left # {}
  BY DEF RequestSound, ScanMember
<1>2. /\ read' = [ step |-> "scan", ask |-> read.ask, picked |-> read.picked, began |-> read.began,
                   all |-> read.all, left |-> read.left \ {cp}, usable |-> usable ]
      /\ read'.step = "scan" /\ read'.ask = read.ask /\ read'.picked = read.picked
      /\ read'.began = read.began /\ read'.all = read.all /\ read'.left = read.left \ {cp}
      /\ read'.usable = usable
  BY <1>1 DEF ScanMember, ScanSound
<1>3. /\ read.left \in SUBSET checkpoints /\ read.usable \in SUBSET checkpoints
      /\ Sized(read.left) /\ Sized(read.usable) /\ IsFiniteSet(read.usable)
  BY <1>1, HeldSized, FS_Subset DEF ScanSound, StoreSound
<1>4. cp \in read.left /\ \A o \in read.left : NotAfter(cp, o)
  BY <1>1, <1>3, EarliestExists
<1>5. Usable(entries, cp, read.usable) <=> Recomputes(entries, cp)
  <2>1. \A o \in read.usable : NotAfter(o, cp) /\ Recomputes(entries, o)
    BY <1>1, <1>4 DEF ScanSound
  <2>2. cp.size \in Nat /\ cp.time \in Nat
    BY <1>3, <1>4 DEF Sized
  <2> HIDE DEF cp
  <2> QED BY <1>3, <2>1, <2>2, UsableDecides
<1>6. usable = IF Recomputes(entries, cp) THEN read.usable \cup {cp} ELSE read.usable
  BY <1>5
<1> HIDE DEF cp, usable
<1>7. Began' /\ \A c, size : GoodPick(c, size) => GoodPick(c, size)'
  BY <1>1, <1>2, StillBegan
<1>8. Fits'
  BY <1>1, <1>2, <1>7 DEF Fits
<1>9. StillKnown(read.all, (read.left \ {cp}) \cup usable)
  BY <1>1, <1>4, <1>6 DEF ScanSound, StillKnown, OfSize
<1>10. StillKnown(read.all, read.left \cup read.usable)'
  <2>1. \A cps, u : StillKnown(cps, u) => StillKnown(cps, u)'
    BY <1>1, <1>2, StillBegan
  <2> QED BY <1>2, <1>9, <2>1
<1>11. ScanSound'
  BY <1>1, <1>2, <1>4, <1>6, <1>10, StoreStill DEF ScanSound
<1> QED BY <1>2, <1>7, <1>8, <1>11 DEF RequestSound

(* The view is put together, or refused.                                   *)
LEMMA ViewFinished ==
    ASSUME StoreSound, RequestSound, FinishView, UNCHANGED atomicVars
    PROVE  RequestSound'
<1> DEFINE floor == Floor(read.all \cup AnchorsHeld)
           view == SeriesView(entries, read.usable, floor)
<1>1. Began /\ Fits /\ ScanSound /\ read.step = "scan" /\ read.left = {}
  BY DEF RequestSound, FinishView
<1>2. /\ read.usable \in SUBSET checkpoints /\ read.all \in SUBSET checkpoints
      /\ Sized(read.usable) /\ IsFiniteSet(read.usable)
      /\ Sized(read.all \cup AnchorsHeld) /\ Sized(checkpoints \cup AnchorsHeld)
  BY <1>1, HeldSized, FS_Subset DEF ScanSound, StoreSound
<1>3. floor \in Nat /\ FloorNow <= floor /\ floor <= read.began.floor
  <2>1. read.all \cup AnchorsHeld \in SUBSET (checkpoints \cup AnchorsHeld)
    BY <1>2
  <2> QED BY <1>1, <1>2, <2>1, FloorOnlySinks, FloorIsLowest DEF FloorNow, ScanSound
<1>4. view.usable = read.usable /\ view.floor = floor
  BY DEF SeriesView
<1>5. \A index \in Nat : \A cp \in Itub(view, index) : cp \in read.usable /\ cp.size < floor
  <2> HIDE DEF floor
  <2> QED BY <1>2, <1>3, BoundBelowFloor
<1>6. CASE view.stop = "refused"
  <2>1. PICK cp \in read.usable : Walk(Root(entries, cp.size)).aborted
    <3> HIDE DEF floor
    <3> QED BY <1>2, <1>3, <1>6, RefusedForAStatement
  <2>2. cp \in UsableNow /\ Root(entries, cp.size) = cp.root
    BY <1>1, <1>2 DEF ScanSound, UsableNow, Recomputes
  <2>3. RefuseAt("StatementRefused", 0)
    BY <1>6 DEF FinishView, Refuse
  <2>4. /\ RefusedAsStood("StatementRefused", 0)
        /\ "StatementRefused" \in Errors
    BY <2>1, <2>2 DEF RefusedAsStood, Errors, CheckpointErrors
  <2> QED BY <1>1, <2>3, <2>4, RefusalIsSound
<1>7. CASE view.stop # "refused"
  <2>1. read' = [ step |-> "viewed", ask |-> read.ask, picked |-> read.picked,
                  began |-> read.began, all |-> read.all, view |-> view ]
    BY <1>7 DEF FinishView
  <2> HIDE DEF view, floor
  <2>2. /\ read'.step = "viewed" /\ read'.ask = read.ask /\ read'.picked = read.picked
        /\ read'.began = read.began /\ read'.all = read.all /\ read'.view = view
    BY <2>1
  <2>3. /\ Began' /\ \A c, size : GoodPick(c, size) => GoodPick(c, size)'
        /\ \A cps, u : StillKnown(cps, u) => StillKnown(cps, u)'
    BY <1>1, <2>2, StillBegan
  <2>4. Fits'
    BY <1>1, <2>2, <2>3 DEF Fits
  <2>5. StillKnown(read.all, read.usable)
    <3>1. read.left \cup read.usable = read.usable
      BY <1>1
    <3> QED BY <1>1, <3>1 DEF ScanSound
  <2>6. StillKnown(read.all, read.view.usable)'
    BY <1>4, <2>2, <2>3, <2>5
  <2>7. ViewSound'
    BY <1>1, <1>3, <1>4, <1>5, <2>2, <2>6, StoreStill DEF ViewSound, ScanSound
  <2> QED BY <2>2, <2>3, <2>4, <2>7 DEF RequestSound
<1> QED BY <1>6, <1>7

(* What a view says against a size is true of it.                          *)
LEMMA GroundsStand ==
    ASSUME StoreSound, Began, ViewSound, NEW size \in AskedSizes(read.ask)
    PROVE  /\ read.view.floor <= size => RefusedAsStood("SeriesEquivocated", size)
           /\ (~(read.view.floor <= size) /\ OfSize(read.all, size) = {}) =>
                RefusedAsStood("UnknownCheckpoint", size)
           /\ (/\ ~(read.view.floor <= size) /\ OfSize(read.all, size) # {}
               /\ OfSize(read.view.usable, size) = {}) =>
                RefusedAsStood("CheckpointNotSeriesUsable", size)
<1>1. size \in Nat /\ read.view.floor \in Nat /\ FloorNow \in Int /\ read.began.floor \in Int
  BY AskedTyped, HeldSized DEF Began, ViewSound
<1>2. read.began.standing[size] \in 0 .. 3 /\ Standing(size) \in 0 .. 3
  BY StandingMeans DEF Began, Unknown, Equivocated
<1>3. read.view.floor <= size => Standing(size) = 3
  <2>1. read.view.floor <= size => FloorNow <= size
    BY <1>1 DEF ViewSound
  <2> QED BY <2>1, StandingMeans DEF Equivocated
<1>4. ~(read.view.floor <= size) => read.began.standing[size] # 3
  BY <1>1 DEF Began, ViewSound, Equivocated
<1>5. OfSize(read.all, size) = {} => read.began.standing[size] \notin {1, 2}
  BY DEF ViewSound, StillKnown, Authenticated, SeriesUsable
<1>6. OfSize(read.view.usable, size) = {} => read.began.standing[size] # 2
  BY DEF ViewSound, StillKnown, SeriesUsable
<1>7. OfSize(read.all, size) # {} => Standing(size) >= 1
  BY StandingMeans DEF ViewSound, OfSize, Authenticated
<1>8. /\ Claimed("UnknownCheckpoint") = 0 /\ Claimed("CheckpointNotSeriesUsable") = 1
      /\ Claimed("SeriesEquivocated") = 3
  BY ClaimedTyped DEF Unknown, Authenticated, Equivocated
<1> QED BY <1>2, <1>3, <1>4, <1>5, <1>6, <1>7, <1>8 DEF RefusedAsStood

(* What a view picks for a size is a good pick.                            *)
LEMMA PickStands ==
    ASSUME StoreSound, Began, ViewSound, NEW size \in AskedSizes(read.ask)
    PROVE  /\ Grounds(size) = Accepted => GoodPick(Earliest(OfSize(read.view.usable, size)), size)
           /\ Grounds(size) # Accepted =>
                Grounds(size) \in Errors /\ RefusedAsStood(Grounds(size), size)
<1>1. CASE read.view.floor <= size
  BY <1>1, GroundsStand DEF Grounds, Errors, RangeErrors, Accepted
<1>2. CASE ~(read.view.floor <= size) /\ OfSize(read.all, size) = {}
  BY <1>2, GroundsStand DEF Grounds, WhyNoMember, Errors, RangeErrors, Accepted
<1>3. CASE /\ ~(read.view.floor <= size) /\ OfSize(read.all, size) # {}
           /\ OfSize(read.view.usable, size) = {}
  BY <1>3, GroundsStand DEF Grounds, WhyNoMember, Errors, RangeErrors, Accepted
<1>4. CASE /\ ~(read.view.floor <= size) /\ OfSize(read.all, size) # {}
           /\ OfSize(read.view.usable, size) # {}
  <2> DEFINE found == OfSize(read.view.usable, size)
             pick == Earliest(found)
  <2>1. Grounds(size) = Accepted
    BY <1>4 DEF Grounds, WhyNoMember
  <2>2. found \in SUBSET checkpoints /\ found \in SUBSET read.view.usable
        /\ \A cp \in found : cp.size = size
    BY DEF ViewSound, OfSize
  <2>3. pick \in found
    <3>1. Sized(found)
      BY <2>2, HeldSized
    <3> QED BY <1>4, <3>1, EarliestExists
  <2>4. size \in Nat /\ read.view.floor \in Nat /\ read.began.floor \in Int
    BY AskedTyped, HeldSized DEF Began, ViewSound
  <2> HIDE DEF pick, found
  <2>5. GoodPick(pick, size)
    BY <1>4, <2>2, <2>3, <2>4 DEF GoodPick, ViewSound, StoreSound
  <2> QED BY <2>1, <2>5 DEF pick, found
<1> QED BY <1>1, <1>2, <1>3, <1>4

(* What rests on a good pick answers for its size.                         *)
LEMMA GoodPickStands ==
    ASSUME Began, NEW size \in AskedSizes(read.ask), NEW cp, GoodPick(cp, size)
    PROVE  read.began.standing[size] # Equivocated /\ Standing(size) >= SeriesUsable
<1>1. size \in Nat /\ read.began.floor \in Int
  BY AskedTyped DEF Began
<1> QED BY <1>1, StandingMeans DEF GoodPick, Began

(* Answers from the view itself: the list, the bound, the lookup.          *)
LEMMA ViewAnswered ==
    ASSUME StoreSound, RequestSound, AnswerList \/ AnswerItub \/ AnswerLookup,
           UNCHANGED atomicVars
    PROVE  RequestSound'
<1>1. Began /\ ViewSound
  BY DEF RequestSound, AnswerList, AnswerItub, AnswerLookup, Viewed
<1>2. CASE AnswerList
  <2>1. read.ask.route = "list" /\ Answer([members |-> read.all, usable |-> read.view.usable])
    BY <1>2 DEF AnswerList, Viewed
  <2> QED BY <1>1, <2>1, AnswerIsSound DEF AboutASize
<1>3. CASE AnswerItub
  <2> DEFINE with == [rests |-> Itub(read.view, read.ask.index), members |-> read.all]
  <2>1. read.ask.route = "itub" /\ Answer(with)
    BY <1>3 DEF AnswerItub, Viewed
  <2>2. read.ask.index \in Nat
    BY <1>1, <2>1, AskAssumption DEF Began
  <2>3. \A cp \in with.rests :
            cp \in read.view.usable /\ cp.size < read.view.floor /\ cp \in checkpoints
    BY <1>1, <2>2 DEF ViewSound
  <2>4. \A cp \in with.rests : cp.size < read.began.floor /\ Recomputes(entries, cp)
    <3>1. \A cp \in with.rests : cp.size \in Nat
      BY <2>3, HeldSized DEF Sized
    <3> QED BY <1>1, <2>3, <3>1 DEF ViewSound, Began
  <2> HIDE DEF with
  <2> QED BY <1>1, <2>1, <2>4, AnswerIsSound DEF AboutASize
<1>4. CASE AnswerLookup
  <2> DEFINE size == read.ask.size
             found == OfSize(read.all, size)
  <2>1. read.ask.route = "lookup" /\ size \in AskedSizes(read.ask)
        /\ AskedSizes(read.ask) = {size}
    BY <1>4 DEF AnswerLookup, Viewed, AskedSizes
  <2>2. CASE read.view.floor <= size
    <3>1. RefuseAt("SeriesEquivocated", size)
      BY <1>4, <2>2 DEF AnswerLookup
    <3>2. RefusedAsStood("SeriesEquivocated", size)
      BY <1>1, <2>1, <2>2, GroundsStand
    <3> QED BY <1>1, <3>1, <3>2, RefusalIsSound DEF Errors, RangeErrors
  <2>3. CASE ~(read.view.floor <= size) /\ found = {}
    <3>1. RefuseAt("UnknownCheckpoint", size)
      BY <1>4, <2>3 DEF AnswerLookup
    <3>2. RefusedAsStood("UnknownCheckpoint", size)
      BY <1>1, <2>1, <2>3, GroundsStand
    <3> QED BY <1>1, <3>1, <3>2, RefusalIsSound DEF Errors, RangeErrors
  <2>4. CASE ~(read.view.floor <= size) /\ found # {}
    <3> DEFINE latest == Latest(found)
    <3>1. Answer([rests |-> {latest}])
      BY <1>4, <2>4 DEF AnswerLookup
    <3>2. found \in SUBSET checkpoints /\ \A cp \in found : cp.size = size
      BY <1>1 DEF ViewSound, OfSize
    <3>3. latest \in found
      <4>1. Sized(found) /\ IsFiniteSet(found)
        BY <3>2, HeldSized, FS_Subset DEF StoreSound
      <4> QED BY <2>4, <4>1, LatestExists
    <3>4. size \in Nat /\ read.view.floor \in Nat /\ read.began.floor \in Int
      BY <1>1, <2>1, AskedTyped DEF Began, ViewSound
    <3> HIDE DEF latest, found
    <3>5. latest.size < read.began.floor
      BY <1>1, <2>4, <3>2, <3>3, <3>4 DEF ViewSound
    <3>6. read.began.standing[size] # Equivocated
      BY <1>1, <2>1, <2>4, <3>4 DEF Began, ViewSound
    <3>7. Standing(size) >= Authenticated
      BY <3>2, <3>3, StandingMeans
    <3>8. ServedAsStood
      BY <2>1, <3>6, <3>7 DEF ServedAsStood
    <3> QED BY <1>1, <2>1, <3>1, <3>5, <3>8, AnswerIsSound
  <2> QED BY <2>2, <2>3, <2>4
<1> QED BY <1>2, <1>3, <1>4

(* The range and consistency routes pick a member for each size.           *)
LEMMA MembersPicked ==
    ASSUME StoreSound, RequestSound, PickForRange \/ PickFrom \/ PickTo, UNCHANGED atomicVars
    PROVE  RequestSound'
<1>1. Began /\ ViewSound /\ Fits /\ read.step = "viewed"
  BY DEF RequestSound, PickForRange, PickFrom, PickTo, Viewed
<1>2. ASSUME NEW size \in AskedSizes(read.ask), NEW next, Pick(size, next),
             Grounds(size) # Accepted
      PROVE  RequestSound'
  <2>1. RefuseAt(Grounds(size), size)
    BY <1>2 DEF Pick
  <2>2. Grounds(size) \in Errors /\ RefusedAsStood(Grounds(size), size)
    BY <1>1, <1>2, PickStands
  <2> QED BY <1>1, <2>1, <2>2, RefusalIsSound
<1>3. ASSUME NEW size \in AskedSizes(read.ask), NEW next, Pick(size, next),
             Grounds(size) = Accepted
      PROVE  \E cp \in Published :
                /\ GoodPick(cp, size)
                /\ read'.step = next /\ read'.ask = read.ask /\ read'.began = read.began
                /\ read'.picked = Append(read.picked, cp)
                /\ Began' /\ \A c, n : GoodPick(c, n) => GoodPick(c, n)'
  <2> DEFINE pick == Earliest(OfSize(read.view.usable, size))
  <2>1. pick \in Published /\ GoodPick(pick, size)
    BY <1>1, <1>3, PickStands DEF GoodPick
  <2>2. read' = [ step |-> next, ask |-> read.ask, began |-> read.began,
                  picked |-> Append(read.picked, pick) ]
    BY <1>3 DEF Pick
  <2> HIDE DEF pick
  <2>3. /\ read'.step = next /\ read'.ask = read.ask /\ read'.began = read.began
        /\ read'.picked = Append(read.picked, pick)
    BY <2>2
  <2>4. Began' /\ \A c, n : GoodPick(c, n) => GoodPick(c, n)'
    BY <1>1, <2>3, StillBegan
  <2> QED BY <2>1, <2>3, <2>4
<1>4. ASSUME PickFrom PROVE RequestSound'
  <2>1. /\ read.ask.route = "consistency" /\ read.picked = <<>>
        /\ Pick(read.ask.from, "members") /\ read.ask.from \in AskedSizes(read.ask)
    BY <1>4 DEF PickFrom, Viewed, AskedSizes
  <2>2. CASE Grounds(read.ask.from) = Accepted
    <3>1. PICK cp \in Published :
                /\ GoodPick(cp, read.ask.from)
                /\ read'.step = "members" /\ read'.ask = read.ask
                /\ read'.picked = Append(read.picked, cp)
                /\ Began' /\ \A c, n : GoodPick(c, n) => GoodPick(c, n)'
      BY <1>3, <2>1, <2>2
    <3>2. read'.picked = <<cp>>
      BY <2>1, <3>1
    <3>3. Fits'
      BY <2>1, <3>1, <3>2 DEF Fits
    <3> QED BY <3>1, <3>3 DEF RequestSound
  <2> QED BY <1>2, <2>1, <2>2
<1>5. ASSUME PickTo PROVE RequestSound'
  <2>1. /\ read.ask.route = "consistency" /\ read.picked # <<>>
        /\ Pick(read.ask.to, "prove") /\ read.ask.to \in AskedSizes(read.ask)
    BY <1>5 DEF PickTo, Viewed, AskedSizes
  <2>2. PICK a : read.picked = <<a>> /\ GoodPick(a, read.ask.from)
    BY <1>1, <2>1 DEF Fits
  <2>3. CASE Grounds(read.ask.to) = Accepted
    <3>1. PICK b \in Published :
                /\ GoodPick(b, read.ask.to)
                /\ read'.step = "prove" /\ read'.ask = read.ask
                /\ read'.picked = Append(read.picked, b)
                /\ Began' /\ \A c, n : GoodPick(c, n) => GoodPick(c, n)'
      BY <1>3, <2>1, <2>3
    <3>2. Len(read'.picked) = 2 /\ read'.picked[1] = a /\ read'.picked[2] = b
      <4>1. <<a>> \in Seq({a, b}) /\ b \in {a, b}
        OBVIOUS
      <4>2. /\ Len(Append(<<a>>, b)) = 2
            /\ Append(<<a>>, b)[1] = a /\ Append(<<a>>, b)[2] = b
        BY <4>1
      <4> QED BY <2>2, <3>1, <4>2
    <3>3. Fits'
      BY <2>1, <2>2, <3>1, <3>2 DEF Fits
    <3> QED BY <3>1, <3>3 DEF RequestSound
  <2> QED BY <1>2, <2>1, <2>3
<1>6. ASSUME PickForRange PROVE RequestSound'
  <2>1. /\ read.ask.route = "range" /\ Pick(read.ask.size, "build")
        /\ read.ask.size \in AskedSizes(read.ask)
    BY <1>6 DEF PickForRange, Viewed, AskedSizes
  <2>2. CASE Grounds(read.ask.size) = Accepted
    <3>1. PICK cp \in Published :
                /\ GoodPick(cp, read.ask.size)
                /\ read'.step = "build" /\ read'.ask = read.ask
                /\ read'.picked = Append(read.picked, cp)
                /\ Began' /\ \A c, n : GoodPick(c, n) => GoodPick(c, n)'
      BY <1>3, <2>1, <2>2
    <3>2. read'.picked = <<cp>>
      <4>1. read.picked = <<>>
        BY <1>1, <2>1 DEF Fits
      <4> QED BY <3>1, <4>1
    <3>3. Fits'
      BY <2>1, <3>1, <3>2 DEF Fits
    <3> QED BY <3>1, <3>3 DEF RequestSound
  <2> QED BY <1>2, <2>1, <2>2
<1> QED BY <1>4, <1>5, <1>6

(* The rotation route goes on with its anchor if that is below the floor.  *)
LEMMA AnchorPicked ==
    ASSUME StoreSound, RequestSound, PickAnchor, UNCHANGED atomicVars
    PROVE  RequestSound'
<1>1. Began /\ ViewSound /\ Fits /\ read.ask.route = "rotation" /\ read.step = "viewed"
  BY DEF RequestSound, PickAnchor, Viewed
<1>2. CASE read.view.floor <= read.picked[1].size
  <2>1. RefuseAt("SeriesEquivocated", read.picked[1].size)
    BY <1>2 DEF PickAnchor
  <2> QED BY <1>1, <2>1, RefusalIsSound DEF AboutASize, Errors, RangeErrors
<1>3. CASE ~(read.view.floor <= read.picked[1].size)
  <2>1. PICK cp \in Published : read.picked = <<cp>>
    BY <1>1 DEF Fits
  <2>2. cp.size < read.began.floor
    <3>1. cp.size \in Nat /\ read.view.floor \in Nat /\ read.began.floor \in Int
      BY <1>1, PublishedSized DEF Sized, ViewSound, Began
    <3> QED BY <1>1, <1>3, <2>1, <3>1 DEF ViewSound
  <2>3. /\ read'.step = "open" /\ read'.ask = read.ask /\ read'.began = read.began
        /\ read'.picked = read.picked
    BY <1>3 DEF PickAnchor
  <2>4. Began'
    BY <1>1, <2>3, StillBegan
  <2>5. Fits'
    BY <1>1, <2>1, <2>2, <2>3 DEF Fits
  <2> QED BY <2>3, <2>4, <2>5 DEF RequestSound
<1> QED BY <1>2, <1>3

(* An enumeration is built over the rows the pick commits.                 *)
LEMMA RangeBuilt ==
    ASSUME StoreSound, RequestSound, BuildRange, UNCHANGED atomicVars
    PROVE  RequestSound'
<1>1. Began /\ read.ask.route = "range"
  BY DEF RequestSound, Fits, BuildRange
<1>2. PICK cp : read.picked = <<cp>> /\ GoodPick(cp, read.ask.size)
  BY DEF RequestSound, Fits, BuildRange
<1>3. RangeOver(cp, RangeVerdict(cp, read.ask.to <= cp.size))
  BY <1>2 DEF BuildRange
<1>4. HoldsPrefix(entries, cp.size) /\ Root(entries, cp.size) = cp.root /\ cp.size = read.ask.size
  BY <1>2 DEF GoodPick, Recomputes
<1>5. CASE ~(read.ask.from < read.ask.to /\ read.ask.to <= read.ask.size)
  <2>1. RefuseAt("InvalidRange", cp.size)
    BY <1>3, <1>4, <1>5 DEF RangeOver, RangeVerdict, Accepted
  <2>2. RefusedAsStood("InvalidRange", cp.size)
    BY <1>5 DEF RefusedAsStood
  <2> QED BY <1>1, <2>1, <2>2, RefusalIsSound DEF Errors, RangeErrors
<1>6. CASE read.ask.from < read.ask.to /\ read.ask.to <= read.ask.size
  <2> DEFINE rows == Restrict(entries, read.ask.from .. read.ask.to - 1)
  <2>1. Answer([rests |-> {cp}, rows |-> rows])
    BY <1>3, <1>4, <1>6 DEF RangeOver, RangeVerdict, Accepted
  <2>2. /\ read.ask.size \in AskedSizes(read.ask) /\ AskedSizes(read.ask) = {read.ask.size}
        /\ read.ask.from \in Nat /\ read.ask.to \in Nat /\ read.ask.size \in Nat
    BY <1>1, AskAssumption DEF AskedSizes, Began
  <2>3. ServedAsStood
    BY <1>1, <1>2, <2>2, GoodPickStands DEF ServedAsStood
  <2>4. DOMAIN rows = read.ask.from .. read.ask.to - 1 /\ IsRestriction(rows, cp.root)
    <3>1. cp.root = [i \in 0 .. cp.size - 1 |-> entries[i]]
      BY <1>4 DEF Root, Restrict
    <3>2. rows = [i \in read.ask.from .. read.ask.to - 1 |-> entries[i]]
      BY DEF Restrict
    <3>3. read.ask.from .. read.ask.to - 1 \subseteq 0 .. cp.size - 1
      BY <1>4, <1>6, <2>2
    <3> HIDE DEF rows
    <3> QED BY <3>1, <3>2, <3>3 DEF IsRestriction
  <2>5. cp.size < read.began.floor /\ Recomputes(entries, cp)
    BY <1>2 DEF GoodPick
  <2> HIDE DEF rows
  <2> QED BY <1>1, <2>1, <2>3, <2>4, <2>5, AnswerIsSound
<1> QED BY <1>5, <1>6

(* A consistency path joins the two picks.                                 *)
LEMMA ConsistencyProved ==
    ASSUME StoreSound, RequestSound, ProveConsistency, UNCHANGED atomicVars
    PROVE  RequestSound'
<1>1. Began /\ read.ask.route = "consistency"
  BY DEF RequestSound, Fits, ProveConsistency
<1> DEFINE a == read.picked[1]
           b == read.picked[2]
<1>2. GoodPick(a, read.ask.from) /\ GoodPick(b, read.ask.to)
  BY DEF RequestSound, Fits, ProveConsistency
<1>3. Answer([rests |-> {a, b}])
  BY <1>2 DEF ProveConsistency, GoodPick, Recomputes
<1>4. AskedSizes(read.ask) = {read.ask.from, read.ask.to}
  BY <1>1 DEF AskedSizes
<1>5. ServedAsStood
  BY <1>1, <1>2, <1>4, GoodPickStands DEF ServedAsStood
<1>6. \A cp \in {a, b} : cp.size < read.began.floor /\ Recomputes(entries, cp)
  BY <1>2 DEF GoodPick
<1> QED BY <1>1, <1>3, <1>5, <1>6, AnswerIsSound

(* A rotation proof opens its anchor's own root.                           *)
LEMMA AnchorOpened ==
    ASSUME StoreSound, RequestSound, OpenAnchor, UNCHANGED atomicVars
    PROVE  RequestSound'
<1>1. Began /\ read.ask.route = "rotation"
  BY DEF RequestSound, Fits, OpenAnchor
<1>2. PICK cp : read.picked = <<cp>> /\ cp.size < read.began.floor
  BY DEF RequestSound, Fits, OpenAnchor
<1>3. CASE ~HoldsPrefix(entries, cp.size)
  <2>1. RefuseAt("IncompleteEntries", cp.size)
    BY <1>2, <1>3 DEF OpenAnchor
  <2> QED BY <1>1, <2>1, RefusalIsSound DEF AboutASize, Errors, RangeErrors
<1>4. CASE HoldsPrefix(entries, cp.size) /\ Root(entries, cp.size) # cp.root
  <2>1. RefuseAt("CheckpointRootMismatch", cp.size)
    BY <1>2, <1>4 DEF OpenAnchor
  <2> QED BY <1>1, <2>1, RefusalIsSound DEF AboutASize, Errors, RangeErrors
<1>5. CASE Recomputes(entries, cp)
  <2>1. Answer([rests |-> {cp}])
    BY <1>2, <1>5 DEF OpenAnchor, Recomputes
  <2> QED BY <1>1, <1>2, <1>5, <2>1, AnswerIsSound DEF AboutASize
<1> QED BY <1>3, <1>4, <1>5 DEF Recomputes

-----------------------------------------------------------------------------
(* The invariant and what follows from it.                                 *)

(* An empty store and no request are sound.                                *)
LEMMA IInvInit == Init => IInv
<1> SUFFICES ASSUME Init PROVE IInv
  OBVIOUS
<1>1. StoreSound
  BY FS_EmptySet DEF Init, AtomicInit, StoreSound, EmptyTable, IsInjective
<1>2. RequestSound
  BY DEF Init, RequestSound, Fits
<1> QED BY <1>1, <1>2 DEF IInv

(* Every step, of a submission or of a request, keeps the invariant.       *)
LEMMA IInvStep == IInv /\ [Next]_vars => IInv'
<1> SUFFICES ASSUME IInv, [Next]_vars PROVE IInv'
  OBVIOUS
<1>1. StoreSound /\ RequestSound /\ StoreSound' /\ StoreGrows
  BY StoreStep DEF IInv
<1>2. ASSUME UNCHANGED read PROVE RequestSound'
  BY <1>1, <1>2, SubmissionsDoNotDisturb
<1>3. ASSUME NEW ask \in Ask, Begin(ask), UNCHANGED atomicVars PROVE RequestSound'
  BY <1>1, <1>3, RequestsBegin
<1>4. ASSUME Reader, UNCHANGED atomicVars PROVE RequestSound'
  BY <1>1, <1>4, OrderRefused, RetrievalSound, AnchorRead, MembersRead, MemberScanned,
     ViewFinished, ViewAnswered, MembersPicked, AnchorPicked, RangeBuilt, ConsistencyProved,
     AnchorOpened
     DEF Reader
<1> QED BY <1>1, <1>2, <1>3, <1>4 DEF Next, vars, IInv

(* The invariant holds of every behaviour.                                 *)
THEOREM ReadsInductive == Spec => []IInv
  BY IInvInit, IInvStep, PTL DEF Spec

(* A request is one the readers make, in a step of its route, and carries  *)
(* what that step collected.                                               *)
THEOREM ReadsTypeCorrect == Spec => []TypeOK
<1>1. IInv => TypeOK
  BY DEF IInv, RequestSound, TypeOK, Began, Fits, ScanSound, AnswerSound
<1> QED BY <1>1, ReadsInductive, PTL

(* No answer rests on a checkpoint at or past a divergence the store       *)
(* showed when the request began.                                          *)
THEOREM NothingEverPastAKnownDivergence == Spec => []NothingPastAKnownDivergence
<1>1. IInv => NothingPastAKnownDivergence
  BY DEF IInv, RequestSound, AnswerSound, NothingPastAKnownDivergence, AnsweredWithBound, Answered
<1> QED BY <1>1, ReadsInductive, PTL

(* The answer about a size, or the reason there is none, is true of that   *)
(* size at some moment of the request.                                     *)
THEOREM AlwaysAnsweredAsTheSizeStood == Spec => []AnsweredAsTheSizeStood
<1>1. IInv => AnsweredAsTheSizeStood
  <2>1. CASE read.step = "answered"
    BY <2>1, SoundAnswersStand DEF IInv, RequestSound, AnswerSound
  <2>2. CASE read.step # "answered"
    BY <2>2 DEF AnsweredAsTheSizeStood
  <2> QED BY <2>1, <2>2
<1> QED BY <1>1, ReadsInductive, PTL

(* What is retrieved is a leaf of an admitted checkpoint, at one index.    *)
THEOREM AlwaysEvidenced == Spec => []RetrievedIsEvidenced
<1>1. IInv => RetrievedIsEvidenced
  BY DEF IInv, RequestSound, AnswerSound, RetrievedIsEvidenced, Answered
<1> QED BY <1>1, ReadsInductive, PTL

(* What an answer rests on recomputes from the leaves held.                *)
THEOREM AnswersAlwaysRestOnHeldLeaves == Spec => []AnswersRestOnHeldLeaves
<1>1. IInv => AnswersRestOnHeldLeaves
  BY DEF IInv, RequestSound, AnswerSound, AnswersRestOnHeldLeaves, AnsweredWithBound, Answered
<1> QED BY <1>1, ReadsInductive, PTL

(* An enumeration is the log's own leaves.                                 *)
THEOREM RangeIsAlwaysTheLog == Spec => []RangeIsTheLog
<1>1. IInv => RangeIsTheLog
  BY DEF IInv, RequestSound, AnswerSound, RangeIsTheLog, Answered
<1> QED BY <1>1, ReadsInductive, PTL

(* No size goes back on what it has come to.                               *)
THEOREM StandingNeverFalls == Spec => StandingOnlyRises
<1>1. IInv /\ [Next]_vars =>
        [ read.step = "idle" =>
            \A size \in {cp.size : cp \in Published} : Standing(size) <= Standing(size)'
        ]_<<entries, checkpoints, rotations>>
  <2> SUFFICES ASSUME IInv, [Next]_vars, NEW cp \in Published
               PROVE  Standing(cp.size) <= Standing(cp.size)'
    OBVIOUS
  <2>1. cp.size \in Nat
    BY PublishedSized DEF Sized
  <2> QED BY <2>1, StoreStep, StoreRises DEF IInv
<1> QED BY <1>1, ReadsInductive, PTL DEF Spec, StandingOnlyRises

(* Where the log's times never decrease, no bound is ever loosened.        *)
THEOREM BoundsOnlyTighten == Spec => ItubOnlyTightens
<1>1. IInv /\ [Next]_vars =>
        [ read.step = "idle" /\ TimesInOrder' =>
            \A before \in {ViewNow}, after \in {ViewNow'}, index \in Indices :
              \A old \in Itub(before, index), new \in Itub(after, index) :
                new.time <= old.time ]_<<entries, checkpoints, rotations>>
  <2> SUFFICES ASSUME IInv, [Next]_vars, TimesInOrder', NEW index \in Indices,
                      NEW old \in Itub(ViewNow, index), NEW new \in Itub(ViewNow', index)
               PROVE  new.time <= old.time
    OBVIOUS
  <2> DEFINE view == SeriesView(entries, UsableNow, FloorNow)
             later == SeriesView(entries', UsableNow', FloorNow')
  <2>1. StoreSound /\ StoreSound' /\ StoreGrows
    BY StoreStep DEF IInv
  <2>2. ViewNow = view /\ ViewNow' = later
    BY DEF ViewNow, The
  <2>3. index \in Nat
    <3>1. PICK cp \in Published : index \in DOMAIN cp.root
      BY DEF Indices
    <3>2. DOMAIN cp.root = 0 .. cp.size - 1 /\ cp.size \in Nat
      BY SubmissionAssumption DEF Published, IsCheckpoint
    <3> QED BY <3>1, <3>2
  <2>4. /\ UsableNow \in SUBSET checkpoints /\ Sized(UsableNow) /\ IsFiniteSet(UsableNow)
        /\ FloorNow \in Nat
    <3>1. UsableNow \in SUBSET checkpoints
      BY DEF UsableNow
    <3>2. IsFiniteSet(checkpoints)
      BY <2>1 DEF StoreSound
    <3>3. Sized(UsableNow)
      BY <2>1, <3>1, HeldSized
    <3>4. FloorNow \in 0 .. NoFloor /\ NoFloor \in Nat
      BY <2>1, HeldSized
    <3>5. FloorNow \in Nat
      BY <3>4
    <3>6. IsFiniteSet(UsableNow)
      BY <3>1, <3>2, FS_Subset
    <3> QED BY <3>1, <3>3, <3>5, <3>6
  <2>5. /\ UsableNow' \in SUBSET checkpoints' /\ Sized(UsableNow') /\ IsFiniteSet(UsableNow')
        /\ FloorNow' \in Nat
    <3>1. UsableNow' \in SUBSET checkpoints'
      BY DEF UsableNow
    <3>2. checkpoints' \in SUBSET Published /\ IsFiniteSet(checkpoints')
      BY <2>1 DEF StoreSound
    <3>3. (checkpoints \cup AnchorsHeld)' \in SUBSET Published
      BY <2>1 DEF StoreSound, AnchorsHeld
    <3>4. FloorNow' \in Nat
      BY <3>3, PublishedSized, FloorIsLowest, MaxTreeSizeAssumption DEF FloorNow, NoFloor
    <3> QED BY <3>1, <3>2, <3>4, PublishedSized, FS_Subset
  <2>6. old \in UsableNow /\ index < old.size
    BY <2>2, <2>3, <2>4, BoundBelowFloor
  <2>7. /\ new \in UsableNow' /\ new.size <= later.frontier
        /\ \A o \in UsableNow' : (index < o.size /\ o.size <= later.frontier) => NotAfter(new, o)
    BY <2>2, <2>3, <2>5, BoundBelowFloor
  <2>8. later.frontier \in Nat
    BY <2>5, FrontierBelowFloor
  <2> HIDE DEF view, later
  <2>9. old \in UsableNow'
    BY <2>1, <2>6, StoreRises
  <2>10. old \in checkpoints' /\ new \in checkpoints'
    BY <2>5, <2>7, <2>9
  <2>11. /\ old.size \in Nat /\ new.size \in Nat
         /\ old.time \in Nat /\ new.time \in Nat
    BY <2>5, <2>7, <2>9 DEF Sized
  <2>12. new.size < old.size => new.time <= old.time
    BY <2>10 DEF TimesInOrder
  <2>13. CASE old.size <= later.frontier
    <3>1. NotAfter(new, old)
      BY <2>6, <2>7, <2>9, <2>13
    <3> QED BY <2>11, <2>12, <3>1 DEF NotAfter
  <2>14. CASE ~(old.size <= later.frontier)
    BY <2>7, <2>8, <2>11, <2>12, <2>14
  <2> QED BY <2>13, <2>14
<1> QED BY <1>1, ReadsInductive, PTL DEF Spec, ItubOnlyTightens

-----------------------------------------------------------------------------
(* Rotation proofs.                                                        *)

(* An anchor was judged by a prefix that is held now, no longer than the   *)
(* anchor's own log; a rotation request carries an anchor held for the     *)
(* manifest it names, and answers with one.                                *)
AnchorHeld(cp, manifest) == \E q \in rotations : q.cp = cp /\ q.manifest = manifest
JudgedByAPrefix(q) ==
    \E m \in 0 .. q.cp.size :
        HoldsPrefix(entries, m) /\ q.manifest \in Anchors(Root(entries, m), q.cp)
RInv ==
    /\ \A q \in rotations : JudgedByAPrefix(q)
    /\ (read.step \in {"members", "scan", "viewed", "open"} /\ read.ask.route = "rotation") =>
            AnchorHeld(read.picked[1], read.ask.manifest)
    /\ Answered("rotation") => \A cp \in read.with.rests : AnchorHeld(cp, read.ask.manifest)

(* What a submission is judged by is held once its batch is promoted.      *)
LEMMA SeenIsHeld ==
    ASSUME NEW s \in Submission, PromoteAll(s.cp, s.batch), NEW n \in 0 .. s.cp.size,
           HoldsPrefix(entries, n)
    PROVE  \E m \in 0 .. s.cp.size :
                /\ HoldsPrefix(entries', m)
                /\ VisiblePrefix(s.cp, s.batch, Root(entries, n)) = Root(entries', m)
<1>1. s.cp \in Published
  BY DEF Published
<1>2. IsRestriction(entries, entries')
  BY PromotionSound
<1>3. \A x \in DOMAIN s.batch : AlreadyPresent(entries', s.batch[x])
  BY DEF PromoteAll
<1> QED BY <1>1, <1>2, <1>3, VisibleIsHeld

(* Whatever grows the store keeps every anchor judged by a held prefix.    *)
LEMMA AnchorsJudged ==
    ASSUME StoreSound, [Next]_vars, \A q \in rotations : JudgedByAPrefix(q)
    PROVE  \A q \in rotations' : JudgedByAPrefix(q)'
<1>1. StoreGrows
  BY StoreStep
<1>2. ASSUME NEW q \in rotations PROVE JudgedByAPrefix(q)'
  <2>1. PICK m \in 0 .. q.cp.size :
            HoldsPrefix(entries, m) /\ q.manifest \in Anchors(Root(entries, m), q.cp)
    BY DEF JudgedByAPrefix
  <2>2. HoldsPrefix(entries', m) /\ Root(entries', m) = Root(entries, m)
    BY <1>1, <2>1 DEF StoreGrows, IsRestriction, HoldsPrefix, Root, Restrict
  <2> QED BY <2>1, <2>2 DEF JudgedByAPrefix
<1>3. ASSUME NEW s \in Submission, AtomicAdmit(s), NEW q \in rotations' \ rotations
      PROVE  JudgedByAPrefix(q)'
  <2>1. PICK n \in 0 .. s.cp.size :
            /\ HoldsPrefix(entries, n)
            /\ \E seen \in {VisiblePrefix(s.cp, s.batch, Root(entries, n))} :
                 \E a \in {Verdict(s, seen)} : Record(a)
    BY <1>3 DEF AtomicAdmit
  <2> DEFINE seen == VisiblePrefix(s.cp, s.batch, Root(entries, n))
  <2>2. PromoteAll(s.cp, s.batch) /\ Record(Verdict(s, seen))
    BY <1>3, <2>1 DEF AtomicAdmit
  <2>3. PICK m \in 0 .. s.cp.size : HoldsPrefix(entries', m) /\ seen = Root(entries', m)
    BY <2>1, <2>2, SeenIsHeld
  <2> HIDE DEF seen
  <2>4. q.cp = s.cp /\ q.manifest \in Anchors(seen, s.cp)
    BY <1>3, <2>2 DEF Record, NewAnchors, Verdict
  <2> QED BY <2>3, <2>4 DEF JudgedByAPrefix
<1>4. (\E s \in Submission : AtomicAdmit(s)) \/ rotations' = rotations
  BY DEF Next, vars, AtomicNext, AtomicStage, AtomicPromote, atomicVars
<1> QED BY <1>2, <1>3, <1>4

(* Every step keeps what rotation requests carry.                          *)
LEMMA RInvStep ==
    ASSUME IInv, RInv, [Next]_vars
    PROVE  RInv'
<1>1. \A q \in rotations' : JudgedByAPrefix(q)'
  BY AnchorsJudged DEF IInv, RInv
<1>2. Fits /\ rotations \subseteq rotations'
  BY StoreStep DEF IInv, RequestSound, StoreGrows
<1>3. \A cp, manifest : AnchorHeld(cp, manifest) => AnchorHeld(cp, manifest)'
  BY <1>2 DEF AnchorHeld
<1> DEFINE Carries == (read.step \in {"members", "scan", "viewed", "open"}
                         /\ read.ask.route = "rotation") =>
                            AnchorHeld(read.picked[1], read.ask.manifest)
           Serves == Answered("rotation") =>
                        \A cp \in read.with.rests : AnchorHeld(cp, read.ask.manifest)
<1>4. Carries /\ Serves
  BY DEF RInv
<1>5. CASE UNCHANGED read
  <2>1. Carries' /\ Serves'
    BY <1>3, <1>4, <1>5 DEF Answered
  <2> QED BY <1>1, <2>1 DEF RInv
<1>6. ASSUME NEW ask \in Ask, Begin(ask) PROVE RInv'
  <2>1. read'.ask = ask /\ read'.step # "answered" /\ read'.step \notin {"scan", "viewed", "open"}
        /\ (read'.step = "members" => ask.route # "rotation")
    BY <1>6 DEF Begin
  <2> QED BY <1>1, <2>1 DEF RInv, Answered
<1>7. ASSUME NEW error, NEW size, RefuseAt(error, size) PROVE RInv'
  <2>1. read'.step = "answered" /\ read'.ok = FALSE
    BY <1>7 DEF RefuseAt
  <2> QED BY <1>1, <2>1 DEF RInv, Answered
<1>8. ASSUME NEW with, Answer(with), read.ask.route # "rotation" PROVE RInv'
  <2>1. read'.step = "answered" /\ read'.ask = read.ask
    BY <1>8 DEF Answer
  <2> QED BY <1>1, <1>8, <2>1 DEF RInv, Answered
<1>9. ASSUME read'.ask = read.ask, read'.picked = read.picked, read'.step # "answered",
             read.step \in {"members", "scan", "viewed", "open"}
      PROVE  RInv'
  <2>1. Carries' /\ Serves'
    BY <1>3, <1>4, <1>9 DEF Answered
  <2> QED BY <1>1, <2>1 DEF RInv
<1>10. ASSUME read'.ask = read.ask, read'.step # "answered", read.ask.route # "rotation"
       PROVE  RInv'
  BY <1>1, <1>10 DEF RInv, Answered
<1>11. CASE RefuseOrder
  BY <1>7, <1>11 DEF RefuseOrder, Refuse
<1>12. CASE Retrieve
  BY <1>2, <1>8, <1>12 DEF Retrieve, Fits
<1>13. CASE ReadAnchor
  <2> DEFINE held == {q.cp : q \in {o \in rotations : o.manifest = read.ask.manifest}}
  <2>1. CASE held = {}
    BY <1>7, <1>13, <2>1 DEF ReadAnchor, Refuse
  <2>2. CASE held # {}
    <3>1. read' = [read EXCEPT !.step = "members", !.picked = <<Earliest(held)>>]
      BY <1>13, <2>2 DEF ReadAnchor
    <3>2. read = [ step |-> "anchor", ask |-> read.ask, picked |-> read.picked, began |-> read.began ]
      BY <1>2, <1>13 DEF ReadAnchor, Fits
    <3>3. held \in SUBSET Published
      BY DEF IInv, StoreSound
    <3> HIDE DEF held
    <3>4. Earliest(held) \in held
      BY <2>2, <3>3, PublishedSized, EarliestExists
    <3> DEFINE pick == Earliest(held)
    <3> HIDE DEF pick
    <3>5. /\ read'.step = "members" /\ read'.ask = read.ask /\ read'.picked = <<pick>>
      BY <3>1, <3>2 DEF pick
    <3>6. AnchorHeld(pick, read.ask.manifest)
      BY <3>4 DEF AnchorHeld, held, pick
    <3>7. read'.picked[1] = pick
      BY <3>5
    <3>8. Carries' /\ Serves'
      BY <1>3, <3>5, <3>6, <3>7 DEF Answered
    <3> QED BY <1>1, <3>8 DEF RInv
  <2> QED BY <2>1, <2>2
<1>14. CASE ReadMembers
  BY <1>9, <1>14 DEF ReadMembers
<1>15. CASE ScanMember
  <2>1. ScanSound /\ read.step = "scan"
    BY <1>15 DEF IInv, RequestSound, ScanMember
  <2>2. read'.ask = read.ask /\ read'.picked = read.picked /\ read'.step = "scan"
    BY <1>15, <2>1 DEF ScanSound, ScanMember
  <2> QED BY <1>9, <2>1, <2>2
<1>16. CASE FinishView
  <2> DEFINE view == SeriesView(entries, read.usable, Floor(read.all \cup AnchorsHeld))
  <2>1. read.step = "scan" /\ IF view.stop = "refused" THEN Refuse("StatementRefused")
            ELSE read' = [ step |-> "viewed", ask |-> read.ask, picked |-> read.picked,
                           began |-> read.began, all |-> read.all, view |-> view ]
    BY <1>16 DEF FinishView
  <2> HIDE DEF view
  <2> QED BY <1>7, <1>9, <2>1 DEF Refuse
<1>17. CASE AnswerList \/ AnswerLookup \/ AnswerItub
  BY <1>7, <1>8, <1>17 DEF AnswerList, AnswerLookup, AnswerItub, Viewed
<1>18. CASE PickForRange \/ PickFrom \/ PickTo
  BY <1>7, <1>10, <1>18 DEF PickForRange, PickFrom, PickTo, Pick, Viewed
<1>19. CASE PickAnchor
  <2>1. CASE read.view.floor <= read.picked[1].size
    BY <1>7, <1>19, <2>1 DEF PickAnchor
  <2>2. CASE ~(read.view.floor <= read.picked[1].size)
    <3>1. read.step = "viewed"
          /\ read' = [ step |-> "open", ask |-> read.ask, began |-> read.began, picked |-> read.picked ]
      BY <1>19, <2>2 DEF PickAnchor, Viewed
    <3> QED BY <1>9, <3>1
  <2> QED BY <2>1, <2>2
<1>20. CASE BuildRange
  <2>1. read.ask.route = "range"
    BY <1>2, <1>20 DEF BuildRange, Fits
  <2> QED BY <1>7, <1>8, <1>20, <2>1 DEF BuildRange, RangeOver
<1>21. CASE ProveConsistency
  <2>1. read.ask.route = "consistency"
    BY <1>2, <1>21 DEF ProveConsistency, Fits
  <2> QED BY <1>7, <1>8, <1>21, <2>1 DEF ProveConsistency
<1>22. CASE OpenAnchor
  <2>1. read.step = "open" /\ read.ask.route = "rotation"
    BY <1>2, <1>22 DEF OpenAnchor, Fits
  <2>2. CASE Answer([rests |-> {read.picked[1]}])
    <3> DEFINE with == [rests |-> {read.picked[1]}]
    <3>1. read'.step = "answered" /\ read'.ask = read.ask /\ read'.with = with
      BY <2>2 DEF Answer
    <3>2. \A cp \in with.rests : cp = read.picked[1]
      OBVIOUS
    <3> HIDE DEF with
    <3>3. Carries' /\ Serves'
      BY <1>3, <1>4, <2>1, <3>1, <3>2 DEF Answered
    <3> QED BY <1>1, <3>3 DEF RInv
  <2>3. Answer([rests |-> {read.picked[1]}]) \/ \E error, size : RefuseAt(error, size)
    BY <1>22 DEF OpenAnchor
  <2> QED BY <1>7, <2>2, <2>3
<1> QED BY <1>5, <1>6, <1>11, <1>12, <1>13, <1>14, <1>15, <1>16, <1>17, <1>18, <1>19, <1>20,
           <1>21, <1>22 DEF Next, Reader, vars

(* A rotation proof served is one for every verifier of the whole log.     *)
THEOREM ServedRotationsAreGenuine == Spec => []ServedRotationIsGenuine
<1>1. Init => RInv
  BY DEF Init, AtomicInit, RInv, Answered
<1>2. IInv /\ IInv' /\ RInv /\ [Next]_vars => RInv'
  BY RInvStep
<1>3. IInv /\ RInv => ServedRotationIsGenuine
  <2> SUFFICES ASSUME IInv, RInv, Answered("rotation"), NEW cp \in read.with.rests
               PROVE  read.ask.manifest \in Anchors(cp.root, cp)
    BY DEF ServedRotationIsGenuine
  <2>1. Recomputes(entries, cp)
    BY DEF IInv, RequestSound, AnswerSound, AnswersRestOnHeldLeaves, AnsweredWithBound, Answered
  <2>2. PICK q \in rotations : q.cp = cp /\ q.manifest = read.ask.manifest
    BY DEF RInv, AnchorHeld
  <2>3. PICK m \in 0 .. cp.size :
            HoldsPrefix(entries, m) /\ q.manifest \in Anchors(Root(entries, m), cp)
    BY <2>2 DEF RInv, JudgedByAPrefix
  <2>4. cp \in Published
    BY <2>2 DEF IInv, StoreSound
  <2>5. cp.size \in Nat /\ cp.root \in [0 .. cp.size - 1 -> Entry]
    BY <2>4, SubmissionAssumption DEF Published, IsCheckpoint
  <2>6. Root(entries, m) = [i \in 0 .. m - 1 |-> cp.root[i]]
    <3>1. \A i \in 0 .. m - 1 : i \in 0 .. cp.size - 1
      BY <2>5
    <3>2. \A i \in 0 .. cp.size - 1 : cp.root[i] = entries[i]
      BY <2>1 DEF Recomputes, Root, Restrict
    <3> QED BY <3>1, <3>2 DEF Root, Restrict
  <2>7. Rotations(Root(entries, m)) \subseteq Rotations(cp.root)
    BY <2>5, <2>6, PrefixWalk
  <2> QED BY <2>2, <2>3, <2>7 DEF Anchors
<1> QED BY <1>1, <1>2, <1>3, ReadsInductive, PTL DEF Spec
=============================================================================
