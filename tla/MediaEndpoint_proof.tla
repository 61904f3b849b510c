------------------------ MODULE MediaEndpoint_proof ------------------------
(***************************************************************************)
(* Proofs about MediaEndpoint, for any cameras, sessions and table size    *)
(* and any number of offers: every offer asks for the stream name of the   *)
(* camera that owns the slot, the endpoint is seeded from that camera at   *)
(* most once, answers are pushed fresh, once, or not at all, and every     *)
(* variable keeps its type.                                                *)
(***************************************************************************)
EXTENDS MediaEndpoint, SlotLife_proof, SequenceTheorems

USE LifeAssumption, WebRtcAssumption, AvAssumption
DEF LifeAssumption, WebRtcAssumption, AvAssumption

(* What a step of the endpoint is to its slot. *)
LEMMA SlotSteps == [Next]_vars => [LifeNext]_lifeVars
BY DEF Next, vars, BridgeStep, RtcStep, SeedDriverStep, StreamStep

LEMMA SlotInv == Spec => []LifeInv
<1>1. Init => LifeInv
  BY LifeInitInv DEF Init
<1>2. LifeInv /\ [Next]_vars => LifeInv'
  BY SlotSteps, LifeInvStays
<1> QED
  BY <1>1, <1>2, PTL DEF Spec
-----------------------------------------------------------------------------
(* An offer is recorded with the name that is looked up for it.            *)
LEMMA AskedSteps ==
  ASSUME [Next]_vars
  PROVE  asked' = asked \/ \E n : asked' = [asked EXCEPT ![n] = name]
<1>1. CASE BridgeStep \/ SeedDriverStep \/ StreamStep \/ UNCHANGED vars
  BY <1>1 DEF BridgeStep, SeedDriverStep, StreamStep, vars, rtcVars
<1>2. CASE RtcStep(RtcNext)
  BY <1>2 DEF RtcStep, RtcNext, Controller, Exchange, Worker, Offer, EndSession,
              ExchangeFails, ExchangeSucceeds, NextOutbound, TakeAnswer,
              NoAnswerToTake
<1> QED
  BY <1>1, <1>2 DEF Next

AskedInv ==
  /\ asked \in [1 .. MaxOffers -> Names \cup {None}]
  /\ OffersAskForTheOwner

LEMMA AskedStays ==
  ASSUME LifeInv, AskedInv, [Next]_vars
  PROVE  AskedInv'
<1>1. \A n \in 1 .. MaxOffers : asked'[n] \in {asked[n], name}
  BY AskedSteps DEF AskedInv
<1>2. asked' \in [1 .. MaxOffers -> Names \cup {None}]
  BY AskedSteps DEF AskedInv, LifeInv, LifeTypeOK
<1>3. owner # None => owner' = owner
  BY SlotSteps, OwnerStays
<1>4. \A n \in 1 .. MaxOffers :
        asked'[n] # None => owner # None /\ asked'[n] = StreamName[owner]
  BY <1>1 DEF AskedInv, OffersAskForTheOwner, LifeInv
<1> QED
  BY <1>2, <1>3, <1>4 DEF AskedInv, OffersAskForTheOwner

LEMMA AskedAlways == Spec => []AskedInv
<1>1. Init => AskedInv
  BY DEF Init, RtcInit, AskedInv, OffersAskForTheOwner
<1> QED
  BY <1>1, AskedStays, SlotInv, PTL DEF Spec

(***************************************************************************)
(* hooks.rs:122-141: every offer that was sent on, by whatever is answered *)
(* or pushed later, was for the stream name of the slot's owner.           *)
(***************************************************************************)
THEOREM OffersAreForTheOwnersName == Spec => []OffersAskForTheOwner
<1>1. AskedInv => OffersAskForTheOwner
  BY DEF AskedInv
<1> QED
  BY <1>1, AskedAlways, PTL

(* No two ids have one sanitized form. *)
OwnNames == \A c, d \in Cameras : StreamName[c] = StreamName[d] => c = d

(***************************************************************************)
(* If the ids of the cameras differ in more than what sanitize_stream_name *)
(* replaces, then no stream name that is asked for is another camera's.    *)
(***************************************************************************)
THEOREM OffersOnlyToTheOwner ==
  Spec => [](OwnNames => \A n \in 1 .. MaxOffers, c \in Cameras :
                           asked[n] = StreamName[c] => c = owner)
<1>1. LifeInv /\ AskedInv =>
        (OwnNames => \A n \in 1 .. MaxOffers, c \in Cameras :
                       asked[n] = StreamName[c] => c = owner)
  <2> SUFFICES ASSUME LifeInv, AskedInv, OwnNames,
                      NEW n \in 1 .. MaxOffers, NEW c \in Cameras,
                      asked[n] = StreamName[c]
               PROVE  c = owner
    OBVIOUS
  <2>1. asked[n] # None
    OBVIOUS
  <2>2. owner \in Cameras /\ StreamName[owner] = StreamName[c]
    BY <2>1 DEF AskedInv, OffersAskForTheOwner, LifeInv, LifeTypeOK
  <2> QED
    BY <2>2 DEF OwnNames
<1> QED
  BY <1>1, SlotInv, AskedAlways, PTL
-----------------------------------------------------------------------------
(***************************************************************************)
(* A slot's one seed is unsent, on its way, in the table, or lost or       *)
(* deallocated, and it was made from the owner.                            *)
(***************************************************************************)
SeedInv ==
  \/ seedQueue = <<>> /\ preallocated = <<>>
  \/ /\ owner # None /\ seeds = 1
     /\ \/ seedQueue = <<owner>> /\ preallocated = <<>>
        \/ seedQueue = <<>> /\ preallocated = <<owner>>

LEMMA SeedInvSuffices == SeedInv => SeededByTheOwner
<1> SUFFICES ASSUME SeedInv PROVE SeededByTheOwner
  OBVIOUS
<1>1. CASE seedQueue = <<>> /\ preallocated = <<>>
  <2>1. preallocated \o seedQueue = <<>>
    BY <1>1
  <2> QED
    BY <2>1 DEF SeededByTheOwner
<1>2. CASE \/ seedQueue = <<owner>> /\ preallocated = <<>>
           \/ seedQueue = <<>> /\ preallocated = <<owner>>
  <2>1. preallocated \o seedQueue = <<owner>>
    <3>1. <<owner>> \in Seq({owner})
      OBVIOUS
    <3> QED
      BY <1>2, <3>1, ConcatEmptySeq
  <2>2. Len(<<owner>>) = 1 /\ \A i \in 1 .. 1 : <<owner>>[i] = owner
    OBVIOUS
  <2> QED
    BY <2>1, <2>2 DEF SeededByTheOwner
<1> QED
  BY <1>1, <1>2 DEF SeedInv

LEMMA SeedInvStays ==
  ASSUME LifeInv, SeedInv, [Next]_vars
  PROVE  SeedInv'
<1>1. owner # None => owner' = owner
  BY SlotSteps, OwnerStays
<1>2. CASE BridgeStep
  <2>1. preallocated' = preallocated /\ seeds' \in {seeds, 1}
    BY <1>2 DEF BridgeStep, SendSeed, LifeNext, Bind, PublishName, Show,
                Furnish, Clear, Unname
  <2>2. CASE seeds' > seeds
    <3>1. seeds = 0 /\ seeds' = 1
      BY <2>1, <2>2 DEF LifeInv, LifeTypeOK
    <3>2. occupant # None
      BY <1>2, <3>1 DEF BridgeStep, LifeNext, Bind, PublishName, Show, Furnish,
                        Clear, Unname
    <3>3. owner # None /\ occupant = owner
      BY <3>2 DEF LifeInv
    <3>4. seedQueue' = Append(<<>>, owner) /\ preallocated = <<>>
      BY <1>2, <2>2, <3>1, <3>3 DEF BridgeStep, SendSeed, SeedInv
    <3> QED
      BY <1>1, <2>1, <3>1, <3>3, <3>4 DEF SeedInv
  <2>3. CASE ~(seeds' > seeds)
    <3>1. seedQueue' = seedQueue /\ (seeds = 1 => seeds' = 1)
      BY <1>2, <2>1, <2>3 DEF BridgeStep, SendSeed, LifeInv, LifeTypeOK
    <3> QED
      BY <1>1, <2>1, <3>1 DEF SeedInv
  <2> QED
    BY <2>2, <2>3
<1>3. CASE SeedDriverStep
  <2>1. UNCHANGED <<owner, seeds>> /\ seedQueue # <<>>
    BY <1>3 DEF SeedDriverStep, SeedDriver, lifeVars
  <2>2. owner # None /\ seeds = 1 /\ seedQueue = <<owner>> /\ preallocated = <<>>
    BY <2>1 DEF SeedInv
  <2>3. seedQueue' = <<>> /\ preallocated' \in {<<>>, <<owner>>}
    BY <1>3, <2>2 DEF SeedDriverStep, SeedDriver
  <2> QED
    BY <2>1, <2>2, <2>3 DEF SeedInv
<1>4. CASE StreamStep
  <2>1. UNCHANGED <<owner, seeds, seedQueue>>
    BY <1>4 DEF StreamStep, AllocateVideo, DeallocateVideo, lifeVars
  <2>2. \/ preallocated' = preallocated
        \/ preallocated # <<>> /\ preallocated' = Tail(preallocated)
    BY <1>4 DEF StreamStep, AllocateVideo, DeallocateVideo
  <2>3. Tail(<<owner>>) = <<>>
    OBVIOUS
  <2> QED
    BY <1>1, <2>1, <2>2, <2>3 DEF SeedInv
<1>5. CASE RtcStep(RtcNext) \/ UNCHANGED vars
  BY <1>5 DEF RtcStep, vars, lifeVars, avVars, SeedInv
<1> QED
  BY <1>2, <1>3, <1>4, <1>5 DEF Next

(***************************************************************************)
(* main.rs:366-384 with onvif_bridge.rs:164-166: an endpoint is seeded     *)
(* from the camera it belongs to, and once.                                *)
(***************************************************************************)
THEOREM SeedsOnlyFromTheOwner == Spec => []SeededByTheOwner
<1>1. Init => SeedInv
  BY DEF Init, AvInit, SeedInv
<1> QED
  BY <1>1, SeedInvStays, SeedInvSuffices, SlotInv, PTL DEF Spec
-----------------------------------------------------------------------------
RtcTypes ==
  /\ answers \in [Sessions -> Nat] /\ accepted \in [Sessions -> Nat]
  /\ outbound \in Seq(Sessions)
  /\ inHand \in Sessions \cup {None}
  /\ exchanging \in Sessions \cup {None}
  /\ offers \in Nat
  /\ delivered \in Seq(Nat)

(* An offer that is being exchanged has no answer yet. *)
Settled(n) == n <= offers /\ (exchanging # None => n < offers)

(* A buffered answer is to its session's last offer, and was not pushed.   *)
FreshInv ==
  /\ exchanging # None => offers # 0
  /\ \A s \in Sessions, n \in Nat :
       answers[s] = n /\ n # 0 =>
         /\ accepted[s] = n /\ Settled(n) /\ ~Contains(delivered, n)
         /\ \A r \in Sessions : answers[r] = n => r = s
  /\ \A n \in Nat : Contains(delivered, n) => Settled(n)

AnswerInv == RtcTypes /\ NoOrphanAnswer /\ FreshInv

LEMMA AnswerInitInv == Init => AnswerInv
BY DEF Init, RtcInit, AnswerInv, RtcTypes, NoOrphanAnswer, FreshInv, Contains

(* The steps of RtcNext, and those that leave all of its variables. *)
LEMMA RtcSteps ==
  ASSUME [Next]_vars
  PROVE  RtcNext \/ UNCHANGED rtcVars
BY DEF Next, vars, BridgeStep, RtcStep, SeedDriverStep, StreamStep

LEMMA RtcTypesStay ==
  ASSUME RtcTypes, RtcNext \/ UNCHANGED rtcVars
  PROVE  RtcTypes'
<1> USE DEF RtcTypes, hookVars
<1>1. ASSUME NEW s \in Sessions, Offer(s) PROVE RtcTypes'
  BY <1>1 DEF Offer
<1>2. ASSUME NEW s \in Sessions, EndSession(s) PROVE RtcTypes'
  BY <1>2 DEF EndSession
<1>3. CASE ExchangeFails
  BY <1>3 DEF ExchangeFails
<1>4. CASE ExchangeSucceeds
  <2>1. exchanging \in Sessions
    BY <1>4 DEF ExchangeSucceeds
  <2>2. outbound' \in Seq(Sessions)
    BY <1>4, <2>1 DEF ExchangeSucceeds, Enqueue
  <2>3. answers' \in [Sessions -> Nat] /\ accepted' \in [Sessions -> Nat]
    BY <1>4, <2>1 DEF ExchangeSucceeds
  <2> QED
    BY <1>4, <2>2, <2>3 DEF ExchangeSucceeds
<1>5. CASE NextOutbound
  <2>1. Head(outbound) \in Sessions /\ Tail(outbound) \in Seq(Sessions)
    BY <1>5 DEF NextOutbound
  <2> QED
    BY <1>5, <2>1 DEF NextOutbound
<1>6. CASE TakeAnswer
  <2>1. inHand \in Sessions
    BY <1>6 DEF TakeAnswer
  <2>2. delivered' \in Seq(Nat)
    <3> DEFINE n == answers[inHand]
    <3>1. n \in Nat
      BY <2>1
    <3>2. delivered' = delivered \/ delivered' = Append(delivered, n)
      BY <1>6 DEF TakeAnswer
    <3> HIDE DEF n
    <3>3. Append(delivered, n) \in Seq(Nat)
      BY <3>1, AppendProperties
    <3> QED
      BY <3>2, <3>3
  <2>3. answers' \in [Sessions -> Nat]
    BY <1>6, <2>1 DEF TakeAnswer
  <2>4. inHand' = None /\ UNCHANGED <<outbound, exchanging, offers, accepted>>
    BY <1>6 DEF TakeAnswer
  <2> QED
    BY <2>2, <2>3, <2>4
<1>7. CASE NoAnswerToTake
  BY <1>7 DEF NoAnswerToTake
<1>8. CASE UNCHANGED rtcVars
  BY <1>8 DEF rtcVars
<1> QED
  BY <1>1, <1>2, <1>3, <1>4, <1>5, <1>6, <1>7, <1>8
     DEF RtcNext, Controller, Exchange, Worker

LEMMA AppendContains ==
  ASSUME NEW S, NEW q \in Seq(S), NEW e \in S
  PROVE  \A x : Contains(Append(q, e), x) <=> Contains(q, x) \/ x = e
BY DEF Contains

LEMMA TailContains ==
  ASSUME NEW S, NEW q \in Seq(S), q # <<>>
  PROVE  \A x : Contains(q, x) <=> x = Head(q) \/ Contains(Tail(q), x)
<1>1. ASSUME NEW x, Contains(q, x) PROVE x = Head(q) \/ Contains(Tail(q), x)
  <2>1. PICK i \in 1 .. Len(q) : q[i] = x
    BY <1>1 DEF Contains
  <2>2. i # 1 => i - 1 \in 1 .. Len(Tail(q)) /\ Tail(q)[i - 1] = x
    BY <2>1
  <2> QED
    BY <2>1, <2>2 DEF Contains
<1>2. ASSUME NEW x, x = Head(q) \/ Contains(Tail(q), x) PROVE Contains(q, x)
  <2>1. CASE x = Head(q)
    BY <2>1 DEF Contains
  <2>2. CASE Contains(Tail(q), x)
    <3>1. PICK i \in 1 .. Len(Tail(q)) : Tail(q)[i] = x
      BY <2>2 DEF Contains
    <3>2. i + 1 \in 1 .. Len(q) /\ q[i + 1] = x
      BY <3>1
    <3> QED
      BY <3>2 DEF Contains
  <2> QED
    BY <1>2, <2>1, <2>2
<1> QED
  BY <1>1, <1>2

LEMMA WorkStays ==
  ASSUME RtcTypes, NoOrphanAnswer, RtcNext \/ UNCHANGED rtcVars
  PROVE  NoOrphanAnswer'
<1> USE DEF RtcTypes, NoOrphanAnswer, hookVars
<1>1. ASSUME NEW s \in Sessions, Offer(s) \/ EndSession(s) PROVE NoOrphanAnswer'
  BY <1>1 DEF Offer, EndSession
<1>2. CASE ExchangeFails \/ NoAnswerToTake
  BY <1>2 DEF ExchangeFails, NoAnswerToTake
<1>3. CASE ExchangeSucceeds
  <2>1. /\ exchanging \in Sessions
        /\ outbound' = Append(outbound, exchanging) /\ inHand' = inHand
    BY <1>3 DEF ExchangeSucceeds, Enqueue
  <2>2. \A x : Contains(outbound', x) <=> Contains(outbound, x) \/ x = exchanging
    BY <2>1, AppendContains
  <2> QED
    BY <1>3, <2>1, <2>2 DEF ExchangeSucceeds
<1>4. CASE NextOutbound
  <2>1. \A x : Contains(outbound, x) <=> x = inHand' \/ Contains(outbound', x)
    BY <1>4, TailContains DEF NextOutbound
  <2> QED
    BY <1>4, <2>1 DEF NextOutbound
<1>5. CASE TakeAnswer
  BY <1>5 DEF TakeAnswer
<1>6. CASE UNCHANGED rtcVars
  BY <1>6 DEF rtcVars
<1> QED
  BY <1>1, <1>2, <1>3, <1>4, <1>5, <1>6 DEF RtcNext, Controller, Exchange, Worker

(* What is settled stays so: a new offer has a number of its own. *)
LEMMA SettledStays ==
  ASSUME RtcTypes, FreshInv, RtcNext \/ UNCHANGED rtcVars
  PROVE  /\ exchanging' # None => offers' # 0
         /\ \A n \in Nat : Settled(n) => Settled(n)'
<1>1. \/ offers' = offers /\ exchanging' \in {exchanging, None}
      \/ offers' = offers + 1
  BY DEF RtcNext, Controller, Exchange, Worker, Offer, EndSession,
         ExchangeFails, ExchangeSucceeds, NextOutbound, TakeAnswer,
         NoAnswerToTake, rtcVars
<1> QED
  BY <1>1 DEF RtcTypes, FreshInv, Settled

LEMMA FreshStays ==
  ASSUME RtcTypes, FreshInv, RtcNext \/ UNCHANGED rtcVars
  PROVE  FreshInv'
<1> USE DEF RtcTypes
<1>1. /\ exchanging' # None => offers' # 0
      /\ \A n \in Nat : Settled(n) => Settled(n)'
  BY SettledStays
<1>2. CASE /\ delivered' = delivered /\ accepted' = accepted
           /\ \A s \in Sessions : answers'[s] \in {answers[s], 0}
  BY <1>1, <1>2 DEF FreshInv
<1>3. CASE ExchangeSucceeds
  <2>0. PICK e \in Sessions, k \in Nat : e = exchanging /\ k = offers
    BY <1>3 DEF ExchangeSucceeds
  <2>1. /\ e \in Sessions /\ k \in Nat /\ k # 0
        /\ delivered' = delivered
        /\ answers' = [answers EXCEPT ![e] = k]
        /\ accepted' = [accepted EXCEPT ![e] = k]
        /\ exchanging' = None /\ offers' = k
    BY <1>3, <2>0 DEF ExchangeSucceeds, FreshInv
  <2>2. ~Settled(k) /\ Settled(k)'
    BY <1>3, <2>0, <2>1 DEF ExchangeSucceeds, Settled
  <2>3. ~Contains(delivered, k) /\ \A s \in Sessions : answers[s] # k
    BY <2>1, <2>2 DEF FreshInv
  <2>4. ASSUME NEW s \in Sessions, NEW n \in Nat, answers'[s] = n, n # 0
        PROVE  /\ accepted'[s] = n /\ Settled(n)' /\ ~Contains(delivered', n)
               /\ \A r \in Sessions : answers'[r] = n => r = s
    <3>1. CASE s = e
      <4>1. n = k /\ accepted'[s] = k
        BY <2>1, <2>4, <3>1
      <4>2. \A r \in Sessions : answers'[r] = k => r = e
        BY <2>1, <2>3
      <4>3. Settled(n)' /\ ~Contains(delivered', n)
        BY <2>1, <2>2, <2>3, <4>1
      <4> QED
        BY <3>1, <4>1, <4>2, <4>3
    <3>2. CASE s # e
      BY <1>1, <2>1, <2>3, <2>4, <3>2 DEF FreshInv
    <3> QED
      BY <3>1, <3>2
  <2> QED
    BY <1>1, <2>1, <2>4 DEF FreshInv
<1>4. CASE TakeAnswer
  <2> DEFINE k == answers[inHand]
  <2>1. /\ inHand \in Sessions /\ k \in Nat /\ k # 0
        /\ accepted' = accepted
        /\ answers' = [answers EXCEPT ![inHand] = 0]
        /\ delivered' = delivered \/ delivered' = Append(delivered, k)
    BY <1>4 DEF TakeAnswer
  <2>2. Settled(k) /\ \A r \in Sessions : answers[r] = k => r = inHand
    BY <2>1 DEF FreshInv
  <2> HIDE DEF k
  <2>3. \A n : Contains(delivered', n) => Contains(delivered, n) \/ n = k
    <3>1. \A n : Contains(Append(delivered, k), n) <=> Contains(delivered, n) \/ n = k
      BY <2>1, AppendContains
    <3> QED
      BY <2>1, <3>1
  <2>4. ASSUME NEW s \in Sessions, NEW n \in Nat, answers'[s] = n, n # 0
        PROVE  /\ accepted'[s] = n /\ Settled(n)' /\ ~Contains(delivered', n)
               /\ \A r \in Sessions : answers'[r] = n => r = s
    <3>1. s # inHand /\ answers[s] = n
      BY <2>1, <2>4
    <3>2. n # k
      BY <2>2, <3>1
    <3> QED
      BY <1>1, <2>1, <2>3, <2>4, <3>1, <3>2 DEF FreshInv
  <2> QED
    BY <1>1, <2>1, <2>2, <2>3, <2>4 DEF FreshInv
<1> QED
  <2>1. \/ ExchangeSucceeds \/ TakeAnswer
        \/ /\ delivered' = delivered /\ accepted' = accepted
           /\ \A s \in Sessions : answers'[s] \in {answers[s], 0}
    BY DEF RtcNext, Controller, Exchange, Worker, Offer, EndSession,
           ExchangeFails, NextOutbound, NoAnswerToTake, rtcVars, hookVars
  <2> QED
    BY <1>2, <1>3, <1>4, <2>1

(* AnswerInv is inductive. *)
LEMMA AnswerInvHolds == Spec => []AnswerInv
<1>1. AnswerInv /\ [Next]_vars => AnswerInv'
  BY RtcSteps, RtcTypesStay, WorkStays, FreshStays DEF AnswerInv
<1> QED
  BY AnswerInitInv, <1>1, PTL DEF Spec

(***************************************************************************)
(* hooks.rs:180-189: every buffered answer has a work item to take it.     *)
(***************************************************************************)
THEOREM AnswersHaveWork == Spec => []NoOrphanAnswer
<1>1. AnswerInv => NoOrphanAnswer
  BY DEF AnswerInv
<1> QED
  BY <1>1, AnswerInvHolds, PTL

(***************************************************************************)
(* hooks.rs:218-261: an answer is pushed to an open session, to the last   *)
(* offer accepted on it, and once.                                         *)
(***************************************************************************)
THEOREM AnswersAreFresh == Spec => OnlyFreshAnswers
<1>1. ASSUME AnswerInv, [Next]_vars
      PROVE  [delivered' # delivered => PushesFreshAnswer]_rtcVars
  <2> SUFFICES ASSUME delivered' # delivered PROVE PushesFreshAnswer
    OBVIOUS
  <2> USE DEF AnswerInv, RtcTypes
  <2> DEFINE k == answers[inHand]
  <2>1. TakeAnswer
    BY <1>1, RtcSteps DEF RtcNext, Controller, Exchange, Worker, Offer,
       EndSession, ExchangeFails, ExchangeSucceeds, NextOutbound,
       NoAnswerToTake, rtcVars
  <2>2. /\ inHand \in Sessions /\ k \in Nat /\ k # 0
        /\ delivered' = Append(delivered, k)
    BY <1>1, <2>1 DEF TakeAnswer
  <2>3. inHand \in open /\ k = accepted[inHand] /\ ~Contains(delivered, k)
    BY <1>1, <2>2 DEF NoOrphanAnswer, FreshInv
  <2> HIDE DEF k
  <2>4. delivered'[Len(delivered')] = k
    BY <1>1, <2>2, AppendProperties
  <2> QED
    BY <2>3, <2>4 DEF PushesFreshAnswer
<1> QED
  BY <1>1, AnswerInvHolds, PTL DEF OnlyFreshAnswers, Spec
-----------------------------------------------------------------------------
(***************************************************************************)
(* The bounds: each offer puts at most one work item into the channel, and *)
(* a stream is only allocated if there is room for it.                     *)
(***************************************************************************)
OffersCounted ==
  /\ offers <= MaxOffers
  /\ Len(outbound) + (IF exchanging # None THEN 1 ELSE 0) <= offers

BoundInv ==
  /\ OffersCounted
  /\ answers \in [Sessions -> 0 .. MaxOffers]
  /\ accepted \in [Sessions -> 0 .. MaxOffers]
  /\ delivered \in Seq(1 .. MaxOffers)
  /\ open \in SUBSET Sessions
  /\ allocated \in 0 .. MaxVideo

LEMMA InitBoundInv == Init => BoundInv
<1> SUFFICES ASSUME Init PROVE BoundInv
  OBVIOUS
<1> USE DEF Init, RtcInit, AvInit
<1>1. OffersCounted
  BY DEF OffersCounted
<1> QED
  BY <1>1 DEF BoundInv

LEMMA RtcBoundStays ==
  ASSUME RtcTypes, BoundInv, RtcNext, UNCHANGED allocated
  PROVE  BoundInv'
<1> USE DEF RtcTypes, BoundInv, OffersCounted, hookVars
<1>0. PICK k \in Nat, m \in Nat :
        k = offers /\ m = Len(outbound) /\ k <= MaxOffers /\ m <= k
  <2> DEFINE m == Len(outbound)
  <2>1. m \in Nat
    BY LenProperties
  <2>2. offers <= MaxOffers /\ m + (IF exchanging # None THEN 1 ELSE 0) <= offers
    OBVIOUS
  <2> HIDE DEF m
  <2>3. m <= offers
    BY <2>1, <2>2
  <2>4. m = Len(outbound)
    BY DEF m
  <2> QED
    BY <2>1, <2>2, <2>3, <2>4
<1>1. ASSUME NEW s \in Sessions, Offer(s) PROVE BoundInv'
  <2>1. exchanging = None /\ offers < MaxOffers /\ offers' = offers + 1
        /\ UNCHANGED <<answers, outbound, open, accepted, delivered>>
    BY <1>1 DEF Offer, MainThreadFree
  <2>2. OffersCounted'
    BY <1>0, <2>1
  <2> QED
    BY <2>1, <2>2
<1>2. ASSUME NEW s \in Sessions, EndSession(s) PROVE BoundInv'
  BY <1>2 DEF EndSession
<1>3. CASE ExchangeFails
  <2>1. /\ UNCHANGED <<offers, answers, outbound, open, accepted, delivered>>
        /\ exchanging' = None
    BY <1>3 DEF ExchangeFails
  <2>2. OffersCounted'
    BY <1>0, <2>1
  <2> QED
    BY <2>1, <2>2
<1>4. CASE ExchangeSucceeds
  <2>1. /\ exchanging \in Sessions /\ exchanging # None /\ exchanging' = None
        /\ outbound' = Append(outbound, exchanging)
        /\ open' = open \cup {exchanging}
        /\ answers' = [answers EXCEPT ![exchanging] = k]
        /\ accepted' = [accepted EXCEPT ![exchanging] = k]
        /\ UNCHANGED <<offers, delivered>>
    BY <1>0, <1>4 DEF ExchangeSucceeds, Enqueue
  <2>2. Len(outbound') = m + 1
    BY <1>0, <2>1, AppendProperties
  <2>3. OffersCounted'
    BY <1>0, <2>1, <2>2
  <2>4. k \in 0 .. MaxOffers
    BY <1>0
  <2>5. /\ answers' \in [Sessions -> 0 .. MaxOffers]
        /\ accepted' \in [Sessions -> 0 .. MaxOffers]
    BY <2>1, <2>4
  <2> QED
    BY <2>1, <2>3, <2>5
<1>5. CASE NextOutbound
  <2>1. /\ UNCHANGED <<offers, exchanging, answers, open, accepted, delivered>>
        /\ Len(outbound') = m - 1
    BY <1>0, <1>5, HeadTailProperties DEF NextOutbound
  <2>2. OffersCounted'
    BY <1>0, <2>1
  <2> QED
    BY <2>1, <2>2
<1>6. CASE TakeAnswer
  <2>1. PICK n \in 1 .. MaxOffers :
          /\ delivered' \in {delivered, Append(delivered, n)}
          /\ answers' = [answers EXCEPT ![inHand] = 0]
    <3>1. inHand \in Sessions /\ answers[inHand] # 0
      BY <1>6 DEF TakeAnswer
    <3>2. answers[inHand] \in 1 .. MaxOffers
      BY <3>1
    <3> QED
      BY <1>6, <3>2 DEF TakeAnswer
  <2>2. delivered' \in Seq(1 .. MaxOffers)
    <3>1. Append(delivered, n) \in Seq(1 .. MaxOffers)
      BY AppendProperties
    <3> QED
      BY <2>1, <3>1
  <2>3. answers' \in [Sessions -> 0 .. MaxOffers]
    <3> DEFINE T == 0 .. MaxOffers
    <3>1. answers \in [Sessions -> T] /\ 0 \in T
      OBVIOUS
    <3> HIDE DEF T, RtcTypes, BoundInv
    <3>2. answers' \in [Sessions -> T]
      BY <2>1, <3>1
    <3> QED
      BY <3>2 DEF T
  <2>4. UNCHANGED <<outbound, exchanging, offers, open, accepted>>
    BY <1>6 DEF TakeAnswer
  <2> QED
    BY <2>2, <2>3, <2>4
<1>7. CASE NoAnswerToTake
  BY <1>7 DEF NoAnswerToTake
<1> QED
  BY <1>1, <1>2, <1>3, <1>4, <1>5, <1>6, <1>7
     DEF RtcNext, Controller, Exchange, Worker

LEMMA StreamBoundStays ==
  ASSUME SeedInv, BoundInv, StreamStep
  PROVE  BoundInv'
<1>1. UNCHANGED <<answers, outbound, exchanging, offers, open, accepted, delivered>>
  BY DEF StreamStep, rtcVars, hookVars
<1>2. Len(preallocated) \in {0, 1}
  BY DEF SeedInv
<1>3. allocated' \in 0 .. MaxVideo
  BY <1>2 DEF StreamStep, AllocateVideo, DeallocateVideo, HasRoom, BoundInv
<1> QED
  BY <1>1, <1>3 DEF BoundInv, OffersCounted

LEMMA BoundStays ==
  ASSUME RtcTypes, SeedInv, BoundInv, [Next]_vars
  PROVE  BoundInv'
<1>1. CASE RtcStep(RtcNext)
  BY <1>1, RtcBoundStays DEF RtcStep, avVars
<1>2. CASE StreamStep
  BY <1>2, StreamBoundStays
<1>3. CASE UNCHANGED <<rtcVars, allocated>>
  BY <1>3 DEF rtcVars, hookVars, BoundInv, OffersCounted
<1> QED
  BY <1>1, <1>2, <1>3
     DEF Next, BridgeStep, SendSeed, SeedDriverStep, SeedDriver, vars, avVars

(***************************************************************************)
(* The endpoint keeps its types: the channel holds no more work items than *)
(* there were offers, and no more streams are allocated than there is room *)
(* for, whoever allocates them.                                            *)
(***************************************************************************)
THEOREM MediaTypes == Spec => []TypeOK
<1>1. Init => SeedInv
  BY DEF Init, AvInit, SeedInv
<1>2. LifeInv /\ RtcTypes /\ SeedInv /\ BoundInv /\ AskedInv => TypeOK
  <2> SUFFICES ASSUME LifeInv, RtcTypes, SeedInv, BoundInv, AskedInv
               PROVE  TypeOK
    OBVIOUS
  <2>1. asked \in [1 .. MaxOffers -> Names \cup {None}]
    BY DEF AskedInv
  <2>2. seedQueue \in Seq(Cameras) /\ preallocated \in Seq(Cameras)
    <3>1. <<>> \in Seq(Cameras) /\ (owner # None => <<owner>> \in Seq(Cameras))
      BY DEF LifeInv, LifeTypeOK
    <3> QED
      BY <3>1 DEF SeedInv
  <2>3. Len(outbound) <= MaxOffers /\ offers \in 0 .. MaxOffers
    <3>1. PICK k \in Nat, m \in Nat : k = offers /\ m = Len(outbound)
      BY LenProperties DEF RtcTypes
    <3>2. m <= k /\ k <= MaxOffers
      BY <3>1 DEF BoundInv, OffersCounted
    <3> QED
      BY <3>1, <3>2
  <2>4. RtcTypeOK
    BY <2>1, <2>3 DEF RtcTypeOK, RtcTypes, BoundInv
  <2>5. AvTypeOK
    BY <2>2 DEF AvTypeOK, BoundInv
  <2> QED
    BY <2>4, <2>5 DEF TypeOK, LifeInv
<1>3. AnswerInv => RtcTypes
  BY DEF AnswerInv
<1> QED
  BY <1>1, <1>2, <1>3, InitBoundInv, SlotInv, AnswerInvHolds, AskedAlways,
     SeedInvStays, BoundStays, PTL DEF Spec
=============================================================================
