----------------------------- MODULE TtsdProofs -----------------------------
(***************************************************************************)
(* Proofs about Ttsd, for any apps and any number of requests and          *)
(* connections: its types, and that whatever the synthesizer speaks can    *)
(* still be stopped; and, with one session, that the words an app is told  *)
(* have begun have begun, and begin once.                                  *)
(***************************************************************************)
EXTENDS Ttsd, TLAPS

\* The variables the operations on requests write, in their types.
MemosTyped ==
    /\ requestMemo \in [Ids -> Memo \cup {NoMemo}]
    /\ appRequestMemo \in [Apps -> IdOrNone]
    /\ engine \in Engine

\* The synthesizer numbers requests upwards, and is done with what it has
\* posted the termination of: so no late event is taken for one of a request
\* that is spoken now.
Numbered ==
    /\ \A id \in Unfinished : id < engine.next
    /\ \A i \in 1 .. Len(posted) :
          /\ posted[i].id < engine.next
          /\ posted[i].event \in Terminations => posted[i].id \notin Unfinished

IInv == TypeOK /\ NoOrphanSpeech /\ Numbered

-----------------------------------------------------------------------------
LEMMA IdFacts == NoReq \notin Ids /\ Ids \subseteq Nat
BY TtsdAssumption DEF Ids

LEMMA UnfinishedIds ==
    ASSUME MemosTyped
    PROVE  Unfinished \in SUBSET Ids
BY IdFacts DEF MemosTyped, Engine, Unfinished, IdOrNone

\* Stopping requests changes nothing but what is asked to stop.
LEMMA StoppedFacts ==
    ASSUME MemosTyped, NEW ids
    PROVE  /\ Stopped(ids) \in Engine
           /\ Stopped(ids).session = engine.session
           /\ Stopped(ids).next = engine.next
           /\ Stopped(ids).waiting = engine.waiting
           /\ Stopped(ids).speaking = engine.speaking
           /\ Stopped(ids).stopping =
                engine.stopping \cup {id \in ids : /\ id \in Unfinished
                                                   /\ requestMemo[id].session = engine.session}
<1> DEFINE asked == {id \in ids : id \in Unfinished /\ requestMemo[id].session = engine.session}
<1>1. asked \subseteq Ids
  BY UnfinishedIds
<1>2. Stopped(ids) = [engine EXCEPT !.stopping = @ \cup asked]
  BY DEF Stopped
<1> HIDE DEF asked
<1>3. engine \in Engine
  BY DEF MemosTyped
<1>4. [engine EXCEPT !.stopping = @ \cup asked] \in Engine
  BY <1>1, <1>3 DEF Engine
<1>5. Stopped(ids).stopping = engine.stopping \cup asked
  BY <1>2, <1>3 DEF Engine
<1> QED
  BY <1>2, <1>3, <1>4, <1>5 DEF Engine, asked

\* Once speak has stopped what its app had, nothing the synthesizer goes on
\* with is that app's.
LEMMA Silenced ==
    ASSUME MemosTyped, NoOrphanSpeech, NEW a \in Apps,
           NEW id \in Unfinished \ StoppedOf(a).stopping
    PROVE  requestMemo[id].app # a /\ id \notin engine.stopping
<1>1. id \in Unfinished \ engine.stopping
  BY StoppedFacts DEF StoppedOf
<1>2. /\ requestMemo[id] # NoMemo
      /\ requestMemo[id].session = engine.session
      /\ appRequestMemo[requestMemo[id].app] = id
  BY <1>1 DEF NoOrphanSpeech
<1>3. id \in Ids /\ id # NoReq
  BY <1>1, UnfinishedIds, IdFacts
<1>4. ASSUME requestMemo[id].app = a PROVE FALSE
  <2>1. appRequestMemo[a] = id
    BY <1>2, <1>4
  <2>2. LiveMemo(a) # NoMemo
    BY <2>1, <1>2, <1>3 DEF LiveMemo
  <2>3. StoppedOf(a) = Stopped({id})
    BY <2>1, <2>2 DEF StoppedOf
  <2>4. id \in Stopped({id}).stopping
    BY <1>1, <1>2, StoppedFacts
  <2> QED
    BY <2>3, <2>4
<1> QED
  BY <1>1, <1>4

\* A new request for an app that has no other voice.
LEMMA RequestMade ==
    ASSUME MemosTyped, NoOrphanSpeech, Numbered, CanRequest,
           posted \in Seq(Posted),
           NEW a \in Apps, NEW m \in IdOrNone, NEW e \in Engine,
           e.session = engine.session, e.next = engine.next,
           e.waiting = engine.waiting, e.speaking = engine.speaking,
           \A id \in Unfinished \ e.stopping :
               requestMemo[id].app # a /\ id \notin engine.stopping,
           engine' = Requested(e, engine.next),
           requestMemo' = [requestMemo EXCEPT ![engine.next] = MemoFor(a, m)],
           appRequestMemo' = [appRequestMemo EXCEPT ![a] = engine.next],
           posted' = posted
    PROVE  MemosTyped' /\ NoOrphanSpeech' /\ Numbered'
<1> DEFINE n == engine.next
           memo == MemoFor(a, m)
<1>1. n \in Ids /\ engine.session \in 1 .. MaxSessions /\ n \in Nat /\ n # NoReq
  <2>1. n \in 0 .. MaxRequests /\ engine.session \in 0 .. MaxSessions
    BY DEF MemosTyped, Engine
  <2>2. n \in Ids /\ n \in Nat /\ engine.session \in 1 .. MaxSessions
    BY <2>1, TtsdAssumption DEF CanRequest, Ids
  <2> QED
    BY <2>2, IdFacts
<1>2. memo \in Memo /\ memo # NoMemo /\ memo.app = a /\ memo.session = engine.session
  <2>1. memo \in Memo /\ memo.app = a /\ memo.session = engine.session
    BY <1>1 DEF MemoFor, Memo
  <2> QED
    BY <2>1, NoMemoAssumption
<1>3. /\ engine'.session = engine.session
      /\ engine'.next = n + 1
      /\ engine'.waiting = engine.waiting \cup {n}
      /\ engine'.speaking = engine.speaking
      /\ engine'.stopping = e.stopping
  BY DEF Requested, Engine
<1>4. engine' \in Engine
  <2>1. n + 1 \in 0 .. MaxRequests
    BY <1>1, TtsdAssumption DEF Ids
  <2> QED
    BY <1>1, <2>1 DEF Requested, Engine
<1>5. MemosTyped'
  BY <1>1, <1>2, <1>4 DEF MemosTyped, IdOrNone
<1>6. Unfinished' = Unfinished \cup {n}
  BY <1>1, <1>3 DEF Unfinished
<1>7. n \notin Unfinished
  BY <1>1 DEF Numbered
<1>8. NoOrphanSpeech'
  <2> SUFFICES ASSUME NEW id \in Unfinished' \ engine'.stopping
               PROVE  /\ requestMemo'[id] # NoMemo
                      /\ requestMemo'[id].session = engine'.session
                      /\ appRequestMemo'[requestMemo'[id].app] = id
    BY DEF NoOrphanSpeech
  <2>1. CASE id = n
    <3>1. requestMemo'[n] = memo
      BY <1>1 DEF MemosTyped
    <3>2. appRequestMemo'[a] = n
      BY DEF MemosTyped
    <3> QED
      BY <2>1, <3>1, <3>2, <1>2, <1>3
  <2>2. CASE id # n
    <3>1. id \in Unfinished \ e.stopping
      BY <1>3, <1>6, <2>2
    <3>2. requestMemo[id].app # a /\ id \in Unfinished \ engine.stopping
      BY <3>1
    <3>3. requestMemo'[id] = requestMemo[id]
      BY <2>2, <3>1, UnfinishedIds DEF MemosTyped
    <3>4. /\ requestMemo[id] # NoMemo
          /\ requestMemo[id].session = engine.session
          /\ appRequestMemo[requestMemo[id].app] = id
      BY <3>2 DEF NoOrphanSpeech
    <3>5. requestMemo[id] \in Memo
      BY <3>1, <3>4, UnfinishedIds DEF MemosTyped
    <3>6. requestMemo[id].app \in Apps
      BY <3>5 DEF Memo
    <3>7. appRequestMemo'[requestMemo[id].app] = id
      BY <3>2, <3>4, <3>6 DEF MemosTyped
    <3> QED
      BY <3>3, <3>4, <3>7, <1>3
  <2> QED
    BY <2>1, <2>2
<1>9. Numbered'
  <2>1. \A id \in Unfinished' : id < engine'.next
    <3> TAKE id \in Unfinished'
    <3>1. CASE id = n
      BY <3>1, <1>1, <1>3
    <3>2. CASE id \in Unfinished
      <4>1. id < n /\ id \in Nat
        BY <3>2, UnfinishedIds, IdFacts DEF Numbered
      <4> QED
        BY <4>1, <1>1, <1>3
    <3> QED
      BY <3>1, <3>2, <1>6
  <2>2. ASSUME NEW i \in 1 .. Len(posted')
        PROVE  /\ posted'[i].id < engine'.next
               /\ posted'[i].event \in Terminations => posted'[i].id \notin Unfinished'
    <3>1. /\ posted[i].id < n
          /\ posted[i].event \in Terminations => posted[i].id \notin Unfinished
      BY DEF Numbered
    <3>2. posted[i] \in Posted
      OBVIOUS
    <3>3. posted[i].id \in Nat
      BY <3>2, IdFacts DEF Posted
    <3>4. posted[i].id # n /\ posted[i].id < n + 1
      BY <3>1, <3>3, <1>1
    <3> QED
      BY <3>1, <3>4, <1>1, <1>3, <1>6
  <2> QED
    BY <2>1, <2>2 DEF Numbered
<1> QED
  BY <1>5, <1>8, <1>9

\* Stopping requests leaves the numbering alone.
LEMMA StoppedNumbered ==
    ASSUME MemosTyped, Numbered, NEW ids, engine' = Stopped(ids), posted' = posted
    PROVE  Unfinished' = Unfinished /\ Numbered'
<1>1. Unfinished' = Unfinished
  BY StoppedFacts DEF Unfinished
<1>2. engine'.next = engine.next
  BY StoppedFacts
<1> QED
  BY <1>1, <1>2 DEF Numbered

\* An app that stops what it has may lose its entry or have it changed.
LEMMA AppStopped ==
    ASSUME MemosTyped, NoOrphanSpeech, Numbered, NEW a \in Apps,
           engine' = StoppedOf(a), posted' = posted, MemosTyped',
           \A id \in Unfinished \ StoppedOf(a).stopping : requestMemo'[id] = requestMemo[id],
           \A b \in Apps \ {a} : appRequestMemo'[b] = appRequestMemo[b]
    PROVE  NoOrphanSpeech' /\ Numbered'
<1>1. Unfinished' = Unfinished /\ Numbered' /\ engine'.session = engine.session
  <2>1. CASE LiveMemo(a) = NoMemo
    BY <2>1 DEF StoppedOf, Unfinished, Numbered
  <2>2. CASE LiveMemo(a) # NoMemo
    <3>1. engine' = Stopped({appRequestMemo[a]})
      BY <2>2 DEF StoppedOf
    <3> QED
      BY <3>1, StoppedNumbered, StoppedFacts
  <2> QED
    BY <2>1, <2>2
<1>2. NoOrphanSpeech'
  <2> SUFFICES ASSUME NEW id \in Unfinished' \ engine'.stopping
               PROVE  /\ requestMemo'[id] # NoMemo
                      /\ requestMemo'[id].session = engine'.session
                      /\ appRequestMemo'[requestMemo'[id].app] = id
    BY DEF NoOrphanSpeech
  <2>1. id \in Unfinished \ StoppedOf(a).stopping
    BY <1>1
  <2>2. requestMemo[id].app # a /\ id \in Unfinished \ engine.stopping
    BY <2>1, Silenced
  <2>3. /\ requestMemo[id] # NoMemo
        /\ requestMemo[id].session = engine.session
        /\ appRequestMemo[requestMemo[id].app] = id
    BY <2>2 DEF NoOrphanSpeech
  <2>4. requestMemo[id] \in Memo
    BY <2>2, <2>3, UnfinishedIds DEF MemosTyped
  <2>5. requestMemo[id].app \in Apps \ {a}
    BY <2>2, <2>4 DEF Memo
  <2> QED
    BY <1>1, <2>1, <2>3, <2>5
<1> QED
  BY <1>1, <1>2

LEMMA KnownAsTyped ==
    ASSUME MemosTyped, NEW id \in Ids, requestMemo[id] # NoMemo
    PROVE  KnownAs(id) \in Ids
<1>1. requestMemo[id] \in Memo
  BY DEF MemosTyped
<1>2. requestMemo[id].masqueradeId \in IdOrNone
  BY <1>1 DEF Memo
<1> QED
  BY <1>2 DEF KnownAs, IdOrNone

LEMMA PauseSafe ==
    ASSUME MemosTyped, NoOrphanSpeech, Numbered, NEW a \in Apps,
           Pause(a), posted' = posted
    PROVE  MemosTyped' /\ NoOrphanSpeech' /\ Numbered'
<1>1. CASE LiveMemo(a) = NoMemo
  <2>1. UNCHANGED <<requestMemo, appRequestMemo, engine>>
    BY <1>1 DEF Pause
  <2> QED
    BY <2>1 DEF MemosTyped, NoOrphanSpeech, Numbered, Unfinished
<1>2. CASE LiveMemo(a) # NoMemo
  <2> DEFINE id == appRequestMemo[a]
  <2>1. id \in Ids /\ requestMemo[id] # NoMemo
    BY <1>2 DEF LiveMemo, MemosTyped, IdOrNone
  <2>2. /\ requestMemo' = [requestMemo EXCEPT ![id].eventMasked = TRUE]
        /\ appRequestMemo' = [appRequestMemo EXCEPT ![a] = KnownAs(id)]
        /\ engine' = Stopped({id})
    BY <1>2 DEF Pause
  <2>3. engine' = StoppedOf(a)
    BY <1>2, <2>2 DEF StoppedOf
  <2>4. requestMemo[id] \in Memo
    BY <2>1 DEF MemosTyped
  <2>5. [requestMemo[id] EXCEPT !.eventMasked = TRUE] \in Memo
    BY <2>4 DEF Memo
  <2>6. requestMemo' \in [Ids -> Memo \cup {NoMemo}]
    BY <2>1, <2>2, <2>5 DEF MemosTyped
  <2>7. appRequestMemo' \in [Apps -> IdOrNone]
    BY <2>1, <2>2, KnownAsTyped DEF MemosTyped, IdOrNone
  <2>8. MemosTyped'
    BY <2>2, <2>6, <2>7, StoppedFacts DEF MemosTyped
  <2>9. ASSUME NEW x \in Unfinished \ StoppedOf(a).stopping
        PROVE  requestMemo'[x] = requestMemo[x]
    <3>1. x \in Unfinished \ engine.stopping /\ x \in Ids
      BY Silenced, UnfinishedIds
    <3>2. requestMemo[x].session = engine.session
      BY <3>1 DEF NoOrphanSpeech
    <3>3. x \notin Stopped({id}).stopping
      BY <2>2, <2>3
    <3>4. x # id
      BY <3>1, <3>2, <3>3, StoppedFacts
    <3> QED
      BY <2>2, <3>1, <3>4 DEF MemosTyped
  <2>10. \A b \in Apps \ {a} : appRequestMemo'[b] = appRequestMemo[b]
    BY <2>2 DEF MemosTyped
  <2> HIDE DEF id
  <2> QED
    BY <2>3, <2>8, <2>9, <2>10, AppStopped
<1> QED
  BY <1>1, <1>2

LEMMA ResumeSafe ==
    ASSUME MemosTyped, NoOrphanSpeech, Numbered, NEW a \in Apps,
           Resume(a), posted \in Seq(Posted), posted' = posted
    PROVE  MemosTyped' /\ NoOrphanSpeech' /\ Numbered'
<1>1. CASE appRequestMemo[a] = NoReq \/ LiveMemo(a) # NoMemo
  <2>1. UNCHANGED <<requestMemo, appRequestMemo, engine>>
    BY <1>1 DEF Resume
  <2> QED
    BY <2>1 DEF MemosTyped, NoOrphanSpeech, Numbered, Unfinished
<1>2. CASE ~(appRequestMemo[a] = NoReq \/ LiveMemo(a) # NoMemo)
  <2>1. Masquerade(a)
    BY <1>2 DEF Resume
  <2>2. StoppedOf(a) = engine
    BY <1>2 DEF StoppedOf
  <2>3. \A id \in Unfinished \ engine.stopping :
            requestMemo[id].app # a /\ id \notin engine.stopping
    BY <2>2, Silenced
  <2>4. appRequestMemo[a] \in IdOrNone /\ engine \in Engine
    BY DEF MemosTyped
  <2>5. /\ CanRequest
        /\ engine' = Requested(engine, engine.next)
        /\ requestMemo' = [requestMemo EXCEPT ![engine.next] = MemoFor(a, appRequestMemo[a])]
        /\ appRequestMemo' = [appRequestMemo EXCEPT ![a] = engine.next]
    BY <2>1 DEF Masquerade
  <2> QED
    BY <2>3, <2>4, <2>5, RequestMade
<1> QED
  BY <1>1, <1>2

LEMMA TellTyped ==
    ASSUME TypeOK, NEW a \in Apps, NEW id \in Ids,
           NEW event \in {"asked", "start"} \cup Terminations
    PROVE  Tell(a, id, event) \in [Apps -> [Ids -> SUBSET ({"asked", "start"} \cup Terminations)]]
<1> DEFINE Heard == SUBSET ({"asked", "start"} \cup Terminations)
<1>1. told \in [Apps -> [Ids -> Heard]]
  BY DEF TypeOK
<1>2. told[a][id] \cup {event} \in Heard
  BY <1>1
<1> HIDE DEF Heard
<1>3. [told EXCEPT ![a][id] = @ \cup {event}] \in [Apps -> [Ids -> Heard]]
  BY <1>1, <1>2
<1> QED
  BY <1>3 DEF Tell, Heard

LEMMA CancelTyped ==
    ASSUME TypeOK, NEW a \in Apps
    PROVE  CancelTold(a) \in [Apps -> [Ids -> SUBSET ({"asked", "start"} \cup Terminations)]]
<1>1. CASE appRequestMemo[a] # NoReq /\ LiveMemo(a) = NoMemo
  <2>1. appRequestMemo[a] \in Ids
    BY <1>1 DEF TypeOK, IdOrNone
  <2> QED
    BY <1>1, <2>1, TellTyped DEF CancelTold, Terminations
<1>2. CASE ~(appRequestMemo[a] # NoReq /\ LiveMemo(a) = NoMemo)
  BY <1>2 DEF CancelTold, TypeOK
<1> QED
  BY <1>1, <1>2

LEMMA TypedMemos == TypeOK => MemosTyped /\ posted \in Seq(Posted)
BY DEF TypeOK, MemosTyped

-----------------------------------------------------------------------------
(* The steps *)

LEMMA SpeakStep ==
    ASSUME IInv, NEW a \in Apps, Speak(a)
    PROVE  IInv'
<1>1. TypeOK /\ MemosTyped /\ posted \in Seq(Posted) /\ NoOrphanSpeech /\ Numbered
  BY TypedMemos DEF IInv
<1>2. /\ CanRequest
      /\ engine' = Requested(StoppedOf(a), engine.next)
      /\ requestMemo' = [requestMemo EXCEPT ![engine.next] = MemoFor(a, NoReq)]
      /\ appRequestMemo' = [appRequestMemo EXCEPT ![a] = engine.next]
      /\ told' = [CancelTold(a) EXCEPT ![a][engine.next] = {"asked"}]
      /\ UNCHANGED <<playingReqId, pausedReqIdOnAwaken, playingState, posted, delayed>>
  BY DEF Speak
<1>3. /\ StoppedOf(a) \in Engine
      /\ StoppedOf(a).session = engine.session
      /\ StoppedOf(a).next = engine.next
      /\ StoppedOf(a).waiting = engine.waiting
      /\ StoppedOf(a).speaking = engine.speaking
  BY <1>1, StoppedFacts DEF StoppedOf, MemosTyped
<1>4. NoReq \in IdOrNone
  BY DEF IdOrNone
<1>5. MemosTyped' /\ NoOrphanSpeech' /\ Numbered'
  BY <1>1, <1>2, <1>3, <1>4, Silenced, RequestMade
<1>6. told' \in [Apps -> [Ids -> SUBSET ({"asked", "start"} \cup Terminations)]]
  BY <1>1, <1>2, CancelTyped
<1> QED
  BY <1>1, <1>2, <1>5, <1>6 DEF IInv, TypeOK, MemosTyped

LEMMA StopStep ==
    ASSUME IInv, NEW a \in Apps, Stop(a)
    PROVE  IInv'
<1>1. TypeOK /\ MemosTyped /\ NoOrphanSpeech /\ Numbered
  BY TypedMemos DEF IInv
<1>2. /\ engine' = StoppedOf(a)
      /\ appRequestMemo' = [appRequestMemo EXCEPT
                              ![a] = IF LiveMemo(a) = NoMemo THEN @ ELSE NoReq]
      /\ told' = CancelTold(a)
      /\ UNCHANGED <<requestMemo, playingReqId, pausedReqIdOnAwaken,
                     playingState, posted, delayed>>
  BY DEF Stop
<1>3. engine' \in Engine
  BY <1>1, <1>2, StoppedFacts DEF StoppedOf, MemosTyped
<1>4. MemosTyped'
  BY <1>1, <1>2, <1>3 DEF MemosTyped, IdOrNone
<1>5. \A b \in Apps \ {a} : appRequestMemo'[b] = appRequestMemo[b]
  BY <1>1, <1>2 DEF MemosTyped
<1>6. NoOrphanSpeech' /\ Numbered'
  BY <1>1, <1>2, <1>4, <1>5, AppStopped
<1>7. told' \in [Apps -> [Ids -> SUBSET ({"asked", "start"} \cup Terminations)]]
  BY <1>1, <1>2, CancelTyped
<1> QED
  BY <1>1, <1>2, <1>4, <1>6, <1>7 DEF IInv, TypeOK, MemosTyped

LEMMA OsStep ==
    ASSUME IInv, NEW a \in Apps, PauseByOs(a) \/ ResumeByOs(a)
    PROVE  IInv'
<1>1. TypeOK /\ MemosTyped /\ posted \in Seq(Posted) /\ NoOrphanSpeech /\ Numbered
  BY TypedMemos DEF IInv
<1>2. /\ Pause(a) \/ Resume(a)
      /\ UNCHANGED <<playingReqId, pausedReqIdOnAwaken, playingState, posted, delayed, told>>
  BY DEF PauseByOs, ResumeByOs
<1>3. MemosTyped' /\ NoOrphanSpeech' /\ Numbered'
  BY <1>1, <1>2, PauseSafe, ResumeSafe
<1> QED
  BY <1>1, <1>2, <1>3 DEF IInv, TypeOK, MemosTyped

LEMMA ResetStep ==
    ASSUME IInv, Reset
    PROVE  IInv'
<1>1. TypeOK /\ MemosTyped /\ NoOrphanSpeech /\ Numbered
  BY TypedMemos DEF IInv
<1> DEFINE mine == {id \in Ids : requestMemo[id] # NoMemo}
<1>2. /\ engine' = Stopped(mine)
      /\ requestMemo' = [id \in Ids |-> NoMemo]
      /\ appRequestMemo' = [a \in Apps |-> NoReq]
      /\ UNCHANGED <<playingReqId, pausedReqIdOnAwaken, playingState, posted, delayed, told>>
  BY DEF Reset
<1>3. MemosTyped'
  BY <1>1, <1>2, StoppedFacts DEF MemosTyped, IdOrNone
<1>4. Unfinished' = Unfinished /\ Numbered'
  BY <1>1, <1>2, StoppedNumbered
<1>5. Unfinished' \ engine'.stopping = {}
  <2> SUFFICES ASSUME NEW id \in Unfinished \ engine'.stopping PROVE FALSE
    BY <1>4
  <2>1. id \in Unfinished \ engine.stopping /\ id \in Ids
    BY <1>1, <1>2, StoppedFacts, UnfinishedIds
  <2>2. requestMemo[id] # NoMemo /\ requestMemo[id].session = engine.session
    BY <1>1, <2>1 DEF NoOrphanSpeech
  <2>3. id \in engine'.stopping
    BY <1>1, <1>2, <2>1, <2>2, StoppedFacts
  <2> QED
    BY <2>3
<1>6. NoOrphanSpeech'
  BY <1>5 DEF NoOrphanSpeech
<1> QED
  BY <1>1, <1>2, <1>3, <1>4, <1>6 DEF IInv, TypeOK, MemosTyped

LEMMA VoiceStep ==
    ASSUME IInv, VoiceComing \/ \E a \in Apps \cup {Nobody} : ResetAwaken(a)
    PROVE  IInv'
<1>1. TypeOK /\ MemosTyped /\ posted \in Seq(Posted) /\ NoOrphanSpeech /\ Numbered
  BY TypedMemos DEF IInv
<1>2. /\ pausedReqIdOnAwaken' \in {playingReqId, NoReq}
      /\ \/ UNCHANGED <<requestMemo, appRequestMemo, engine>>
         \/ \E a \in Apps : Pause(a) \/ Resume(a)
      /\ UNCHANGED <<playingReqId, playingState, posted, delayed, told>>
  <2>1. CASE VoiceComing
    <3>1. CASE playingReqId = NoReq \/ requestMemo[playingReqId] = NoMemo
      BY <2>1, <3>1 DEF VoiceComing
    <3>2. CASE ~(playingReqId = NoReq \/ requestMemo[playingReqId] = NoMemo)
      <4>1. playingReqId \in Ids
        BY <1>1, <3>2 DEF TypeOK, IdOrNone
      <4>2. requestMemo[playingReqId] \in Memo
        BY <1>1, <3>2, <4>1 DEF MemosTyped
      <4>3. requestMemo[playingReqId].app \in Apps
        BY <4>2 DEF Memo
      <4> QED
        BY <2>1, <3>2, <4>3 DEF VoiceComing
    <3> QED
      BY <3>1, <3>2
  <2>2. ASSUME NEW a \in Apps \cup {Nobody}, ResetAwaken(a)
        PROVE <1>2!1 /\ <1>2!2 /\ <1>2!3
    BY <2>2 DEF ResetAwaken, Interrupted
  <2> QED
    BY <2>1, <2>2
<1>3. MemosTyped' /\ NoOrphanSpeech' /\ Numbered'
  <2>1. CASE UNCHANGED <<requestMemo, appRequestMemo, engine>>
    BY <1>1, <1>2, <2>1 DEF MemosTyped, NoOrphanSpeech, Numbered, Unfinished
  <2>2. CASE \E a \in Apps : Pause(a) \/ Resume(a)
    BY <1>1, <1>2, <2>2, PauseSafe, ResumeSafe
  <2> QED
    BY <1>2, <2>1, <2>2
<1>4. pausedReqIdOnAwaken' \in IdOrNone
  BY <1>1, <1>2 DEF TypeOK, IdOrNone
<1> QED
  BY <1>1, <1>2, <1>3, <1>4 DEF IInv, TypeOK, MemosTyped

LEMMA ConnectStep ==
    ASSUME IInv, Connect
    PROVE  IInv'
<1>1. TypeOK
  BY DEF IInv
<1>2. /\ engine' = [session |-> engine.session + 1, next |-> 0, waiting |-> {},
                    speaking |-> NoReq, stopping |-> {}]
      /\ posted' = <<>>
      /\ UNCHANGED <<requestMemo, appRequestMemo, playingReqId,
                     pausedReqIdOnAwaken, playingState, delayed, told>>
  BY DEF Connect, ServiceVars
<1>3. engine.session + 1 \in 0 .. MaxSessions
  <2>1. engine.session \in 0 .. MaxSessions
    BY <1>1 DEF TypeOK, Engine
  <2> QED
    BY <2>1, TtsdAssumption DEF Connect
<1>4. engine' \in Engine
  BY <1>2, <1>3, TtsdAssumption DEF Engine, IdOrNone
<1>5. Unfinished' = {}
  BY <1>2 DEF Unfinished
<1>6. NoOrphanSpeech' /\ Numbered'
  BY <1>2, <1>5 DEF NoOrphanSpeech, Numbered
<1> QED
  BY <1>1, <1>2, <1>4, <1>6 DEF IInv, TypeOK

\* The synthesizer posts an event of a request it numbered and, if the event
\* ends the request, no longer has.
LEMMA PostNumbered ==
    ASSUME IInv, NEW id \in Unfinished, NEW event \in {"start"} \cup Terminations,
           Post(event, id), engine'.next = engine.next,
           Unfinished' \subseteq Unfinished,
           event \in Terminations => id \notin Unfinished'
    PROVE  posted' \in Seq(Posted) /\ Numbered'
<1> DEFINE p == [event |-> event, id |-> id]
<1>1. posted \in Seq(Posted) /\ MemosTyped /\ Numbered
  BY TypedMemos DEF IInv
<1>2. p \in Posted
  BY <1>1, UnfinishedIds DEF Posted
<1>3. posted' = Append(posted, p)
  BY DEF Post
<1>4. p.event = event /\ p.id = id
  OBVIOUS
<1> HIDE DEF p
<1>5. posted' \in Seq(Posted) /\ Len(posted') = Len(posted) + 1 /\ Len(posted) \in Nat
  BY <1>1, <1>2, <1>3
<1>6. ASSUME NEW i \in 1 .. Len(posted')
      PROVE  /\ posted'[i].id < engine'.next
             /\ posted'[i].event \in Terminations => posted'[i].id \notin Unfinished'
  <2>1. CASE i = Len(posted) + 1
    <3>1. posted'[i] = p
      BY <1>1, <1>2, <1>3, <1>5, <2>1
    <3> QED
      BY <3>1, <1>1, <1>4 DEF Numbered
  <2>2. CASE i # Len(posted) + 1
    <3>1. i \in 1 .. Len(posted)
      BY <1>5, <2>2
    <3>2. posted'[i] = posted[i]
      BY <1>1, <1>2, <1>3, <3>1
    <3> QED
      BY <1>1, <3>1, <3>2 DEF Numbered
  <2> QED
    BY <2>1, <2>2
<1>7. \A x \in Unfinished' : x < engine'.next
  BY <1>1 DEF Numbered
<1> QED
  BY <1>5, <1>6, <1>7 DEF Numbered

LEMMA EngineStep ==
    ASSUME IInv, EngineNext
    PROVE  IInv'
<1>1. TypeOK /\ MemosTyped /\ NoOrphanSpeech /\ engine \in Engine
  BY TypedMemos DEF IInv, MemosTyped
<1>2. ServiceVars' = ServiceVars
  BY DEF EngineNext, EngineStarts, EngineFinishes
<1>3. ASSUME engine' \in Engine, engine'.session = engine.session,
             posted' \in Seq(Posted), Numbered',
             Unfinished' \ engine'.stopping \subseteq Unfinished \ engine.stopping
      PROVE  IInv'
  <2>1. NoOrphanSpeech'
    BY <1>1, <1>2, <1>3 DEF NoOrphanSpeech, ServiceVars
  <2>2. TypeOK'
    BY <1>1, <1>2, <1>3 DEF TypeOK, ServiceVars
  <2> QED
    BY <1>3, <2>1, <2>2 DEF IInv
<1>4. ASSUME NEW id \in Ids, EngineStarts(id)
      PROVE  IInv'
  <2>1. /\ engine.speaking = NoReq /\ id \in engine.waiting
        /\ engine' = [engine EXCEPT !.waiting = @ \ {id}, !.speaking = id]
        /\ Post("start", id)
    BY <1>4 DEF EngineStarts
  <2>2. /\ engine' \in Engine
        /\ engine'.session = engine.session /\ engine'.next = engine.next
        /\ engine'.waiting = engine.waiting \ {id} /\ engine'.speaking = id
        /\ engine'.stopping = engine.stopping
    BY <1>1, <2>1 DEF Engine, IdOrNone
  <2>3. Unfinished' = Unfinished /\ id \in Unfinished
    BY <2>1, <2>2, IdFacts DEF Unfinished
  <2>4. "start" \notin Terminations
    BY DEF Terminations
  <2>5. posted' \in Seq(Posted) /\ Numbered'
    BY <2>1, <2>2, <2>3, <2>4, PostNumbered
  <2> QED
    BY <1>3, <2>2, <2>3, <2>5
<1>5. ASSUME NEW id \in Ids, NEW event \in Terminations, EngineFinishes(id, event)
      PROVE  IInv'
  <2>1. id \in Unfinished /\ engine' = Removed(id) /\ Post(event, id)
    BY <1>5 DEF EngineFinishes
  <2>2. /\ engine' \in Engine
        /\ engine'.session = engine.session /\ engine'.next = engine.next
        /\ engine'.waiting = engine.waiting \ {id}
        /\ engine'.speaking = IF engine.speaking = id THEN NoReq ELSE engine.speaking
        /\ engine'.stopping = engine.stopping \ {id}
    BY <1>1, <2>1 DEF Removed, Engine, IdOrNone
  <2>3. Unfinished' = Unfinished \ {id}
    BY <2>2, IdFacts DEF Unfinished
  <2>4. posted' \in Seq(Posted) /\ Numbered'
    BY <2>1, <2>2, <2>3, PostNumbered
  <2> QED
    BY <1>3, <2>2, <2>3, <2>4
<1> QED
  BY <1>4, <1>5 DEF EngineNext

\* The service takes the first of the events.
LEMMA TakeNumbered ==
    ASSUME IInv, posted # <<>>, posted' = Tail(posted), engine' = engine
    PROVE  /\ Head(posted) \in Posted
           /\ Head(posted).event \in Terminations => Head(posted).id \notin Unfinished
           /\ posted' \in Seq(Posted)
           /\ Unfinished' = Unfinished
           /\ Numbered'
<1>1. posted \in Seq(Posted) /\ Numbered
  BY TypedMemos DEF IInv
<1>2. Len(posted) \in Nat /\ Len(posted) >= 1 /\ Head(posted) = posted[1]
  BY <1>1
<1>3. /\ Head(posted) \in Posted
      /\ Head(posted).event \in Terminations => Head(posted).id \notin Unfinished
  BY <1>1, <1>2 DEF Numbered
<1>4. posted' \in Seq(Posted) /\ Len(posted') = Len(posted) - 1
  BY <1>1, <1>2
<1>5. \A i \in 1 .. Len(posted') : i + 1 \in 1 .. Len(posted) /\ posted'[i] = posted[i + 1]
  BY <1>1, <1>2, <1>4
<1>6. Unfinished' = Unfinished
  BY DEF Unfinished
<1>7. Numbered'
  BY <1>1, <1>5, <1>6 DEF Numbered
<1> QED
  BY <1>3, <1>4, <1>6, <1>7

LEMMA StartStep ==
    ASSUME IInv, OnStart
    PROVE  IInv'
<1> DEFINE id == Head(posted).id
           memo == requestMemo[id]
<1>1. TypeOK /\ MemosTyped /\ NoOrphanSpeech
  BY TypedMemos DEF IInv
<1>2. /\ posted # <<>> /\ posted' = Tail(posted)
      /\ playingReqId' = id /\ playingState' = TRUE
      /\ requestMemo' = IF memo = NoMemo
                        THEN requestMemo
                        ELSE [requestMemo EXCEPT ![id].started = TRUE]
      /\ told' = IF memo = NoMemo \/ memo.eventMasked \/ memo.masqueradeId # NoReq
                 THEN told
                 ELSE Tell(memo.app, id, "start")
      /\ UNCHANGED <<appRequestMemo, pausedReqIdOnAwaken, engine, delayed>>
  BY DEF OnStart
<1>3. Head(posted) \in Posted /\ posted' \in Seq(Posted) /\ Unfinished' = Unfinished /\ Numbered'
  BY <1>2, TakeNumbered
<1>4. id \in Ids
  BY <1>3 DEF Posted
<1>5. /\ requestMemo' \in [Ids -> Memo \cup {NoMemo}]
      /\ \A x \in Ids : requestMemo[x] # NoMemo
                => /\ requestMemo'[x] # NoMemo
                   /\ requestMemo'[x].app = requestMemo[x].app
                   /\ requestMemo'[x].session = requestMemo[x].session
  <2>1. CASE memo = NoMemo
    BY <1>1, <1>2, <2>1 DEF MemosTyped
  <2>2. CASE memo # NoMemo
    <3> DEFINE new == [memo EXCEPT !.started = TRUE]
    <3>1. memo \in Memo
      BY <1>1, <1>4, <2>2 DEF MemosTyped
    <3>2. new \in Memo /\ new.app = memo.app /\ new.session = memo.session
      BY <3>1 DEF Memo
    <3>3. new # NoMemo
      BY <3>2, NoMemoAssumption
    <3>4. requestMemo' = [requestMemo EXCEPT ![id] = new]
      BY <1>2, <2>2
    <3> HIDE DEF new
    <3> QED
      BY <1>1, <1>4, <3>2, <3>3, <3>4 DEF MemosTyped
  <2> QED
    BY <2>1, <2>2
<1>6. told' \in [Apps -> [Ids -> SUBSET ({"asked", "start"} \cup Terminations)]]
  <2>1. CASE memo = NoMemo \/ memo.eventMasked \/ memo.masqueradeId # NoReq
    BY <1>1, <1>2, <2>1 DEF TypeOK
  <2>2. CASE ~(memo = NoMemo \/ memo.eventMasked \/ memo.masqueradeId # NoReq)
    <3>1. memo \in Memo
      BY <1>1, <1>4, <2>2 DEF MemosTyped
    <3>2. memo.app \in Apps
      BY <3>1 DEF Memo
    <3> QED
      BY <1>1, <1>2, <1>4, <2>2, <3>2, TellTyped
  <2> QED
    BY <2>1, <2>2
<1>7. TypeOK'
  BY <1>1, <1>2, <1>3, <1>4, <1>5, <1>6 DEF TypeOK, IdOrNone
<1>8. NoOrphanSpeech'
  BY <1>1, <1>2, <1>3, <1>5, UnfinishedIds DEF NoOrphanSpeech
<1> QED
  BY <1>3, <1>7, <1>8 DEF IInv

LEMMA TerminationStep ==
    ASSUME IInv, OnTtsTermination
    PROVE  IInv'
<1> DEFINE id == Head(posted).id
           event == Head(posted).event
<1>1. TypeOK /\ MemosTyped /\ NoOrphanSpeech
  BY TypedMemos DEF IInv
<1>2. /\ posted # <<>> /\ posted' = Tail(posted) /\ event \in Terminations
      /\ playingReqId' = PlayingWithout(id) /\ playingState' = FALSE
      /\ requestMemo' = [requestMemo EXCEPT ![id] = NoMemo]
      /\ delayed' = delayed \cup Held(id, event)
      /\ UNCHANGED <<appRequestMemo, pausedReqIdOnAwaken, engine, told>>
  BY DEF OnTtsTermination
<1>3. /\ Head(posted) \in Posted /\ id \notin Unfinished
      /\ posted' \in Seq(Posted) /\ Unfinished' = Unfinished /\ Numbered'
  BY <1>2, TakeNumbered
<1>4. id \in Ids
  BY <1>3 DEF Posted
<1>5. requestMemo' \in [Ids -> Memo \cup {NoMemo}]
  BY <1>1, <1>2 DEF MemosTyped
<1>6. Held(id, event) \subseteq Termination
  <2>1. CASE requestMemo[id] = NoMemo \/ requestMemo[id].eventMasked
    BY <2>1 DEF Held
  <2>2. CASE ~(requestMemo[id] = NoMemo \/ requestMemo[id].eventMasked)
    <3>1. requestMemo[id] \in Memo
      BY <1>1, <1>4, <2>2 DEF MemosTyped
    <3>2. KnownAs(id) \in Ids
      BY <1>1, <1>4, <2>2, KnownAsTyped
    <3>3. Held(id, event) = HeldOf(id, event)
      BY <2>2 DEF Held
    <3>4. /\ requestMemo[id].app \in Apps /\ requestMemo[id].started \in BOOLEAN
          /\ requestMemo[id].session \in 0 .. MaxSessions
      BY <3>1, TtsdAssumption DEF Memo
    <3> HIDE DEF id, event
    <3> QED
      BY <1>2, <1>4, <3>2, <3>3, <3>4 DEF HeldOf, Termination
  <2> QED
    BY <2>1, <2>2
<1>7. playingReqId' \in IdOrNone
  BY <1>1, <1>2 DEF PlayingWithout, TypeOK, IdOrNone
<1>8. TypeOK'
  BY <1>1, <1>2, <1>3, <1>5, <1>6, <1>7 DEF TypeOK
<1>9. NoOrphanSpeech'
  BY <1>1, <1>2, <1>3, UnfinishedIds DEF NoOrphanSpeech, MemosTyped
<1> QED
  BY <1>3, <1>8, <1>9 DEF IInv

LEMMA TimerStep ==
    ASSUME IInv, NEW t \in delayed, TimerFires(t)
    PROVE  IInv'
<1>1. TypeOK
  BY DEF IInv
<1>2. /\ delayed' = delayed \ {t} /\ told' = Tell(t.app, t.name, t.event)
      /\ UNCHANGED <<requestMemo, appRequestMemo, playingReqId, pausedReqIdOnAwaken,
                     playingState, engine, posted>>
  BY DEF TimerFires
<1>3. t.app \in Apps /\ t.name \in Ids /\ t.event \in Terminations
  BY <1>1 DEF TypeOK, Termination
<1>4. told' \in [Apps -> [Ids -> SUBSET ({"asked", "start"} \cup Terminations)]]
  BY <1>1, <1>2, <1>3, TellTyped
<1>5. TypeOK'
  BY <1>1, <1>2, <1>4 DEF TypeOK
<1> QED
  BY <1>2, <1>5 DEF IInv, NoOrphanSpeech, Numbered, Unfinished

-----------------------------------------------------------------------------
LEMMA InitHolds == Init => IInv
<1> SUFFICES ASSUME Init PROVE IInv
  OBVIOUS
<1>1. engine \in Engine /\ Unfinished = {} /\ posted \in Seq(Posted) /\ Len(posted) = 0
  BY TtsdAssumption DEF Init, Engine, IdOrNone, Unfinished
<1>2. TypeOK
  BY <1>1 DEF Init, TypeOK, IdOrNone
<1> QED
  BY <1>1, <1>2 DEF IInv, NoOrphanSpeech, Numbered

LEMMA StepHolds == IInv /\ [Next]_vars => IInv'
<1> SUFFICES ASSUME IInv, [Next]_vars PROVE IInv'
  OBVIOUS
<1>1. CASE UNCHANGED vars
  BY <1>1 DEF vars, IInv, TypeOK, NoOrphanSpeech, Numbered, Unfinished
<1>2. ASSUME NEW a \in Apps, Speak(a) \/ Stop(a) \/ PauseByOs(a) \/ ResumeByOs(a)
      PROVE  IInv'
  BY <1>2, SpeakStep, StopStep, OsStep
<1>3. CASE ServiceNext
  BY <1>3, StartStep, TerminationStep, TimerStep DEF ServiceNext
<1> QED
  BY <1>1, <1>2, <1>3, ResetStep, VoiceStep, ConnectStep, EngineStep DEF Next

\* The inductive invariant holds at each step of the services.
THEOREM Invariance == Spec => []IInv
<1> QED
  BY InitHolds, StepHolds, PTL DEF Spec

\* The memos, the entries of apps and the events in flight keep their types.
THEOREM TtsdTypeCorrect == Spec => []TypeOK
<1>1. IInv => TypeOK
  BY DEF IInv
<1> QED
  BY <1>1, Invariance, PTL

\* Whatever the synthesizer goes on speaking can still be stopped by its app,
\* across pauses, resumptions, resets and new connections (speak, resume,
\* reset and onTtsTermination).
THEOREM NoOrphans == Spec => []NoOrphanSpeech
<1>1. IInv => NoOrphanSpeech
  BY DEF IInv
<1> QED
  BY <1>1, Invariance, PTL
-----------------------------------------------------------------------------
(* One connection: what is playing, and what apps hear of a request first *)

Plays(i) == posted[i].event = "start"

\* The start of a request is followed by its termination, unless it is being
\* spoken; the start of what is being spoken is the last one, or was handled.
StartsOrdered ==
    /\ \A i \in 1 .. Len(posted) :
          Plays(i) => \/ engine.speaking = posted[i].id
                      \/ \E j \in 1 .. Len(posted) :
                            /\ i < j
                            /\ posted[j].id = posted[i].id
                            /\ posted[j].event \in Terminations
    /\ engine.speaking # NoReq =>
          \/ /\ playingReqId = engine.speaking
             /\ \A i \in 1 .. Len(posted) : ~Plays(i)
          \/ \E i \in 1 .. Len(posted) :
                /\ Plays(i) /\ posted[i].id = engine.speaking
                /\ \A j \in 1 .. Len(posted) : Plays(j) => j <= i

\* Before there is a connection nothing was asked of it.
Unconnected ==
    engine.session = 0 =>
        /\ engine.next = 0 /\ engine.waiting = {} /\ engine.speaking = NoReq
        /\ posted = <<>> /\ playingReqId = NoReq

PlayingIInv == IInv /\ PlayingAgrees /\ StartsOrdered /\ Unconnected

\* Nothing is known of requests that are not numbered yet.
Known(id) == id # NoReq => id < engine.next

KnownOnly ==
    /\ \A id \in Ids : requestMemo[id] # NoMemo =>
          id < engine.next /\ Known(requestMemo[id].masqueradeId)
    /\ \A a \in Apps : Known(appRequestMemo[a])
    /\ \A t \in delayed : t.name < engine.next

\* The request is its app's own, and is heard of.
Heard(id) ==
    /\ requestMemo[id] # NoMemo
    /\ ~requestMemo[id].eventMasked
    /\ requestMemo[id].masqueradeId = NoReq

Untold(a, id) ==
    /\ told[a][id] \cap Terminations = {}
    /\ \A t \in delayed : t.app = a => t.name # id
    /\ \A n \in Ids : requestMemo[n] # NoMemo /\ requestMemo[n].app = a
                            => requestMemo[n].masqueradeId # id

HeardFirst == \A id \in Ids : Heard(id) => Untold(requestMemo[id].app, id)

FirstIInv == PlayingIInv /\ KnownOnly /\ HeardFirst
-----------------------------------------------------------------------------
\* What the service does when it is called leaves the synthesizer speaking
\* what it spoke.
SpeaksOn ==
    /\ engine'.session = engine.session
    /\ engine'.speaking = engine.speaking
    /\ engine.session = 0 => engine'.next = engine.next /\ engine'.waiting = engine.waiting

LEMMA StoppedSpeaksOn ==
    ASSUME MemosTyped, NEW ids, engine' = Stopped(ids)
    PROVE  SpeaksOn
BY StoppedFacts DEF SpeaksOn

LEMMA StoppedOfSpeaksOn ==
    ASSUME MemosTyped, NEW a \in Apps, engine' = StoppedOf(a)
    PROVE  SpeaksOn
<1>1. CASE LiveMemo(a) = NoMemo
  BY <1>1 DEF StoppedOf, SpeaksOn
<1>2. CASE LiveMemo(a) # NoMemo
  BY <1>2, StoppedSpeaksOn DEF StoppedOf
<1> QED
  BY <1>1, <1>2

LEMMA RequestedSpeaksOn ==
    ASSUME CanRequest, NEW e \in Engine, NEW id, engine \in Engine,
           e.session = engine.session, e.speaking = engine.speaking,
           engine' = Requested(e, id)
    PROVE  SpeaksOn
<1>1. engine'.session = engine.session /\ engine'.speaking = engine.speaking
  BY DEF Requested, Engine
<1>2. engine.session # 0
  BY TtsdAssumption DEF CanRequest, Engine
<1> QED
  BY <1>1, <1>2 DEF SpeaksOn

LEMMA PauseSpeaksOn ==
    ASSUME MemosTyped, NEW a, Pause(a) \/ Resume(a)
    PROVE  SpeaksOn
<1>1. CASE engine' = engine
  BY <1>1 DEF SpeaksOn
<1>2. ASSUME NEW ids, engine' = Stopped(ids) PROVE SpeaksOn
  BY <1>2, StoppedSpeaksOn
<1>3. CASE Masquerade(a)
  BY <1>3, RequestedSpeaksOn DEF Masquerade, MemosTyped
<1> QED
  BY <1>1, <1>2, <1>3 DEF Pause, Resume

\* The calls of the service, and its timers.
Called ==
    \/ \E a \in Apps : Speak(a) \/ Stop(a) \/ PauseByOs(a) \/ ResumeByOs(a)
    \/ Reset \/ VoiceComing
    \/ \E a \in Apps \cup {Nobody} : ResetAwaken(a)
    \/ \E t \in delayed : TimerFires(t)

LEMMA CallsSpeakOn ==
    ASSUME IInv, Called
    PROVE  SpeaksOn /\ posted' = posted /\ playingReqId' = playingReqId
<1>1. MemosTyped /\ engine \in Engine
  BY TypedMemos DEF IInv, MemosTyped
<1>2. posted' = posted /\ playingReqId' = playingReqId
  BY DEF Called, Speak, Stop, PauseByOs, ResumeByOs, Reset, VoiceComing, ResetAwaken, TimerFires
<1>3. ASSUME NEW a \in Apps, Speak(a) PROVE SpeaksOn
  <2>1. CanRequest /\ engine' = Requested(StoppedOf(a), engine.next)
    BY <1>3 DEF Speak
  <2>2. /\ StoppedOf(a) \in Engine /\ StoppedOf(a).session = engine.session
        /\ StoppedOf(a).speaking = engine.speaking
    BY <1>1, StoppedFacts DEF StoppedOf
  <2> QED
    BY <1>1, <2>1, <2>2, RequestedSpeaksOn
<1>4. ASSUME NEW a \in Apps, Stop(a) PROVE SpeaksOn
  BY <1>1, <1>4, StoppedOfSpeaksOn DEF Stop
<1>5. ASSUME NEW a \in Apps, PauseByOs(a) \/ ResumeByOs(a) PROVE SpeaksOn
  BY <1>1, <1>5, PauseSpeaksOn DEF PauseByOs, ResumeByOs
<1>6. ASSUME Reset PROVE SpeaksOn
  BY <1>1, <1>6, StoppedSpeaksOn DEF Reset
<1>7. ASSUME engine' = engine PROVE SpeaksOn
  BY <1>7 DEF SpeaksOn
<1>8. ASSUME VoiceComing PROVE SpeaksOn
  BY <1>1, <1>7, <1>8, PauseSpeaksOn DEF VoiceComing
<1>9. ASSUME NEW a, ResetAwaken(a) PROVE SpeaksOn
  BY <1>1, <1>7, <1>9, PauseSpeaksOn DEF ResetAwaken
<1>10. ASSUME NEW t, TimerFires(t) PROVE SpeaksOn
  BY <1>7, <1>10 DEF TimerFires
<1> QED
  BY <1>2, <1>3, <1>4, <1>5, <1>6, <1>8, <1>9, <1>10 DEF Called

LEMMA CallsPlaying ==
    ASSUME PlayingIInv, IInv', Called
    PROVE  PlayingIInv'
<1>1. SpeaksOn /\ posted' = posted /\ playingReqId' = playingReqId
  BY CallsSpeakOn DEF PlayingIInv
<1>2. PlayingAgrees'
  BY <1>1 DEF PlayingIInv, PlayingAgrees, OnItsWay, SpeaksOn
<1>3. StartsOrdered'
  BY <1>1 DEF PlayingIInv, StartsOrdered, Plays, SpeaksOn
<1>4. Unconnected'
  BY <1>1 DEF PlayingIInv, Unconnected, SpeaksOn
<1> QED
  BY <1>2, <1>3, <1>4 DEF PlayingIInv

LEMMA ConnectPlaying ==
    ASSUME MaxSessions = 1, PlayingIInv, IInv', Connect
    PROVE  PlayingIInv'
<1>1. engine.session = 0
  BY TtsdAssumption DEF Connect, PlayingIInv, IInv, TypeOK, Engine
<1>2. /\ engine'.session = engine.session + 1 /\ engine'.speaking = NoReq
      /\ posted' = <<>> /\ playingReqId' = playingReqId
  BY DEF Connect, ServiceVars
<1>3. playingReqId' = NoReq /\ engine'.session # 0 /\ Len(posted') = 0
  BY <1>1, <1>2 DEF PlayingIInv, Unconnected
<1> QED
  BY <1>2, <1>3 DEF PlayingIInv, PlayingAgrees, StartsOrdered, Unconnected

\* An event is put after the others.
LEMMA PostFacts ==
    ASSUME posted \in Seq(Posted), NEW event, NEW id, Post(event, id)
    PROVE  LET n == Len(posted) + 1
           IN  /\ Len(posted) \in Nat /\ Len(posted') = n
               /\ posted'[n].event = event /\ posted'[n].id = id
               /\ \A i \in 1 .. Len(posted) : i \in 1 .. n /\ i < n /\ posted'[i] = posted[i]
               /\ \A i \in 1 .. n : i # n => i \in 1 .. Len(posted)
<1> DEFINE p == [event |-> event, id |-> id]
<1>1. posted' = Append(posted, p) /\ p.event = event /\ p.id = id
  BY DEF Post
<1> HIDE DEF p
<1>2. /\ Len(posted) \in Nat /\ Len(posted') = Len(posted) + 1
      /\ posted'[Len(posted) + 1] = p
      /\ \A i \in 1 .. Len(posted) : posted'[i] = posted[i]
  BY <1>1
<1> QED
  BY <1>1, <1>2
LEMMA EngineStartsPlaying ==
    ASSUME PlayingIInv, IInv', NEW id \in Ids, EngineStarts(id)
    PROVE  PlayingIInv'
<1> DEFINE n == Len(posted) + 1
<1>1. /\ posted \in Seq(Posted) /\ engine \in Engine
      /\ PlayingAgrees /\ StartsOrdered /\ Unconnected
  BY TypedMemos DEF PlayingIInv, IInv, MemosTyped
<1>2. /\ engine.speaking = NoReq /\ id \in engine.waiting
      /\ engine'.speaking = id /\ engine'.session = engine.session
      /\ Post("start", id) /\ playingReqId' = playingReqId
  BY <1>1 DEF EngineStarts, Engine, ServiceVars
<1>3. /\ Len(posted) \in Nat /\ Len(posted') = n
      /\ posted'[n].event = "start" /\ posted'[n].id = id
      /\ \A i \in 1 .. Len(posted) : i \in 1 .. n /\ i < n /\ posted'[i] = posted[i]
      /\ \A i \in 1 .. n : i # n => i \in 1 .. Len(posted)
  BY <1>1, <1>2, PostFacts
<1>4. n \in 1 .. n /\ n \in Nat
  BY <1>3
<1> HIDE DEF n
<1>5. PlayingAgrees'
  BY <1>1, <1>2, <1>3, <1>4 DEF PlayingAgrees, OnItsWay
<1>6. StartsOrdered'
  <2>1. ASSUME NEW i \in 1 .. n, Plays(i)'
        PROVE  \/ engine'.speaking = posted'[i].id
               \/ \E j \in 1 .. n : /\ i < j
                                    /\ posted'[j].id = posted'[i].id
                                    /\ posted'[j].event \in Terminations
    <3>1. CASE i = n
      BY <3>1, <1>2, <1>3
    <3>2. CASE i # n
      <4>1. i \in 1 .. Len(posted) /\ posted'[i] = posted[i] /\ Plays(i)
        BY <3>2, <2>1, <1>3 DEF Plays
      <4>2. posted[i] \in Posted
        BY <1>1, <4>1
      <4>3. engine.speaking # posted[i].id
        BY <4>2, <1>2, IdFacts DEF Posted
      <4>4. PICK j \in 1 .. Len(posted) : /\ i < j
                                          /\ posted[j].id = posted[i].id
                                          /\ posted[j].event \in Terminations
        BY <1>1, <4>1, <4>3 DEF StartsOrdered
      <4> QED
        BY <1>3, <4>1, <4>4
    <3> QED
      BY <3>1, <3>2
  <2>2. /\ posted'[n].event = "start" /\ posted'[n].id = engine'.speaking
        /\ \A j \in 1 .. n : Plays(j)' => j <= n
    BY <1>2, <1>3, <1>4 DEF Plays
  <2> QED
    BY <1>3, <1>4, <2>1, <2>2 DEF StartsOrdered, Plays
<1>7. Unconnected'
  BY <1>1, <1>2 DEF Unconnected
<1> QED
  BY <1>5, <1>6, <1>7 DEF PlayingIInv

LEMMA EngineFinishesPlaying ==
    ASSUME PlayingIInv, IInv', NEW id \in Ids, NEW event \in Terminations,
           EngineFinishes(id, event)
    PROVE  PlayingIInv'
<1> DEFINE n == Len(posted) + 1
<1>1. /\ posted \in Seq(Posted) /\ engine \in Engine
      /\ PlayingAgrees /\ StartsOrdered /\ Unconnected
  BY TypedMemos DEF PlayingIInv, IInv, MemosTyped
<1>2. /\ engine'.speaking = IF engine.speaking = id THEN NoReq ELSE engine.speaking
      /\ engine'.session = engine.session /\ id \in Unfinished
      /\ Post(event, id) /\ playingReqId' = playingReqId
  BY <1>1 DEF EngineFinishes, Removed, Engine, ServiceVars
<1>3. /\ Len(posted) \in Nat /\ Len(posted') = n
      /\ posted'[n].event = event /\ posted'[n].id = id
      /\ \A i \in 1 .. Len(posted) : i \in 1 .. n /\ i < n /\ posted'[i] = posted[i]
      /\ \A i \in 1 .. n : i # n => i \in 1 .. Len(posted)
  BY <1>1, <1>2, PostFacts
<1>4. n \in 1 .. n /\ n \in Nat
  BY <1>3
<1>5. event # "start"
  BY DEF Terminations
<1> HIDE DEF n
<1>6. PlayingAgrees'
  BY <1>1, <1>2, <1>3, <1>4 DEF PlayingAgrees, OnItsWay
<1>7. StartsOrdered'
  <2>1. ASSUME NEW i \in 1 .. n, Plays(i)'
        PROVE  \/ engine'.speaking = posted'[i].id
               \/ \E j \in 1 .. n : /\ i < j
                                    /\ posted'[j].id = posted'[i].id
                                    /\ posted'[j].event \in Terminations
    <3>1. i \in 1 .. Len(posted) /\ posted'[i] = posted[i] /\ Plays(i) /\ i < n
      BY <2>1, <1>3, <1>5 DEF Plays
    <3>2. CASE engine.speaking = posted[i].id
      BY <1>2, <1>3, <1>4, <3>1, <3>2
    <3>3. CASE engine.speaking # posted[i].id
      <4>1. PICK j \in 1 .. Len(posted) : /\ i < j
                                          /\ posted[j].id = posted[i].id
                                          /\ posted[j].event \in Terminations
        BY <1>1, <3>1, <3>3 DEF StartsOrdered
      <4> QED
        BY <1>3, <3>1, <4>1
    <3> QED
      BY <3>2, <3>3
  <2>2. ASSUME engine'.speaking # NoReq
        PROVE  \/ /\ playingReqId' = engine'.speaking
                  /\ \A i \in 1 .. n : ~Plays(i)'
               \/ \E i \in 1 .. n :
                     /\ Plays(i)' /\ posted'[i].id = engine'.speaking
                     /\ \A j \in 1 .. n : Plays(j)' => j <= i
    <3>1. engine'.speaking = engine.speaking /\ engine.speaking # NoReq
      BY <1>2, <2>2
    <3>2. \A j \in 1 .. n : Plays(j)' => j \in 1 .. Len(posted) /\ Plays(j)
      BY <1>3, <1>5 DEF Plays
    <3>3. CASE playingReqId = engine.speaking /\ \A i \in 1 .. Len(posted) : ~Plays(i)
      BY <1>2, <3>1, <3>2, <3>3
    <3>4. CASE ~(playingReqId = engine.speaking /\ \A i \in 1 .. Len(posted) : ~Plays(i))
      <4>1. PICK i \in 1 .. Len(posted) :
                     /\ Plays(i) /\ posted[i].id = engine.speaking
                     /\ \A j \in 1 .. Len(posted) : Plays(j) => j <= i
        BY <1>1, <3>1, <3>4 DEF StartsOrdered
      <4>2. i \in 1 .. n /\ posted'[i] = posted[i] /\ Plays(i)'
        BY <1>3, <4>1 DEF Plays
      <4> QED
        BY <3>1, <3>2, <4>1, <4>2
    <3> QED
      BY <3>3, <3>4
  <2> QED
    BY <1>3, <2>1, <2>2 DEF StartsOrdered
<1>8. Unconnected'
  <2>1. engine.session # 0
    BY <1>1, <1>2 DEF Unconnected, Unfinished
  <2> QED
    BY <1>2, <2>1 DEF Unconnected
<1> QED
  BY <1>6, <1>7, <1>8 DEF PlayingIInv
\* The first of the events is taken; the others move up.
LEMMA TailFacts ==
    ASSUME posted \in Seq(Posted), posted # <<>>, posted' = Tail(posted)
    PROVE  /\ Len(posted) \in Nat /\ 1 \in 1 .. Len(posted) /\ Head(posted) = posted[1]
           /\ Len(posted') \in Nat
           /\ \A i \in 1 .. Len(posted') : i + 1 \in 1 .. Len(posted) /\ posted'[i] = posted[i + 1]
           /\ \A i \in 1 .. Len(posted) : i > 1 =>
                 i - 1 \in 1 .. Len(posted') /\ posted'[i - 1] = posted[i]
<1>1. Len(posted) \in Nat /\ Len(posted) >= 1 /\ Head(posted) = posted[1]
  OBVIOUS
<1>2. /\ Len(posted') = Len(posted) - 1
      /\ \A i \in 1 .. Len(posted') : posted'[i] = posted[i + 1]
  BY <1>1
<1>3. \A i \in 1 .. Len(posted) : i > 1 => i - 1 \in 1 .. Len(posted') /\ (i - 1) + 1 = i
  BY <1>1, <1>2
<1> QED
  BY <1>1, <1>2, <1>3

\* What is still on its way of what was not the first.
Left(id, events) ==
    \E i \in 1 .. Len(posted') : posted'[i].id = id /\ posted'[i].event \in events

LEMMA TailLeft ==
    ASSUME posted \in Seq(Posted), posted # <<>>, posted' = Tail(posted),
           NEW i \in 1 .. Len(posted), i > 1,
           NEW events, posted[i].event \in events
    PROVE  Left(posted[i].id, events)
<1>1. i - 1 \in 1 .. Len(posted') /\ posted'[i - 1] = posted[i]
  BY TailFacts
<1> QED
  BY <1>1 DEF Left

\* The order of what is left, when it is the start of what is being spoken
\* that was first, or when what is playing is still right.
LEMMA TailOrdered ==
    ASSUME posted \in Seq(Posted), posted # <<>>, posted' = Tail(posted),
           engine' = engine, StartsOrdered,
           engine.speaking = playingReqId => playingReqId' = playingReqId \/ Plays(1),
           Plays(1) => playingReqId' = posted[1].id
    PROVE  StartsOrdered'
<1>1. /\ Len(posted) \in Nat /\ 1 \in 1 .. Len(posted)
      /\ Len(posted') \in Nat
      /\ \A i \in 1 .. Len(posted') : i + 1 \in 1 .. Len(posted) /\ posted'[i] = posted[i + 1]
      /\ \A i \in 1 .. Len(posted) : i > 1 =>
            i - 1 \in 1 .. Len(posted') /\ posted'[i - 1] = posted[i]
  BY TailFacts
<1>2. ASSUME NEW i \in 1 .. Len(posted'), posted'[i].event = "start"
      PROVE  \/ engine.speaking = posted'[i].id
             \/ \E j \in 1 .. Len(posted') : /\ i < j
                                             /\ posted'[j].id = posted'[i].id
                                             /\ posted'[j].event \in Terminations
  <2>1. i + 1 \in 1 .. Len(posted) /\ posted'[i] = posted[i + 1] /\ Plays(i + 1)
    BY <1>1, <1>2 DEF Plays
  <2>2. CASE engine.speaking # posted[i + 1].id
    <3>1. PICK j \in 1 .. Len(posted) : /\ i + 1 < j
                                        /\ posted[j].id = posted[i + 1].id
                                        /\ posted[j].event \in Terminations
      BY <2>1, <2>2 DEF StartsOrdered
    <3>2. j - 1 \in 1 .. Len(posted') /\ posted'[j - 1] = posted[j] /\ i < j - 1
      BY <1>1, <3>1
    <3> QED
      BY <2>1, <3>1, <3>2
  <2> QED
    BY <2>1, <2>2
<1>3. ASSUME engine.speaking # NoReq
      PROVE  \/ /\ playingReqId' = engine.speaking
                /\ \A i \in 1 .. Len(posted') : posted'[i].event # "start"
             \/ \E i \in 1 .. Len(posted') :
                   /\ posted'[i].event = "start" /\ posted'[i].id = engine.speaking
                   /\ \A j \in 1 .. Len(posted') : posted'[j].event = "start" => j <= i
  <2>1. CASE playingReqId = engine.speaking /\ \A i \in 1 .. Len(posted) : ~Plays(i)
    BY <1>1, <2>1 DEF Plays
  <2>2. ASSUME NEW i \in 1 .. Len(posted),
               Plays(i), posted[i].id = engine.speaking,
               \A j \in 1 .. Len(posted) : Plays(j) => j <= i
        PROVE  <1>3!2
    <3>1. CASE i = 1
      <4>1. playingReqId' = engine.speaking
        BY <2>2, <3>1
      <4>2. \A j \in 1 .. Len(posted') : posted'[j].event # "start"
        <5> TAKE j \in 1 .. Len(posted')
        <5>1. j + 1 \in 1 .. Len(posted) /\ posted'[j] = posted[j + 1] /\ ~(j + 1 <= 1)
          BY <1>1
        <5> QED
          BY <5>1, <2>2, <3>1 DEF Plays
      <4> QED
        BY <4>1, <4>2
    <3>2. CASE i > 1
      <4>1. i - 1 \in 1 .. Len(posted') /\ posted'[i - 1] = posted[i]
        BY <1>1, <3>2
      <4>2. \A j \in 1 .. Len(posted') : posted'[j].event = "start" => j <= i - 1
        <5> TAKE j \in 1 .. Len(posted')
        <5>1. j + 1 \in 1 .. Len(posted) /\ posted'[j] = posted[j + 1]
          BY <1>1
        <5>2. posted'[j].event = "start" => j + 1 <= i
          BY <5>1, <2>2 DEF Plays
        <5> QED
          BY <5>1, <5>2
      <4> QED
        BY <4>1, <4>2, <2>2 DEF Plays
    <3> QED
      BY <3>1, <3>2
  <2> QED
    BY <1>3, <2>1, <2>2 DEF StartsOrdered
<1> QED
  BY <1>2, <1>3 DEF StartsOrdered, Plays

LEMMA OnStartPlaying ==
    ASSUME PlayingIInv, IInv', OnStart
    PROVE  PlayingIInv'
<1>1. posted \in Seq(Posted) /\ PlayingAgrees /\ StartsOrdered /\ Unconnected
  BY TypedMemos DEF PlayingIInv, IInv
<1>2. /\ posted # <<>> /\ Head(posted).event = "start" /\ posted' = Tail(posted)
      /\ playingReqId' = Head(posted).id /\ engine' = engine
  BY DEF OnStart
<1>3. 1 \in 1 .. Len(posted) /\ Head(posted) = posted[1]
  BY <1>1, <1>2, TailFacts
<1>4. Plays(1) /\ playingReqId' = posted[1].id
  BY <1>2, <1>3 DEF Plays
<1>5. StartsOrdered'
  BY <1>1, <1>2, <1>4, TailOrdered
<1>6. engine.speaking = posted[1].id \/ Left(posted[1].id, Terminations)
  <2>1. CASE engine.speaking # posted[1].id
    <3>1. PICK j \in 1 .. Len(posted) : /\ 1 < j
                                        /\ posted[j].id = posted[1].id
                                        /\ posted[j].event \in Terminations
      BY <1>1, <1>3, <1>4, <2>1 DEF StartsOrdered
    <3>2. Left(posted[j].id, Terminations)
      BY <1>1, <1>2, <3>1, TailLeft
    <3> QED
      BY <3>1, <3>2
  <2> QED
    BY <2>1
<1>7. PlayingAgrees'
  <2>1. playingReqId' # NoReq =>
          engine'.speaking = playingReqId' \/ OnItsWay(playingReqId, Terminations)'
    BY <1>2, <1>4, <1>6 DEF OnItsWay, Left
  <2>2. engine'.speaking # NoReq =>
          playingReqId' = engine'.speaking \/ OnItsWay(engine.speaking, {"start"})'
    BY <1>5 DEF StartsOrdered, OnItsWay, Plays
  <2> QED
    BY <2>1, <2>2 DEF PlayingAgrees
<1>8. Unconnected'
  BY <1>1, <1>2 DEF Unconnected
<1> QED
  BY <1>5, <1>7, <1>8 DEF PlayingIInv

LEMMA OnTerminationPlaying ==
    ASSUME PlayingIInv, IInv', OnTtsTermination
    PROVE  PlayingIInv'
<1>1. IInv /\ posted \in Seq(Posted) /\ PlayingAgrees /\ StartsOrdered /\ Unconnected
  BY TypedMemos DEF PlayingIInv, IInv
<1>2. /\ posted # <<>> /\ Head(posted).event \in Terminations /\ posted' = Tail(posted)
      /\ playingReqId' = PlayingWithout(Head(posted).id) /\ engine' = engine
  BY DEF OnTtsTermination
<1>3. 1 \in 1 .. Len(posted) /\ Head(posted) = posted[1]
  BY <1>1, <1>2, TailFacts
<1>4. posted[1].id \notin Unfinished /\ ~Plays(1)
  BY <1>1, <1>2, <1>3, TakeNumbered DEF Plays, Terminations
<1>5. playingReqId' = IF playingReqId = posted[1].id THEN NoReq ELSE playingReqId
  BY <1>2, <1>3 DEF PlayingWithout
<1>6. engine.speaking = playingReqId => playingReqId' = playingReqId
  BY <1>4, <1>5 DEF Unfinished
<1>7. StartsOrdered'
  BY <1>1, <1>2, <1>4, <1>6, TailOrdered
<1>8. PlayingAgrees'
  <2>1. ASSUME playingReqId' # NoReq, engine'.speaking # playingReqId'
        PROVE  OnItsWay(playingReqId, Terminations)'
    <3>1. playingReqId' = playingReqId /\ playingReqId # posted[1].id
      BY <1>5, <2>1
    <3>2. OnItsWay(playingReqId, Terminations)
      BY <1>1, <1>2, <2>1, <3>1 DEF PlayingAgrees
    <3>3. PICK i \in 1 .. Len(posted) : /\ posted[i].id = playingReqId
                                        /\ posted[i].event \in Terminations
      BY <3>2 DEF OnItsWay
    <3>4. i > 1
      BY <3>1, <3>3
    <3>5. i - 1 \in 1 .. Len(posted') /\ posted'[i - 1] = posted[i]
      BY <1>1, <1>2, <3>3, <3>4, TailFacts
    <3> QED
      BY <3>1, <3>3, <3>5 DEF OnItsWay
  <2>2. engine'.speaking # NoReq =>
          playingReqId' = engine'.speaking \/ OnItsWay(engine.speaking, {"start"})'
    BY <1>7 DEF StartsOrdered, OnItsWay, Plays
  <2> QED
    BY <2>1, <2>2 DEF PlayingAgrees
<1>9. Unconnected'
  BY <1>1, <1>2, <1>3 DEF Unconnected
<1> QED
  BY <1>7, <1>8, <1>9 DEF PlayingIInv
LEMMA PlayingStep ==
    ASSUME MaxSessions = 1, PlayingIInv, [Next]_vars
    PROVE  PlayingIInv'
<1>1. IInv'
  BY StepHolds DEF PlayingIInv
<1>2. CASE UNCHANGED vars
  BY <1>1, <1>2 DEF vars, PlayingIInv, PlayingAgrees, OnItsWay, StartsOrdered, Plays, Unconnected
<1>3. CASE Called
  BY <1>1, <1>3, CallsPlaying
<1>4. CASE Connect
  BY <1>1, <1>4, ConnectPlaying
<1>5. CASE EngineNext
  BY <1>1, <1>5, EngineStartsPlaying, EngineFinishesPlaying DEF EngineNext
<1>6. CASE OnStart \/ OnTtsTermination
  BY <1>1, <1>6, OnStartPlaying, OnTerminationPlaying
<1> QED
  BY <1>2, <1>3, <1>4, <1>5, <1>6 DEF Next, ServiceNext, Called

LEMMA PlayingInit == Init => PlayingIInv
<1> SUFFICES ASSUME Init PROVE PlayingIInv
  OBVIOUS
<1>1. /\ Len(posted) = 0 /\ playingReqId = NoReq /\ engine.speaking = NoReq
      /\ engine.session = 0 /\ engine.next = 0 /\ engine.waiting = {} /\ posted = <<>>
  BY DEF Init
<1> QED
  BY <1>1, InitHolds DEF PlayingIInv, PlayingAgrees, StartsOrdered, Unconnected

\* On one connection, what the service takes for playing lags behind the
\* synthesizer by the events on their way and no more (onStart,
\* onTtsTermination and the callbacks of the native client).
THEOREM PlayingLagsByEvents ==
    ASSUME MaxSessions = 1
    PROVE  Spec => []PlayingAgrees
<1>1. PlayingIInv /\ [Next]_vars => PlayingIInv'
  BY PlayingStep
<1>2. PlayingIInv => PlayingAgrees
  BY DEF PlayingIInv
<1> QED
  BY <1>1, <1>2, PlayingInit, PTL DEF Spec

-----------------------------------------------------------------------------
(* What apps hear of a request first *)

\* Nothing new is heard of and nothing is told.
LEMMA NothingNew ==
    ASSUME KnownOnly, HeardFirst, TypeOK,
           engine'.next = engine.next,
           \A id \in Ids : requestMemo'[id] # NoMemo =>
               /\ requestMemo[id] # NoMemo
               /\ requestMemo'[id].app = requestMemo[id].app
               /\ requestMemo'[id].masqueradeId = requestMemo[id].masqueradeId
               /\ requestMemo[id].eventMasked => requestMemo'[id].eventMasked,
           requestMemo' \in [Ids -> Memo \cup {NoMemo}],
           \A a \in Apps : Known(appRequestMemo'[a]),
           delayed' \subseteq delayed,
           \A id \in Ids : Heard(id)' =>
               told'[requestMemo[id].app][id] \cap Terminations
                  = told[requestMemo[id].app][id] \cap Terminations
    PROVE  KnownOnly' /\ HeardFirst'
<1>1. ASSUME NEW id \in Ids, requestMemo'[id] # NoMemo
      PROVE  id < engine'.next /\ Known(requestMemo'[id].masqueradeId)
  BY <1>1 DEF KnownOnly
<1>2. KnownOnly'
  BY <1>1 DEF KnownOnly, Known
<1>3. ASSUME NEW id \in Ids, Heard(id)'
      PROVE  Untold(requestMemo[id].app, id)'
  <2> DEFINE a == requestMemo[id].app
  <2>1. Heard(id) /\ requestMemo'[id].app = a
    <3>1. requestMemo'[id] # NoMemo /\ ~requestMemo'[id].eventMasked /\ requestMemo'[id].masqueradeId = NoReq
      BY <1>3 DEF Heard
    <3> QED
      BY <3>1 DEF Heard
  <2>2. Untold(a, id)
    BY <2>1 DEF HeardFirst
  <2>3. told'[a][id] \cap Terminations = {}
    BY <1>3, <2>2 DEF Untold
  <2>4. \A t \in delayed' : t.app = a => t.name # id
    BY <2>2 DEF Untold
  <2>5. \A n \in Ids : requestMemo'[n] # NoMemo /\ requestMemo'[n].app = a
                            => requestMemo'[n].masqueradeId # id
    BY <2>2 DEF Untold
  <2> HIDE DEF a
  <2> QED
    BY <2>1, <2>3, <2>4, <2>5 DEF Untold
<1> QED
  BY <1>2, <1>3 DEF HeardFirst
LEMMA TellFacts ==
    ASSUME TypeOK, NEW a \in Apps, NEW id \in Ids, NEW event,
           NEW b \in Apps, NEW n \in Ids
    PROVE  Tell(a, id, event)[b][n] =
             IF b = a /\ n = id THEN told[b][n] \cup {event} ELSE told[b][n]
BY DEF Tell, TypeOK

\* An app that takes leave is told so of what the service has forgotten.
LEMMA CancelFacts ==
    ASSUME TypeOK, NEW a \in Apps, NEW b \in Apps, NEW n \in Ids
    PROVE  /\ requestMemo[n] # NoMemo => CancelTold(a)[b][n] = told[b][n]
           /\ CancelTold(a)[b][n] \subseteq told[b][n] \cup {"cancel"}
<1>1. CASE appRequestMemo[a] # NoReq /\ LiveMemo(a) = NoMemo
  <2>1. appRequestMemo[a] \in Ids /\ requestMemo[appRequestMemo[a]] = NoMemo
    BY <1>1 DEF TypeOK, IdOrNone, LiveMemo
  <2> DEFINE id == appRequestMemo[a]
  <2>2. CancelTold(a) = Tell(a, id, "cancel") /\ id \in Ids
    BY <1>1, <2>1 DEF CancelTold
  <2> HIDE DEF id
  <2>3. CancelTold(a)[b][n] = IF b = a /\ n = id THEN told[b][n] \cup {"cancel"} ELSE told[b][n]
    BY <2>2, TellFacts
  <2> QED
    BY <2>1, <2>3 DEF id
<1>2. CASE ~(appRequestMemo[a] # NoReq /\ LiveMemo(a) = NoMemo)
  BY <1>2 DEF CancelTold
<1> QED
  BY <1>1, <1>2

LEMMA MadeFirst ==
    ASSUME KnownOnly, HeardFirst, TypeOK, TypeOK', CanRequest,
           NEW a \in Apps, NEW m \in IdOrNone,
           Known(m), m # NoReq => requestMemo[m] = NoMemo,
           engine'.next = engine.next + 1,
           requestMemo' = [requestMemo EXCEPT ![engine.next] = MemoFor(a, m)],
           appRequestMemo' = [appRequestMemo EXCEPT ![a] = engine.next],
           delayed' = delayed,
           \A id \in Ids \ {engine.next} : requestMemo[id] # NoMemo =>
               \A b \in Apps : told'[b][id] = told[b][id],
           m = NoReq => told'[a][engine.next] \cap Terminations = {}
    PROVE  KnownOnly' /\ HeardFirst'
<1> DEFINE n == engine.next
<1>1. n \in Ids /\ n \in Nat
  BY TtsdAssumption DEF CanRequest, TypeOK, Engine, Ids
<1>2. /\ requestMemo'[n] = MemoFor(a, m)
      /\ \A id \in Ids : id # n => requestMemo'[id] = requestMemo[id]
  BY <1>1 DEF TypeOK
<1>3. /\ MemoFor(a, m).app = a /\ MemoFor(a, m).masqueradeId = m
      /\ MemoFor(a, m).eventMasked = FALSE
  BY DEF MemoFor
<1>4. \A x \in Ids : x < n => x < engine'.next
  BY <1>1, TtsdAssumption DEF Ids
<1>5. n < engine'.next
  BY <1>1
<1>6. \A x \in IdOrNone : Known(x) => (x # NoReq => x < engine'.next)
  BY <1>4 DEF Known, IdOrNone
<1>7. KnownOnly'
  <2>1. ASSUME NEW id \in Ids, requestMemo'[id] # NoMemo
        PROVE  /\ id < engine'.next
               /\ requestMemo'[id].masqueradeId # NoReq =>
                     requestMemo'[id].masqueradeId < engine'.next
    <3>1. CASE id = n
      BY <1>2, <1>3, <1>5, <1>6, <3>1
    <3>2. CASE id # n
      <4>1. requestMemo[id] # NoMemo /\ requestMemo'[id] = requestMemo[id] /\ requestMemo[id] \in Memo
        BY <1>2, <2>1, <3>2 DEF TypeOK
      <4>2. id < n /\ Known(requestMemo[id].masqueradeId) /\ requestMemo[id].masqueradeId \in IdOrNone
        BY <4>1 DEF KnownOnly, Memo
      <4> QED
        BY <4>1, <4>2, <1>4, <1>6
    <3> QED
      BY <3>1, <3>2
  <2>2. \A b \in Apps : appRequestMemo'[b] # NoReq => appRequestMemo'[b] < engine'.next
    <3> TAKE b \in Apps
    <3>1. appRequestMemo'[b] = IF b = a THEN n ELSE appRequestMemo[b]
      BY DEF TypeOK
    <3>2. Known(appRequestMemo[b]) /\ appRequestMemo[b] \in IdOrNone
      BY DEF KnownOnly, TypeOK
    <3> QED
      BY <1>5, <1>6, <3>1, <3>2
  <2>3. \A t \in delayed' : t.name < engine'.next
    BY <1>4 DEF KnownOnly, TypeOK, Termination
  <2> QED
    BY <2>1, <2>2, <2>3 DEF KnownOnly, Known
<1>8. ASSUME NEW id \in Ids, Heard(id)'
      PROVE  Untold(requestMemo[id].app, id)'
  <2>1. CASE id = n
    <3>1. requestMemo'[id].app = a /\ m = NoReq
      BY <1>2, <1>3, <1>8, <2>1 DEF Heard
    <3>2. told'[a][id] \cap Terminations = {}
      BY <2>1, <3>1
    <3>3. \A t \in delayed' : t.name # id
      BY <2>1, <1>1 DEF KnownOnly, TypeOK, Termination
    <3>4. \A x \in Ids : requestMemo'[x] # NoMemo => requestMemo'[x].masqueradeId # id
      <4> SUFFICES ASSUME NEW x \in Ids, requestMemo'[x] # NoMemo,
                          requestMemo'[x].masqueradeId = id PROVE FALSE
        OBVIOUS
      <4>1. CASE x = n
        BY <1>2, <1>3, <3>1, <4>1, IdFacts
      <4>2. CASE x # n
        BY <1>1, <1>2, <2>1, <4>2, IdFacts DEF KnownOnly, Known
      <4> QED
        BY <4>1, <4>2
    <3> QED
      BY <3>1, <3>2, <3>3, <3>4 DEF Untold
  <2>2. CASE id # n
    <3> DEFINE b == requestMemo[id].app
    <3>1. requestMemo'[id] = requestMemo[id] /\ Heard(id)
      BY <1>2, <1>8, <2>2 DEF Heard
    <3>2. requestMemo[id] \in Memo
      BY <3>1 DEF Heard, TypeOK
    <3>3. b \in Apps /\ Untold(b, id)
      BY <3>1, <3>2 DEF HeardFirst, Memo
    <3>4. told'[b][id] = told[b][id]
      BY <2>2, <3>1, <3>3 DEF Heard
    <3>5. m # id
      BY <3>1, IdFacts DEF Heard
    <3>6. \A x \in Ids : requestMemo'[x] # NoMemo /\ requestMemo'[x].app = b
                              => requestMemo'[x].masqueradeId # id
      <4> SUFFICES ASSUME NEW x \in Ids, requestMemo'[x] # NoMemo, requestMemo'[x].app = b
                   PROVE  requestMemo'[x].masqueradeId # id
        OBVIOUS
      <4>1. CASE x = n
        BY <1>2, <1>3, <3>5, <4>1
      <4>2. CASE x # n
        BY <1>2, <3>3, <4>2 DEF Untold
      <4> QED
        BY <4>1, <4>2
    <3> HIDE DEF b
    <3>7. requestMemo'[id].app = b
      BY <3>1 DEF b
    <3> QED
      BY <3>3, <3>4, <3>6, <3>7 DEF Untold
  <2> QED
    BY <2>1, <2>2
<1> QED
  BY <1>7, <1>8 DEF HeardFirst
LEMMA PauseFirst ==
    ASSUME KnownOnly, HeardFirst, TypeOK, TypeOK', NEW a \in Apps,
           Pause(a), told' = told, delayed' = delayed
    PROVE  KnownOnly' /\ HeardFirst'
<1>1. CASE LiveMemo(a) = NoMemo
  <2>1. UNCHANGED <<requestMemo, appRequestMemo, engine>>
    BY <1>1 DEF Pause
  <2> QED
    BY <2>1 DEF KnownOnly, HeardFirst, Heard, Untold, Known
<1>2. CASE LiveMemo(a) # NoMemo
  <2> DEFINE id == appRequestMemo[a]
  <2>1. id \in Ids /\ requestMemo[id] # NoMemo
    BY <1>2 DEF LiveMemo, TypeOK, IdOrNone
  <2>2. /\ requestMemo' = [requestMemo EXCEPT ![id].eventMasked = TRUE]
        /\ appRequestMemo' = [appRequestMemo EXCEPT ![a] = KnownAs(id)]
        /\ engine' = Stopped({id})
    BY <1>2 DEF Pause
  <2> HIDE DEF id
  <2>3. engine'.next = engine.next
    BY <2>2, StoppedFacts, TypedMemos
  <2>4. requestMemo[id] \in Memo
    BY <2>1 DEF TypeOK
  <2>5. \A x \in Ids : requestMemo'[x] # NoMemo =>
               /\ requestMemo[x] # NoMemo
               /\ requestMemo'[x].app = requestMemo[x].app
               /\ requestMemo'[x].masqueradeId = requestMemo[x].masqueradeId
               /\ requestMemo[x].eventMasked => requestMemo'[x].eventMasked
    <3> TAKE x \in Ids
    <3>1. CASE x # id
      BY <2>2, <3>1 DEF TypeOK
    <3>2. CASE x = id
      <4>1. requestMemo'[x] = [requestMemo[id] EXCEPT !.eventMasked = TRUE]
        BY <2>1, <2>2, <3>2 DEF TypeOK
      <4> QED
        BY <2>1, <2>4, <3>2, <4>1 DEF Memo
    <3> QED
      BY <3>1, <3>2
  <2>6. \A b \in Apps : Known(appRequestMemo'[b])
    <3> TAKE b \in Apps
    <3>1. appRequestMemo'[b] = IF b = a THEN KnownAs(id) ELSE appRequestMemo[b]
      BY <2>2 DEF TypeOK
    <3>2. Known(KnownAs(id)) /\ Known(appRequestMemo[b])
      BY <2>1 DEF KnownOnly, Known, KnownAs
    <3> QED
      BY <3>1, <3>2
  <2> QED
    BY <2>3, <2>5, <2>6, NothingNew DEF TypeOK
<1> QED
  BY <1>1, <1>2

LEMMA ResumeFirst ==
    ASSUME KnownOnly, HeardFirst, TypeOK, TypeOK', NEW a \in Apps,
           Resume(a), told' = told, delayed' = delayed
    PROVE  KnownOnly' /\ HeardFirst'
<1>1. CASE appRequestMemo[a] = NoReq \/ LiveMemo(a) # NoMemo
  <2>1. UNCHANGED <<requestMemo, appRequestMemo, engine>>
    BY <1>1 DEF Resume
  <2> QED
    BY <2>1 DEF KnownOnly, HeardFirst, Heard, Untold, Known
<1>2. CASE ~(appRequestMemo[a] = NoReq \/ LiveMemo(a) # NoMemo)
  <2> DEFINE m == appRequestMemo[a]
  <2>1. m \in IdOrNone /\ Known(m) /\ m # NoReq /\ requestMemo[m] = NoMemo
    BY <1>2 DEF LiveMemo, TypeOK, KnownOnly
  <2>2. /\ CanRequest
        /\ requestMemo' = [requestMemo EXCEPT ![engine.next] = MemoFor(a, m)]
        /\ appRequestMemo' = [appRequestMemo EXCEPT ![a] = engine.next]
        /\ engine' = Requested(engine, engine.next)
    BY <1>2 DEF Resume, Masquerade
  <2>3. engine'.next = engine.next + 1
    BY <2>2 DEF Requested, TypeOK, Engine
  <2> HIDE DEF m
  <2> QED
    BY <2>1, <2>2, <2>3, MadeFirst
<1> QED
  BY <1>1, <1>2

LEMMA SpeakFirst ==
    ASSUME KnownOnly, HeardFirst, TypeOK, TypeOK', NEW a \in Apps, Speak(a)
    PROVE  KnownOnly' /\ HeardFirst'
<1> DEFINE n == engine.next
<1>1. /\ CanRequest
      /\ engine' = Requested(StoppedOf(a), n)
      /\ requestMemo' = [requestMemo EXCEPT ![n] = MemoFor(a, NoReq)]
      /\ appRequestMemo' = [appRequestMemo EXCEPT ![a] = n]
      /\ told' = [CancelTold(a) EXCEPT ![a][n] = {"asked"}]
      /\ delayed' = delayed
  BY DEF Speak
<1>2. engine'.next = n + 1
  <2>1. StoppedOf(a) \in Engine /\ StoppedOf(a).next = n
    BY StoppedFacts, TypedMemos DEF StoppedOf, TypeOK
  <2> QED
    BY <1>1, <2>1 DEF Requested, Engine
<1>3. n \in Ids
  BY <1>1, TtsdAssumption DEF CanRequest, TypeOK, Engine, Ids
<1>4. CancelTold(a) \in [Apps -> [Ids -> SUBSET ({"asked", "start"} \cup Terminations)]]
  BY CancelTyped
<1> HIDE DEF n
<1>5. \A id \in Ids \ {n} : requestMemo[id] # NoMemo =>
               \A b \in Apps : told'[b][id] = told[b][id]
  <2> TAKE id \in Ids \ {n}
  <2> SUFFICES ASSUME requestMemo[id] # NoMemo, NEW b \in Apps
               PROVE  told'[b][id] = told[b][id]
    OBVIOUS
  <2>1. told'[b][id] = CancelTold(a)[b][id]
    BY <1>1, <1>3, <1>4
  <2> QED
    BY <2>1, CancelFacts
<1>6. told'[a][n] = {"asked"}
  BY <1>1, <1>3, <1>4
<1>7. told'[a][n] \cap Terminations = {}
  BY <1>6 DEF Terminations
<1>8. NoReq \in IdOrNone /\ Known(NoReq)
  BY DEF IdOrNone, Known
<1> QED
  BY <1>1, <1>2, <1>5, <1>7, <1>8, MadeFirst DEF n

LEMMA StopFirst ==
    ASSUME KnownOnly, HeardFirst, TypeOK, TypeOK', NEW a \in Apps, Stop(a)
    PROVE  KnownOnly' /\ HeardFirst'
<1>1. /\ engine' = StoppedOf(a)
      /\ appRequestMemo' = [appRequestMemo EXCEPT
                              ![a] = IF LiveMemo(a) = NoMemo THEN @ ELSE NoReq]
      /\ told' = CancelTold(a)
      /\ UNCHANGED <<requestMemo, delayed>>
  BY DEF Stop
<1>2. engine'.next = engine.next
  BY <1>1, StoppedFacts, TypedMemos DEF StoppedOf
<1>3. \A b \in Apps : Known(appRequestMemo'[b])
  BY <1>1 DEF KnownOnly, TypeOK, Known
<1>4. \A id \in Ids : Heard(id)' => told'[requestMemo[id].app][id] = told[requestMemo[id].app][id]
  <2> TAKE id \in Ids
  <2> HAVE Heard(id)'
  <2>1. requestMemo[id] # NoMemo /\ requestMemo[id] \in Memo
    BY <1>1 DEF Heard, TypeOK
  <2>2. requestMemo[id].app \in Apps
    BY <2>1 DEF Memo
  <2> QED
    BY <1>1, <2>1, <2>2, CancelFacts
<1> QED
  BY <1>1, <1>2, <1>3, <1>4, NothingNew DEF TypeOK

LEMMA ResetFirst ==
    ASSUME KnownOnly, HeardFirst, TypeOK, TypeOK', Reset
    PROVE  KnownOnly' /\ HeardFirst'
<1>1. /\ engine' = Stopped({id \in Ids : requestMemo[id] # NoMemo})
      /\ requestMemo' = [id \in Ids |-> NoMemo]
      /\ appRequestMemo' = [a \in Apps |-> NoReq]
      /\ UNCHANGED <<delayed, told>>
  BY DEF Reset
<1>2. engine'.next = engine.next
  BY <1>1, StoppedFacts, TypedMemos
<1>3. \A b \in Apps : Known(appRequestMemo'[b])
  BY <1>1 DEF Known
<1> QED
  BY <1>1, <1>2, <1>3, NothingNew DEF TypeOK

\* The first connection finds no request.
LEMMA ConnectFirst ==
    ASSUME MaxSessions = 1, FirstIInv, TypeOK', Connect
    PROVE  KnownOnly' /\ HeardFirst'
<1>1. TypeOK /\ KnownOnly /\ HeardFirst /\ Unconnected
  BY DEF FirstIInv, PlayingIInv, IInv
<1>2. engine.session = 0
  BY <1>1, TtsdAssumption DEF Connect, TypeOK, Engine
<1>3. engine'.next = engine.next /\ UNCHANGED <<requestMemo, appRequestMemo, delayed, told>>
  BY <1>1, <1>2 DEF Connect, ServiceVars, Unconnected
<1>4. \A b \in Apps : Known(appRequestMemo'[b])
  BY <1>1, <1>3 DEF KnownOnly
<1> QED
  BY <1>1, <1>3, <1>4, NothingNew DEF TypeOK

LEMMA EngineFirst ==
    ASSUME KnownOnly, HeardFirst, TypeOK, TypeOK', EngineNext
    PROVE  KnownOnly' /\ HeardFirst'
<1>1. engine'.next = engine.next /\ UNCHANGED <<requestMemo, appRequestMemo, delayed, told>>
  BY DEF EngineNext, EngineStarts, EngineFinishes, Removed, ServiceVars, TypeOK, Engine
<1>2. \A b \in Apps : Known(appRequestMemo'[b])
  BY <1>1 DEF KnownOnly
<1> QED
  BY <1>1, <1>2, NothingNew DEF TypeOK

LEMMA OnStartFirst ==
    ASSUME KnownOnly, HeardFirst, TypeOK, TypeOK', OnStart
    PROVE  KnownOnly' /\ HeardFirst'
<1> DEFINE id == Head(posted).id
           memo == requestMemo[id]
<1>1. id \in Ids
  <2>1. Head(posted) \in Posted
    BY DEF OnStart, TypeOK
  <2> QED
    BY <2>1 DEF Posted
<1>2. /\ requestMemo' = IF memo = NoMemo
                        THEN requestMemo
                        ELSE [requestMemo EXCEPT ![id].started = TRUE]
      /\ told' = IF memo = NoMemo \/ memo.eventMasked \/ memo.masqueradeId # NoReq
                 THEN told
                 ELSE Tell(memo.app, id, "start")
      /\ UNCHANGED <<appRequestMemo, engine, delayed>>
  BY DEF OnStart
<1> HIDE DEF id
<1>3. memo # NoMemo => memo \in Memo
  BY <1>1 DEF TypeOK
<1>4. \A x \in Ids : requestMemo'[x] # NoMemo =>
               /\ requestMemo[x] # NoMemo
               /\ requestMemo'[x].app = requestMemo[x].app
               /\ requestMemo'[x].masqueradeId = requestMemo[x].masqueradeId
               /\ requestMemo[x].eventMasked => requestMemo'[x].eventMasked
  <2> TAKE x \in Ids
  <2>1. CASE x # id \/ memo = NoMemo
    BY <1>2, <2>1 DEF TypeOK
  <2>2. CASE x = id /\ memo # NoMemo
    <3>1. requestMemo'[x] = [memo EXCEPT !.started = TRUE]
      BY <1>1, <1>2, <2>2 DEF TypeOK
    <3> QED
      BY <1>3, <2>2, <3>1 DEF Memo
  <2> QED
    BY <2>1, <2>2
<1>5. \A b \in Apps, x \in Ids : told'[b][x] \cap Terminations = told[b][x] \cap Terminations
  <2>1. CASE memo = NoMemo \/ memo.eventMasked \/ memo.masqueradeId # NoReq
    BY <1>2, <2>1
  <2>2. CASE ~(memo = NoMemo \/ memo.eventMasked \/ memo.masqueradeId # NoReq)
    <3>1. memo.app \in Apps
      BY <1>3, <2>2 DEF Memo
    <3>2. told' = Tell(memo.app, id, "start")
      BY <1>2, <2>2
    <3> DEFINE app == memo.app
    <3> HIDE DEF app
    <3>3. app \in Apps /\ told' = Tell(app, id, "start")
      BY <3>1, <3>2 DEF app
    <3>4. ASSUME NEW b \in Apps, NEW x \in Ids
          PROVE  told'[b][x] = IF b = app /\ x = id THEN told[b][x] \cup {"start"} ELSE told[b][x]
      BY <1>1, <3>3, TellFacts
    <3>5. "start" \notin Terminations
      BY DEF Terminations
    <3> QED
      BY <3>4, <3>5
  <2> QED
    BY <2>1, <2>2
<1>6. \A x \in Ids : Heard(x)' => requestMemo[x].app \in Apps
  BY <1>4 DEF Heard, TypeOK, Memo
<1>7. \A b \in Apps : Known(appRequestMemo'[b])
  BY <1>2 DEF KnownOnly
<1> QED
  BY <1>2, <1>4, <1>5, <1>6, <1>7, NothingNew DEF TypeOK

LEMMA TimerFirst ==
    ASSUME KnownOnly, HeardFirst, TypeOK, TypeOK', NEW t \in delayed, TimerFires(t)
    PROVE  KnownOnly' /\ HeardFirst'
<1>1. /\ delayed' = delayed \ {t} /\ told' = Tell(t.app, t.name, t.event)
      /\ UNCHANGED <<requestMemo, appRequestMemo, engine>>
  BY DEF TimerFires
<1>2. t.app \in Apps /\ t.name \in Ids
  BY DEF TypeOK, Termination
<1>3. \A id \in Ids : Heard(id)' => told'[requestMemo[id].app][id] = told[requestMemo[id].app][id]
  <2> TAKE id \in Ids
  <2> HAVE Heard(id)'
  <2>1. Heard(id) /\ requestMemo[id] \in Memo
    BY <1>1 DEF Heard, TypeOK
  <2>2. requestMemo[id].app \in Apps /\ Untold(requestMemo[id].app, id)
    BY <2>1 DEF Memo, HeardFirst
  <2>3. ~(requestMemo[id].app = t.app /\ id = t.name)
    BY <2>2 DEF Untold
  <2> DEFINE app == requestMemo[id].app
  <2>4. app \in Apps
    BY <2>2
  <2> HIDE DEF app
  <2>5. Tell(t.app, t.name, t.event)[app][id] =
          IF app = t.app /\ id = t.name THEN told[app][id] \cup {t.event} ELSE told[app][id]
    BY <1>2, <2>4 DEF Tell, TypeOK
  <2> QED
    BY <1>1, <2>3, <2>5 DEF app
<1>4. \A b \in Apps : Known(appRequestMemo'[b])
  BY <1>1 DEF KnownOnly
<1> QED
  BY <1>1, <1>3, <1>4, NothingNew DEF TypeOK
LEMMA OnTerminationFirst ==
    ASSUME KnownOnly, HeardFirst, TypeOK, OnTtsTermination
    PROVE  KnownOnly' /\ HeardFirst'
<1> DEFINE id == Head(posted).id
           memo == requestMemo[id]
           event == Head(posted).event
<1>1. id \in Ids
  <2>1. Head(posted) \in Posted
    BY DEF OnTtsTermination, TypeOK
  <2> QED
    BY <2>1 DEF Posted
<1>2. /\ requestMemo' = [requestMemo EXCEPT ![id] = NoMemo]
      /\ delayed' = delayed \cup Held(id, event)
      /\ UNCHANGED <<appRequestMemo, engine, told>>
  BY DEF OnTtsTermination
<1> HIDE DEF id, event
<1>3. \A t \in Held(id, event) : memo # NoMemo /\ t.app = memo.app /\ t.name = KnownAs(id)
  BY DEF Held, HeldOf
<1>4. \A x \in Ids : requestMemo'[x] # NoMemo => x # id /\ requestMemo'[x] = requestMemo[x]
  BY <1>1, <1>2 DEF TypeOK
<1>5. memo # NoMemo => KnownAs(id) < engine.next
  BY <1>1 DEF KnownOnly, KnownAs, Known
<1>6. \A t \in delayed' : t.name < engine'.next
  BY <1>2, <1>3, <1>5 DEF KnownOnly
<1>7. \A b \in Apps : Known(appRequestMemo[b])'
  BY <1>2 DEF KnownOnly, Known
<1>8. KnownOnly'
  BY <1>2, <1>4, <1>6, <1>7 DEF KnownOnly, Known
<1>9. ASSUME NEW x \in Ids, Heard(x)'
      PROVE  Untold(requestMemo[x].app, x)'
  <2> DEFINE a == requestMemo[x].app
  <2>1. x # id /\ requestMemo'[x] = requestMemo[x] /\ Heard(x)
    BY <1>4, <1>9 DEF Heard
  <2>2. Untold(a, x)
    BY <2>1 DEF HeardFirst
  <2>3. \A t \in Held(id, event) : t.app = a => t.name # x
    BY <1>1, <1>3, <2>1, <2>2 DEF Untold, KnownAs
  <2>4. requestMemo'[x].app = a
    BY <2>1
  <2> HIDE DEF a
  <2>5. /\ told'[a][x] \cap Terminations = {}
        /\ \A t \in delayed' : t.app = a => t.name # x
        /\ \A n \in Ids : requestMemo'[n] # NoMemo /\ requestMemo'[n].app = a
                            => requestMemo'[n].masqueradeId # x
    BY <1>2, <1>4, <2>2, <2>3 DEF Untold
  <2> QED
    BY <2>4, <2>5 DEF Untold
<1> QED
  BY <1>8, <1>9 DEF HeardFirst

LEMMA FirstStep ==
    ASSUME MaxSessions = 1, FirstIInv, [Next]_vars
    PROVE  FirstIInv'
<1>1. PlayingIInv /\ PlayingIInv' /\ TypeOK /\ TypeOK' /\ KnownOnly /\ HeardFirst
  BY PlayingStep DEF FirstIInv, PlayingIInv, IInv
<1>2. ASSUME UNCHANGED <<requestMemo, appRequestMemo, engine, delayed, told>>
      PROVE  KnownOnly' /\ HeardFirst'
  BY <1>1, <1>2 DEF KnownOnly, Known, HeardFirst, Heard, Untold
<1>3. ASSUME NEW a \in Apps, Speak(a) \/ Stop(a) \/ PauseByOs(a) \/ ResumeByOs(a)
      PROVE  KnownOnly' /\ HeardFirst'
  BY <1>1, <1>3, SpeakFirst, StopFirst, PauseFirst, ResumeFirst DEF PauseByOs, ResumeByOs
<1>4. ASSUME VoiceComing PROVE KnownOnly' /\ HeardFirst'
  <2>1. CASE playingReqId = NoReq \/ requestMemo[playingReqId] = NoMemo
    BY <1>2, <1>4, <2>1 DEF VoiceComing
  <2>2. CASE ~(playingReqId = NoReq \/ requestMemo[playingReqId] = NoMemo)
    <3>1. requestMemo[playingReqId] \in Memo
      BY <1>1, <2>2 DEF TypeOK, IdOrNone
    <3>2. requestMemo[playingReqId].app \in Apps
      BY <3>1 DEF Memo
    <3> QED
      BY <1>1, <1>4, <2>2, <3>2, PauseFirst DEF VoiceComing
  <2> QED
    BY <2>1, <2>2
<1>5. ASSUME NEW a \in Apps \cup {Nobody}, ResetAwaken(a) PROVE KnownOnly' /\ HeardFirst'
  BY <1>1, <1>2, <1>5, ResumeFirst DEF ResetAwaken, Interrupted
<1>6. KnownOnly' /\ HeardFirst'
  <2>1. CASE UNCHANGED vars
    BY <1>2, <2>1 DEF vars
  <2>2. CASE Reset \/ Connect \/ EngineNext
    BY <1>1, <2>2, ResetFirst, ConnectFirst, EngineFirst
  <2>3. CASE ServiceNext
    BY <1>1, <2>3, OnStartFirst, OnTerminationFirst, TimerFirst DEF ServiceNext
  <2> QED
    BY <1>3, <1>4, <1>5, <2>1, <2>2, <2>3 DEF Next
<1> QED
  BY <1>1, <1>6 DEF FirstIInv

LEMMA FirstInit == Init => FirstIInv
<1> SUFFICES ASSUME Init PROVE FirstIInv
  OBVIOUS
<1>1. (\A id \in Ids : requestMemo[id] = NoMemo) /\ (\A a \in Apps : appRequestMemo[a] = NoReq) /\ delayed = {}
  BY DEF Init
<1> QED
  BY <1>1, PlayingInit DEF FirstIInv, KnownOnly, Known, HeardFirst, Heard

\* Only onStart tells an app of a start, and only of a request it was told
\* no end of.
LEMMA StartTold ==
    ASSUME TypeOK, HeardFirst, [Next]_vars, NEW a \in Apps, NEW id \in Ids,
           "start" \in told'[a][id] \ told[a][id]
    PROVE  told[a][id] \cap Terminations = {}
<1>1. "start" \notin Terminations /\ "start" # "cancel" /\ "start" # "asked"
  BY DEF Terminations
<1>2. CASE told' = told
  BY <1>2
<1>3. ASSUME NEW b \in Apps, told' = CancelTold(b) PROVE FALSE
  BY <1>1, <1>3, CancelFacts
<1>4. ASSUME NEW b \in Apps, Speak(b) PROVE FALSE
  <2>1. told' = [CancelTold(b) EXCEPT ![b][engine.next] = {"asked"}]
    BY <1>4 DEF Speak
  <2>2. CancelTold(b) \in [Apps -> [Ids -> SUBSET ({"asked", "start"} \cup Terminations)]]
    BY CancelTyped
  <2>3. told'[b] = [CancelTold(b)[b] EXCEPT ![engine.next] = {"asked"}] /\ (a # b => told'[a] = CancelTold(b)[a])
    BY <2>1, <2>2
  <2>4. told'[a][id] = CancelTold(b)[a][id] \/ told'[a][id] = {"asked"}
    BY <2>2, <2>3
  <2> QED
    BY <1>1, <2>4, CancelFacts
<1>5. ASSUME NEW t \in delayed, TimerFires(t) PROVE FALSE
  <2>1. t.app \in Apps /\ t.name \in Ids /\ t.event \in Terminations /\ told' = Tell(t.app, t.name, t.event)
    BY <1>5 DEF TypeOK, Termination, TimerFires
  <2>2. told'[a][id] \subseteq told[a][id] \cup {t.event}
    BY <2>1 DEF Tell, TypeOK
  <2> QED
    BY <1>1, <2>1, <2>2
<1>6. CASE OnStart
  <2> DEFINE n == Head(posted).id
             memo == requestMemo[n]
  <2>1. told' = told \/ (Heard(n) /\ told' = Tell(memo.app, n, "start"))
    BY <1>6 DEF OnStart, Heard
  <2>2. Head(posted) \in Posted
    BY <1>6 DEF OnStart, TypeOK
  <2>3. n \in Ids
    BY <2>2 DEF Posted
  <2> HIDE DEF n
  <2>4. CASE Heard(n) /\ told' = Tell(memo.app, n, "start")
    <3>1. memo \in Memo
      BY <2>3, <2>4 DEF Heard, TypeOK
    <3>2. memo.app \in Apps
      BY <3>1 DEF Memo
    <3>3. a = memo.app /\ id = n
      BY <2>3, <2>4, <3>2 DEF Tell, TypeOK
    <3>4. Untold(memo.app, n)
      BY <2>3, <2>4 DEF HeardFirst
    <3> QED
      BY <3>3, <3>4 DEF Untold
  <2> QED
    BY <2>1, <2>4
<1>7. \/ told' = told
      \/ \E b \in Apps : told' = CancelTold(b) \/ Speak(b)
      \/ \E t \in delayed : TimerFires(t)
      \/ OnStart
  BY DEF Next, vars, Stop, PauseByOs, ResumeByOs, Reset, VoiceComing, ResetAwaken, Connect,
         ServiceVars, EngineNext, EngineStarts, EngineFinishes, ServiceNext, OnTtsTermination
<1> QED
  BY <1>2, <1>3, <1>4, <1>5, <1>6, <1>7

\* On one connection, no app hears the start of a request it has heard the
\* end of: a resumed request masquerades, and a termination that a timer
\* holds back is of a request whose memo is gone (onStart, onTtsTermination).
THEOREM StartsFirst ==
    ASSUME MaxSessions = 1
    PROVE  Spec => StartFirst
<1>1. FirstIInv /\ [Next]_vars => FirstIInv'
  BY FirstStep
<1>2. FirstIInv /\ [Next]_vars =>
          [\A a \in Apps, id \in Ids :
              "start" \in told'[a][id] \ told[a][id]
                  => told[a][id] \cap Terminations = {}]_vars
  BY StartTold DEF FirstIInv, PlayingIInv, IInv
<1> QED
  BY <1>1, <1>2, FirstInit, PTL DEF Spec, StartFirst

=============================================================================
