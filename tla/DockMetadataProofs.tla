------------------------- MODULE DockMetadataProofs -------------------------
(***************************************************************************)
(* Proofs about the metadata page, for any data directories, names and     *)
(* number of matches.                                                      *)
(***************************************************************************)
EXTENDS DockMetadata, SequenceTheorems, WellFoundedInduction, TLAPS

\* The matches and the page are well-formed.
Data ==
    /\ dir \in Directory
    /\ matches \in [Directory -> Seq(Fields)]
    /\ running \in BOOLEAN
    /\ last \in Name \cup {NoName}
    /\ page \in Page

\* So is the rest, which nothing else depends on.
Control ==
    /\ worker \in {"up", "busy", "down"}
    /\ loaded \in BOOLEAN /\ offered \subseteq Button

\* A match on the page has no memo but its own.
PageIsOfOneMatch ==
    /\ page.id # 0 => page.memo \in {Nowhere, <<page.of, page.id>>}
    /\ page.image # Nowhere => page.id # 0 /\ page.image = <<page.of, page.id>>

\* A page that can be saved, or counts as loaded, is of the Worker's directory.
PageIsOfWorker == page.id # 0 /\ (loaded \/ offered # {}) => page.of = dir

IInv == Data /\ NoForeignText /\ PageIsOfOneMatch /\ PageIsOfWorker

-----------------------------------------------------------------------------

\* The page a match makes when it is loaded, which is one of the Worker's.
FreshPage ==
    /\ page' \in Page
    /\ page'.of = dir /\ page'.id # 0
    /\ page'.memo \in {Nowhere, <<dir, page'.id>>}
    /\ page'.image \in {Nowhere, <<dir, page'.id>>}

\* A page whose image is another one is a page.
LEMMA ImageIsPage ==
    ASSUME page \in Page, NEW image \in Memo
    PROVE  [page EXCEPT !.image = image] \in Page
BY DEF Page

\* So is one without a match.
LEMMA WithoutIsPage ==
    ASSUME page \in Page
    PROVE  /\ Without \in Page
           /\ Without.id = 0 /\ Without.image = Nowhere
<1> DEFINE unnumbered == [page EXCEPT !.id = 0]
<1>1. unnumbered \in Page /\ unnumbered.id = 0
  BY DEF Page
<1>2. Without = [unnumbered EXCEPT !.image = Nowhere]
  BY DEF Without
<1> HIDE DEF unnumbered
<1> QED
  BY <1>1, <1>2 DEF Page, Memo

\* An image is of the match it was asked for, and none is without a match.
LEMMA ImageIsAsked ==
    ASSUME NEW id, NEW image \in Images(id)
    PROVE  image = Nowhere \/ (id # 0 /\ image = <<dir, id>>)
BY DEF Images, Here, Forwarded, Api!fetch_match_video_preview

\* Only a match that is there is found.
LEMMA FoundIsThere ==
    ASSUME NEW id, NEW status \in Answers,
           \/ Forwarded(Api!fetch_latest_match(Found(id, status))) = "accepted"
           \/ Forwarded(Api!fetch_match(id, Found(id, status))) = "accepted"
    PROVE  id \in DOMAIN matches[dir]
BY DEF Answers, Forwarded, Found, Api!fetch_latest_match, Api!fetch_match, Api!Verdict,
       Api!Full, Api!NoAnswer

\* The fields of a match, as they are found.
LEMMA MatchTypes ==
    ASSUME Data, NEW d \in Directory, NEW i \in DOMAIN matches[d]
    PROVE  matches[d][i] \in Fields /\ i \in Nat /\ i # 0
<1>1. matches[d] \in Seq(Fields)
  BY DEF Data
<1>2. i \in 1 .. Len(matches[d])
  BY <1>1, LenProperties
<1> QED
  BY <1>1, <1>2, ElementOfSeq

\* Showing a match makes a page of it.
LEMMA ShowingIsFresh ==
    ASSUME Data, NoForeignText, NEW id \in DOMAIN matches[dir], NEW image \in Images(id),
           page' = Showing(id, image)
    PROVE  FreshPage
<1>1. dir \in Directory /\ matches[dir][id] \in Fields /\ id \in Nat /\ id # 0
  BY MatchTypes DEF Data
<1>2. image \in {Nowhere, <<dir, id>>}
  BY ImageIsAsked
<1>3. matches[dir][id].memo \in {Nowhere, <<dir, id>>}
  BY <1>1 DEF NoForeignText
<1>4. page' = [id |-> id, of |-> dir, memo |-> matches[dir][id].memo, image |-> image,
               name |-> IF matches[dir][id].name = NoName THEN last ELSE matches[dir][id].name]
  BY DEF Showing
<1>5. /\ page'.id = id /\ page'.of = dir /\ page'.memo = matches[dir][id].memo
      /\ page'.image = image
      /\ page'.name \in Name \cup {NoName}
  BY <1>1, <1>4 DEF Data, Fields
<1>6. {page'.memo, page'.image} \subseteq Memo
  BY <1>1, <1>2, <1>3, <1>5 DEF Memo
<1>7. page' \in Page
  BY <1>1, <1>4, <1>5, <1>6 DEF Page
<1> QED
  BY <1>1, <1>2, <1>3, <1>5, <1>7 DEF FreshPage

\* Loading the latest match makes a page of it or leaves one without a match.
LEMMA LatestIsFresh ==
    ASSUME Data, NoForeignText, page' \in Latest
    PROVE  FreshPage \/ page' = Without
<1>1. CASE page' = Without
  BY <1>1
<1>2. CASE page' # Without
  <2>1. PICK status \in Answers, image \in Images(Recorded(dir)) :
           /\ Forwarded(Api!fetch_latest_match(Found(Recorded(dir), status))) = "accepted"
           /\ page' = Showing(Recorded(dir), image)
    BY <1>2 DEF Latest
  <2>2. Recorded(dir) \in DOMAIN matches[dir]
    BY <2>1, FoundIsThere
  <2> QED
    BY <2>1, <2>2, ShowingIsFresh
<1> QED
  BY <1>1, <1>2

\* Loading a match makes a page of it or leaves the page as it is.
LEMMA MatchIsFresh ==
    ASSUME Data, NoForeignText, NEW id, page' \in Match(id)
    PROVE  FreshPage \/ page' = page
<1>1. CASE page' = page
  BY <1>1
<1>2. CASE page' # page
  <2>1. PICK status \in Answers, image \in Images(id) :
           /\ Forwarded(Api!fetch_match(id, Found(id, status))) = "accepted"
           /\ page' = Showing(id, image)
    BY <1>2 DEF Match
  <2>2. id \in DOMAIN matches[dir]
    BY <2>1, FoundIsThere
  <2> QED
    BY <2>1, <2>2, ShowingIsFresh
<1> QED
  BY <1>1, <1>2

-----------------------------------------------------------------------------

\* A page on which nothing, or a match of the Worker, was loaded keeps the
\* invariant, whatever the flag and the buttons become.
LEMMA LoadingKeeps ==
    ASSUME IInv, FreshPage \/ page' = Without,
           UNCHANGED <<dir, matches, last>>, running' \in BOOLEAN
    PROVE  IInv'
<1>1. Data'
  <2>1. page' \in Page
    BY WithoutIsPage DEF IInv, Data, FreshPage
  <2> QED
    BY <2>1 DEF IInv, Data
<1>2. NoForeignText'
  BY DEF IInv, NoForeignText
<1>3. CASE FreshPage
  <2>1. Nowhere # <<dir, page'.id>> /\ PageIsOfOneMatch' /\ PageIsOfWorker'
    BY <1>3 DEF FreshPage, PageIsOfOneMatch, PageIsOfWorker, Nowhere
  <2> QED
    BY <1>1, <1>2, <2>1 DEF IInv
<1>4. CASE page' = Without
  <2>1. page'.id = 0 /\ page'.image = Nowhere
    BY <1>4, WithoutIsPage DEF IInv, Data
  <2> QED
    BY <1>1, <1>2, <2>1 DEF IInv, PageIsOfOneMatch, PageIsOfWorker
<1> QED
  BY <1>3, <1>4

\* A page that stays keeps the invariant while the Worker is where it was and
\* nothing is offered or counts as loaded that did not before.
LEMMA StayingKeeps ==
    ASSUME IInv, UNCHANGED <<dir, matches, page>>,
           running' \in BOOLEAN, last' \in Name \cup {NoName},
           (loaded' \/ offered' # {}) => (loaded \/ offered # {})
    PROVE  IInv'
BY DEF IInv, Data, NoForeignText, PageIsOfOneMatch, PageIsOfWorker

\* Saving the page writes its memo to the match it was written for.
LEMMA PutKeeps ==
    ASSUME Data, NoForeignText, NEW p \in Page,
           p.id # 0, p.of = dir, p.memo \in {Nowhere, <<p.of, p.id>>},
           Put(p)
    PROVE  matches' \in [Directory -> Seq(Fields)] /\ NoForeignText'
<1>1. CASE UNCHANGED matches
  BY <1>1 DEF Data, NoForeignText
<1>2. CASE matches' # matches
  <2> DEFINE new == [name |-> p.name, number |-> NumberFor(p.id, p.name), memo |-> p.memo]
  <2>1. /\ p.id \in DOMAIN matches[dir]
        /\ NumberFor(p.id, p.name) \in 0 .. MaxNumber
        /\ matches' = [matches EXCEPT ![dir][p.id] = new]
    BY <1>2, Zenon DEF Put, UpdateMatch
  <2>2. new \in Fields
    BY <2>1, MetadataAssumption DEF Page, Fields
  <2> HIDE DEF new
  <2>3. dir \in Directory /\ matches[dir] \in Seq(Fields)
    BY DEF Data
  <2>4. p.id \in 1 .. Len(matches[dir])
    BY <2>1, <2>3, LenProperties
  <2> DEFINE saved == [matches[dir] EXCEPT ![p.id] = new]
  <2>5. saved \in Seq(Fields)
    BY <2>2, <2>3, <2>4, ExceptSeq
  <2>6. matches' = [matches EXCEPT ![dir] = saved]
    BY <2>1
  <2>7. matches' \in [Directory -> Seq(Fields)]
    BY <2>5, <2>6 DEF Data
  <2>8. new.memo \in {Nowhere, <<dir, p.id>>}
    BY DEF new
  <2>9. ASSUME NEW d \in Directory, NEW i \in DOMAIN matches'[d]
        PROVE  matches'[d][i].memo \in {Nowhere, <<d, i>>}
    <3>1. CASE d = dir
      <4>1. matches'[d] = saved
        BY <2>3, <2>6, <3>1 DEF Data
      <4>2. i \in DOMAIN matches[dir] /\ saved[i] = IF i = p.id THEN new ELSE matches[dir][i]
        BY <2>9, <4>1
      <4> QED
        BY <2>3, <2>8, <3>1, <4>1, <4>2 DEF NoForeignText
    <3>2. CASE d # dir
      <4>1. matches'[d] = matches[d]
        BY <2>6, <3>2 DEF Data
      <4> QED
        BY <2>9, <4>1 DEF NoForeignText
    <3> QED
      BY <3>1, <3>2
  <2> QED
    BY <2>7, <2>9 DEF NoForeignText, Nowhere
<1> QED
  BY <1>1, <1>2

-----------------------------------------------------------------------------

\* The invariant holds at the start.
LEMMA InvariantInit ==
    ASSUME Init
    PROVE  IInv
<1>1. Data
  BY EmptySeq DEF Init, Data, Page, Memo, Nowhere
<1> QED
  BY <1>1 DEF Init, IInv, NoForeignText, PageIsOfOneMatch, PageIsOfWorker, Nowhere

\* A new match has no memo yet.
LEMMA RecordKeeps ==
    ASSUME IInv, Record
    PROVE  IInv'
<1>1. dir \in Directory /\ matches[dir] \in Seq(Fields) /\ NewMatch \in Fields
  BY DEF IInv, Data, NewMatch, Fields, Memo
<1>2. matches' = [matches EXCEPT ![dir] = Append(matches[dir], NewMatch)]
  BY DEF Record
<1> DEFINE appended == Append(matches[dir], NewMatch)
<1>3. /\ appended \in Seq(Fields)
      /\ Len(appended) = Len(matches[dir]) + 1
      /\ \A i \in 1 .. Len(matches[dir]) : appended[i] = matches[dir][i]
      /\ appended[Len(matches[dir]) + 1] = NewMatch
  BY <1>1, AppendProperties
<1>4. Data'
  BY <1>1, <1>2, <1>3 DEF Record, IInv, Data
<1>5. ASSUME NEW d \in Directory, NEW i \in DOMAIN matches'[d]
      PROVE  matches'[d][i].memo \in {Nowhere, <<d, i>>}
  <2>1. CASE d = dir
    <3>1. matches'[d] = appended
      BY <1>1, <1>2, <2>1 DEF IInv, Data
    <3>2. i \in 1 .. Len(matches[dir]) + 1
      BY <1>1, <1>3, <1>5, <3>1, LenProperties
    <3>3. CASE i = Len(matches[dir]) + 1
      BY <1>3, <3>1, <3>3 DEF NewMatch
    <3>4. CASE i \in 1 .. Len(matches[dir])
      BY <1>1, <1>3, <2>1, <3>1, <3>4, LenProperties DEF IInv, NoForeignText
    <3> QED
      BY <1>1, <3>2, <3>3, <3>4, LenProperties
  <2>2. CASE d # dir
    <3>1. matches'[d] = matches[d]
      BY <1>2, <2>2 DEF IInv, Data
    <3> QED
      BY <1>5, <3>1 DEF IInv, NoForeignText
  <2> QED
    BY <2>1, <2>2
<1> QED
  BY <1>4, <1>5 DEF Record, IInv, NoForeignText, PageIsOfOneMatch, PageIsOfWorker, Nowhere

\* What the operator types is for the match on the page.
LEMMA TypeKeeps ==
    ASSUME IInv, Type
    PROVE  IInv'
<1>1. page \in Page
  BY DEF IInv, Data
<1>2. CASE page' = [page EXCEPT !.memo = <<page.of, page.id>>]
  <2>1. page' \in Page
    BY <1>1, <1>2 DEF Page, Memo
  <2>2. /\ page'.id = page.id /\ page'.of = page.of /\ page'.image = page.image
        /\ page'.memo = <<page'.of, page'.id>>
    BY <1>1, <1>2 DEF Page
  <2> QED
    BY <2>1, <2>2 DEF Type, IInv, Data, NoForeignText, PageIsOfOneMatch, PageIsOfWorker
<1>3. ASSUME NEW name \in Name, page' = [page EXCEPT !.name = name]
      PROVE  IInv'
  <2>1. page' \in Page
    BY <1>1, <1>3 DEF Page
  <2>2. /\ page'.id = page.id /\ page'.of = page.of /\ page'.image = page.image
        /\ page'.memo = page.memo
    BY <1>1, <1>3 DEF Page
  <2> QED
    BY <2>1, <2>2 DEF Type, IInv, Data, NoForeignText, PageIsOfOneMatch, PageIsOfWorker
<1> QED
  BY <1>2, <1>3 DEF Type

\* Saving keeps the page, or saves the latest match in its place.
LEMMA SaveKeeps ==
    ASSUME IInv, Save
    PROVE  IInv'
<1>1. PICK p \in IF page.id = 0 THEN Latest ELSE {page} :
         /\ page' = p
         /\ IF p.id = 0 THEN UNCHANGED <<matches, odd, last>>
            ELSE last' \in {last, p.name} /\ Put(p)
  BY DEF Save
<1>2. UNCHANGED <<dir, running, loaded, offered>> /\ offered # {}
  BY DEF Save
<1>3. FreshPage \/ page' = Without \/ (page' = page /\ page.id # 0)
  BY <1>1, LatestIsFresh DEF IInv
<1>4. page' \in Page
  BY <1>3, WithoutIsPage DEF IInv, Data, FreshPage
<1>5. page'.id # 0 => page'.of = dir /\ page'.memo \in {Nowhere, <<dir, page'.id>>}
  BY <1>2, <1>3, WithoutIsPage DEF IInv, Data, FreshPage, PageIsOfOneMatch, PageIsOfWorker
<1>6. page'.image # Nowhere => page'.id # 0 /\ page'.image = <<page'.of, page'.id>>
  BY <1>3, WithoutIsPage DEF IInv, Data, FreshPage, PageIsOfOneMatch
<1>7. matches' \in [Directory -> Seq(Fields)] /\ NoForeignText' /\ last' \in Name \cup {NoName}
  <2>1. CASE page'.id = 0
    BY <1>1, <2>1 DEF IInv, Data, NoForeignText
  <2>2. CASE page'.id # 0
    <3>1. last' \in Name \cup {NoName}
      BY <1>1, <1>4, <2>2 DEF IInv, Data, Page
    <3> QED
      BY <1>1, <1>4, <1>5, <2>2, <3>1, PutKeeps DEF IInv
  <2> QED
    BY <2>1, <2>2
<1> QED
  BY <1>2, <1>4, <1>5, <1>6, <1>7 DEF IInv, Data, PageIsOfOneMatch, PageIsOfWorker

\* Every step preserves the invariant.
LEMMA InvariantNext ==
    ASSUME IInv, [Next]_vars
    PROVE  IInv'
<1>1. CASE Record
  BY <1>1, RecordKeeps
<1>2. CASE WorkerChanges \/ WorkerStarts \/ Heartbeat
  <2>1. UNCHANGED <<dir, matches, page, last, loaded, offered>>
    BY <1>2 DEF WorkerChanges, WorkerStarts, Heartbeat
  <2>2. running' = running \/ running' = (worker = "up")
    BY <1>2 DEF WorkerChanges, WorkerStarts, Heartbeat
  <2>3. running' \in BOOLEAN
    BY <2>2, Zenon DEF IInv, Data
  <2> QED
    BY <2>1, <2>3, StayingKeeps DEF IInv, Data
<1>3. CASE Refresh
  <2>1. UNCHANGED <<dir, matches, running, last>> /\ running \in BOOLEAN
    BY <1>3 DEF Refresh, IInv, Data
  <2>2. CASE running /\ ~loaded
    BY <1>3, <2>1, <2>2, LatestIsFresh, LoadingKeeps DEF Refresh, IInv
  <2>3. CASE ~(running /\ ~loaded)
    BY <1>3, <2>1, <2>3, StayingKeeps DEF Refresh, Offered, LoadedAfter, IInv, Data
  <2> QED
    BY <2>2, <2>3
<1>4. CASE Type
  BY <1>4, TypeKeeps
<1>5. CASE TypeTemplate \/ Reload
  BY <1>5, LatestIsFresh, LoadingKeeps DEF TypeTemplate, Reload, IInv, Data
<1>6. CASE EditSelected
  <2>1. PICK id \in 1 .. MaxMatch : page' \in Match(id)
    BY <1>6 DEF EditSelected
  <2>2. FreshPage \/ page' = page
    BY <2>1, MatchIsFresh DEF IInv
  <2> QED
    BY <1>6, <2>2, LoadingKeeps, StayingKeeps DEF EditSelected, IInv, Data
<1>7. CASE ShowFrame
  <2>1. PICK image \in Images(page.id) : page' = [page EXCEPT !.image = image]
    BY <1>7 DEF ShowFrame
  <2>2. image = Nowhere \/ (page.id # 0 /\ page.of = dir /\ image = <<dir, page.id>>)
    BY <1>7, ImageIsAsked DEF ShowFrame, IInv, PageIsOfWorker
  <2>3. page \in Page /\ page' \in Page
    <3>1. page \in Page
      BY DEF IInv, Data
    <3>2. image \in Memo
      BY <2>2, <3>1 DEF IInv, Data, Page, Memo
    <3> QED
      BY <2>1, <3>1, <3>2, ImageIsPage
  <2>4. /\ page'.id = page.id /\ page'.of = page.of /\ page'.memo = page.memo
        /\ page'.image = image
    BY <2>1, <2>3 DEF Page
  <2> QED
    BY <1>7, <2>2, <2>3, <2>4
       DEF ShowFrame, IInv, Data, NoForeignText, PageIsOfOneMatch, PageIsOfWorker
<1>8. CASE Save
  BY <1>8, SaveKeeps
<1>9. CASE RestartWorker
  BY <1>9 DEF RestartWorker, LoadedAfter, IInv, Data, NoForeignText, PageIsOfOneMatch,
              PageIsOfWorker
<1>10. CASE UNCHANGED vars
  BY <1>10, StayingKeeps DEF vars, IInv, Data
<1> QED
  BY <1>1, <1>2, <1>3, <1>4, <1>5, <1>6, <1>7, <1>8, <1>9, <1>10 DEF Next

\* The rest is well-formed at the start.
LEMMA ControlInit ==
    ASSUME Init
    PROVE  Control
BY DEF Init, Control

\* It is so after every step.
LEMMA ControlNext ==
    ASSUME IInv, Control, [Next]_vars
    PROVE  Control'
<1>1. Offered(TRUE) \subseteq Button /\ Offered(FALSE) \subseteq Button
  BY DEF Offered, Button
<1>2. worker' \in {"up", "busy", "down"}
  BY DEF Control, Next, vars, Record, WorkerChanges, UploadBegins, UploadEnds, Crash, WorkerStarts,
         Heartbeat, Refresh, Type, TypeTemplate, Reload, EditSelected, ShowFrame, Save, RestartWorker
<1>3. loaded' \in {loaded, running, FALSE}
  BY DEF Next, vars, Record, WorkerChanges, WorkerStarts, Heartbeat, Refresh, Type, TypeTemplate,
         Reload, EditSelected, ShowFrame, Save, RestartWorker, LoadedAfter
<1>4. offered' \in {offered, {}, Offered(TRUE), Offered(FALSE)}
  BY DEF Next, vars, Record, WorkerChanges, WorkerStarts, Heartbeat, Refresh, Type, TypeTemplate,
         Reload, EditSelected, ShowFrame, Save, RestartWorker
<1>5. loaded' \in BOOLEAN
  BY <1>3 DEF Control, IInv, Data
<1> QED
  BY <1>1, <1>2, <1>4, <1>5 DEF Control

\* The invariant holds throughout.
THEOREM Invariant == Spec => []IInv
<1>1. Init => IInv
  BY InvariantInit
<1>2. IInv /\ [Next]_vars => IInv'
  BY InvariantNext
<1> QED
  BY <1>1, <1>2, PTL DEF Spec

\* The page and the matches stay well-formed, for any directories and names.
THEOREM TypeCorrect == Spec => []TypeOK
<1>1. Init => IInv /\ Control
  BY InvariantInit, ControlInit
<1>2. IInv /\ Control /\ [Next]_vars => (IInv /\ Control)'
  BY InvariantNext, ControlNext
<1>3. IInv /\ Control => TypeOK
  BY DEF IInv, Control, Data, TypeOK
<1> QED
  BY <1>1, <1>2, <1>3, PTL DEF Spec

\* A memo is only ever saved to the match it was written for, for any data
\* directories and matches.
THEOREM TextCorrect == Spec => []NoForeignText
<1>1. IInv => NoForeignText
  BY DEF IInv
<1> QED
  BY <1>1, Invariant, PTL

\* The preview image is that of the match on the page, or none.
THEOREM ImageCorrect == Spec => []ImageIsTargets
<1>1. IInv => ImageIsTargets
  BY DEF IInv, PageIsOfOneMatch, ImageIsTargets
<1> QED
  BY <1>1, Invariant, PTL

-----------------------------------------------------------------------------
(***************************************************************************)
(* The numbers of a deck.  A match that is numbered has a name, and a deck *)
(* some name of which the query for the next number misses is known.       *)
(***************************************************************************)

\* What a match says of itself, when the decks in known have an odd name.
Numbered(match, known) ==
    /\ match.number <= MaxNumber
    /\ match.number # 0 => match.name # NoName
    /\ match.name # NoName /\ match.name.odd => match.name.key \in known

\* Two matches of a deck whose names the query finds.
SameDeck(a, b, known) ==
    a.name # NoName /\ b.name # NoName /\ a.name.key = b.name.key /\ a.name.key \notin known

Numbering ==
    /\ \A d \in Directory : \A i \in DOMAIN matches[d] : Numbered(matches[d][i], odd)
    /\ DeckNumbersDistinct

\* A nonempty set of numbers up to a bound has a greatest one.
LEMMA MaxExists ==
    ASSUME NEW T \in SUBSET Nat, NEW bound \in Nat, \A x \in T : x <= bound, T # {}
    PROVE  Max(T) \in T /\ \A x \in T : x <= Max(T)
<1> DEFINE Left == {bound - x : x \in T}
<1>1. Left \in SUBSET Nat /\ Left # {}
  <2>1. \A x \in T : bound - x \in Nat
    OBVIOUS
  <2>2. PICK x \in T : TRUE
    OBVIOUS
  <2>3. bound - x \in Left
    OBVIOUS
  <2> QED
    BY <2>1, <2>3
<1>2. PICK least \in Left : \A y \in Left : ~(<<y, least>> \in OpToRel(<, Nat))
  BY <1>1, WFMin, NatLessThanWellFounded, Zenon
<1>3. \A y \in Left : ~(y < least)
  BY <1>1, <1>2, Zenon DEF OpToRel
<1>4. PICK greatest \in T : least = bound - greatest
  OBVIOUS
<1>5. \A x \in T : greatest >= x
  BY <1>3, <1>4
<1>6. Max(T) \in T /\ \A x \in T : Max(T) >= x
  BY <1>5, Zenon DEF Max
<1> QED
  BY <1>6

\* The next number is greater than those the query finds.
LEMMA NextNumberIsNew ==
    ASSUME Data, Numbering, NEW id, NEW name \in Name, name.key \notin odd,
           NEW j \in DOMAIN matches[dir], j # id,
           matches[dir][j].name # NoName, matches[dir][j].name.key = name.key
    PROVE  NextNumber(id, name) # matches[dir][j].number
<1> DEFINE others == {matches[dir][i] : i \in DOMAIN matches[dir] \ {id}}
           named == {m \in others : m.name # NoName /\ m.name.key = name.key /\ ~m.name.odd}
           numbers == {0} \cup {m.number : m \in named}
<1>1. \A m \in others : m.number \in Nat /\ m.number <= MaxNumber
  <2>1. \A i \in DOMAIN matches[dir] :
           matches[dir][i] \in Fields /\ Numbered(matches[dir][i], odd)
    BY DEF Data, Numbering
  <2> QED
    BY <2>1 DEF Fields, Numbered
<1>2. numbers \in SUBSET Nat /\ numbers # {} /\ \A x \in numbers : x <= MaxNumber
  BY <1>1, MetadataAssumption
<1>3. Max(numbers) \in Nat /\ \A x \in numbers : x <= Max(numbers)
  BY <1>2, MaxExists, MetadataAssumption
<1>4. matches[dir][j] \in named
  <2>1. Numbered(matches[dir][j], odd)
    BY DEF Data, Numbering
  <2> QED
    BY <2>1, Zenon DEF Numbered
<1>5. matches[dir][j].number \in numbers
  BY <1>4
<1>6. NextNumber(id, name) = Max(numbers) + 1
  BY Zenon DEF NextNumber
<1> QED
  BY <1>2, <1>3, <1>5, <1>6

\* The matches after a step are those before, but for the k-th.
Placed(k, new) ==
    \A d \in Directory : \A i \in DOMAIN matches'[d] :
        IF d = dir /\ i = k THEN matches'[d][i] = new
        ELSE i \in DOMAIN matches[d] /\ matches'[d][i] = matches[d][i]

UnlikeOthers(k, new) ==
    \A j \in DOMAIN matches[dir] :
        j # k /\ SameDeck(new, matches[dir][j], odd') => new.number # matches[dir][j].number

\* A match that takes its place among the others, which stay as they are,
\* keeps the numbering if its number is none of theirs.
LEMMA PlacedKeeps ==
    ASSUME Data, Numbering, NEW k, NEW new, odd \subseteq odd',
           Placed(k, new), Numbered(new, odd'), UnlikeOthers(k, new)
    PROVE  Numbering'
<1>1. ASSUME NEW d \in Directory, NEW i \in DOMAIN matches'[d]
      PROVE  Numbered(matches'[d][i], odd')
  BY <1>1 DEF Numbering, Numbered, Placed
<1>2. ASSUME NEW d \in Directory, NEW i \in DOMAIN matches'[d], NEW j \in DOMAIN matches'[d],
             i # j, SameDeck(matches'[d][i], matches'[d][j], odd')
      PROVE  matches'[d][i].number # matches'[d][j].number
  <2>1. CASE d = dir /\ i = k
    BY <1>2, <2>1 DEF Placed, UnlikeOthers
  <2>2. CASE d = dir /\ j = k
    BY <1>2, <2>2 DEF SameDeck, Placed, UnlikeOthers
  <2>3. CASE ~(d = dir /\ i = k) /\ ~(d = dir /\ j = k)
    <3>1. /\ i \in DOMAIN matches[d] /\ matches'[d][i] = matches[d][i]
          /\ j \in DOMAIN matches[d] /\ matches'[d][j] = matches[d][j]
      BY <2>3 DEF Placed
    <3> QED
      BY <1>2, <3>1 DEF Numbering, DeckNumbersDistinct, SameDeck
  <2> QED
    BY <2>1, <2>2, <2>3
<1> QED
  BY <1>1, <1>2 DEF Numbering, DeckNumbersDistinct, SameDeck

LEMMA NumberingStays ==
    ASSUME Numbering, UNCHANGED <<matches, odd>>
    PROVE  Numbering'
<1>1. \A d \in Directory : \A i \in DOMAIN matches'[d] : Numbered(matches'[d][i], odd')
  BY Zenon DEF Numbering
<1>2. DeckNumbersDistinct'
  BY DEF Numbering, DeckNumbersDistinct
<1> QED
  BY <1>1, <1>2, Zenon DEF Numbering

\* A new match has no name and no number yet.
LEMMA RecordNumbers ==
    ASSUME Data, Numbering, Record
    PROVE  Numbering'
<1>1. dir \in Directory /\ matches[dir] \in Seq(Fields) /\ NewMatch \in Fields
  BY DEF Data, NewMatch, Fields, Memo
<1>2. matches' = [matches EXCEPT ![dir] = Append(matches[dir], NewMatch)] /\ odd' = odd
  BY DEF Record
<1> DEFINE appended == Append(matches[dir], NewMatch)
           k == Len(matches[dir]) + 1
<1>3. /\ appended \in Seq(Fields) /\ DOMAIN appended = 1 .. k
      /\ \A i \in 1 .. Len(matches[dir]) : appended[i] = matches[dir][i]
      /\ appended[k] = NewMatch
  BY <1>1, AppendProperties, LenProperties
<1>4. ASSUME NEW d \in Directory, NEW i \in DOMAIN matches'[d]
      PROVE  IF d = dir /\ i = k THEN matches'[d][i] = NewMatch
             ELSE i \in DOMAIN matches[d] /\ matches'[d][i] = matches[d][i]
  <2>1. CASE d = dir
    <3>1. matches'[d] = appended
      BY <1>1, <1>2, <2>1 DEF Data
    <3>2. i \in 1 .. k
      BY <1>3, <1>4, <3>1
    <3>3. i = k \/ i \in 1 .. Len(matches[dir])
      BY <1>1, <3>2, LenProperties
    <3> QED
      BY <1>1, <1>3, <2>1, <3>1, <3>3, LenProperties
  <2>2. CASE d # dir
    BY <1>2, <1>4, <2>2 DEF Data
  <2> QED
    BY <2>1, <2>2
<1>5. Numbered(NewMatch, odd') /\ NewMatch.name = NoName
  BY MetadataAssumption DEF Numbered, NewMatch
<1> HIDE DEF appended, k
<1>6. Placed(k, NewMatch) /\ UnlikeOthers(k, NewMatch)
  BY <1>4, <1>5 DEF Placed, UnlikeOthers, SameDeck
<1> QED
  BY <1>2, <1>5, <1>6, PlacedKeeps

\* A match that is saved is numbered anew, or stays in its deck.
LEMMA PutNumbers ==
    ASSUME Data, Numbering, NEW p \in Page, Put(p)
    PROVE  Numbering'
<1>1. CASE UNCHANGED <<matches, odd>>
  BY <1>1, NumberingStays
<1>2. CASE p.id \in DOMAIN matches[dir] /\ UpdateMatch(p.id, p.name, p.memo)
  <2> DEFINE number == NumberFor(p.id, p.name)
             old == matches[dir][p.id]
             new == [name |-> p.name, number |-> number, memo |-> p.memo]
  <2>1. /\ number \in 0 .. MaxNumber
        /\ matches' = [matches EXCEPT ![dir][p.id] = new]
        /\ odd' = IF p.name # NoName /\ p.name.odd THEN odd \cup {p.name.key} ELSE odd
    BY <1>2, Zenon DEF UpdateMatch
  <2>2. number = IF p.name = NoName THEN 0
                 ELSE IF old.number = 0 \/ old.name.key # p.name.key THEN NextNumber(p.id, p.name)
                 ELSE old.number
    BY Zenon DEF NumberFor
  <2>3. new.name = p.name /\ new.number = number
    OBVIOUS
  <2> HIDE DEF new, number
  <2>4. dir \in Directory /\ p.name \in Name \cup {NoName}
    BY DEF Data, Page
  <2>5. odd \subseteq odd' /\ (p.name # NoName /\ p.name.odd => p.name.key \in odd')
    BY <2>1, Zenon
  <2>6. Numbered(new, odd')
    <3>1. number <= MaxNumber /\ (number # 0 => p.name # NoName)
      BY <2>1, <2>2, MetadataAssumption
    <3> QED
      BY <2>3, <2>5, <3>1, Zenon DEF Numbered
  <2>7. ASSUME NEW d \in Directory, NEW i \in DOMAIN matches'[d]
        PROVE  IF d = dir /\ i = p.id THEN matches'[d][i] = new
               ELSE i \in DOMAIN matches[d] /\ matches'[d][i] = matches[d][i]
    <3> DEFINE saved == [matches[dir] EXCEPT ![p.id] = new]
    <3>1. matches' = [matches EXCEPT ![dir] = saved]
      BY <2>1
    <3>2. CASE d = dir
      <4>1. matches'[d] = saved
        BY <3>1, <3>2 DEF Data
      <4> QED
        BY <2>7, <3>2, <4>1
    <3>3. CASE d # dir
      BY <2>7, <3>1, <3>3 DEF Data
    <3> QED
      BY <3>2, <3>3
  <2>8. ASSUME NEW j \in DOMAIN matches[dir], j # p.id, SameDeck(new, matches[dir][j], odd')
        PROVE  new.number # matches[dir][j].number
    <3>1. /\ p.name \in Name /\ p.name # NoName /\ matches[dir][j].name # NoName
          /\ matches[dir][j].name.key = p.name.key /\ p.name.key \notin odd
      BY <2>3, <2>4, <2>5, <2>8 DEF SameDeck
    <3>2. CASE old.number = 0 \/ old.name.key # p.name.key
      <4>1. number = NextNumber(p.id, p.name)
        BY <2>2, <3>1, <3>2
      <4> QED
        BY <2>3, <2>8, <3>1, <4>1, NextNumberIsNew
    <3>3. CASE old.number # 0 /\ old.name.key = p.name.key
      <4>1. number = old.number
        BY <2>2, <3>1, <3>3
      <4>2. old.name # NoName
        BY <1>2, <2>4, <3>3 DEF Numbering, Numbered
      <4>3. old.number # matches[dir][j].number
        BY <1>2, <2>4, <2>8, <3>1, <3>3, <4>2 DEF Numbering, DeckNumbersDistinct
      <4> QED
        BY <2>3, <4>1, <4>3
    <3> QED
      BY <3>2, <3>3
  <2>9. Placed(p.id, new) /\ UnlikeOthers(p.id, new)
    BY <2>7, <2>8 DEF Placed, UnlikeOthers
  <2> QED
    BY <2>5, <2>6, <2>9, PlacedKeeps
<1> QED
  BY <1>1, <1>2 DEF Put

LEMMA NumberingInit ==
    ASSUME Init
    PROVE  Numbering
BY EmptySeq DEF Init, Numbering, DeckNumbersDistinct

LEMMA NumberingNext ==
    ASSUME IInv, IInv', Numbering, [Next]_vars
    PROVE  Numbering'
<1>1. CASE Record
  BY <1>1, RecordNumbers DEF IInv
<1>2. CASE Save
  <2>1. PICK p : /\ page' = p
                 /\ IF p.id = 0 THEN UNCHANGED <<matches, odd, last>>
                    ELSE last' \in {last, p.name} /\ Put(p)
    BY <1>2 DEF Save
  <2>2. p \in Page
    BY <2>1 DEF IInv, Data
  <2>3. CASE UNCHANGED <<matches, odd>>
    BY <2>3, NumberingStays
  <2> QED
    BY <2>1, <2>2, <2>3, PutNumbers DEF IInv
<1>3. CASE ~Record /\ ~Save
  <2>1. UNCHANGED <<matches, odd>>
    BY <1>3 DEF Next, vars, WorkerChanges, WorkerStarts, Heartbeat, Refresh, Type, TypeTemplate,
                Reload, EditSelected, ShowFrame, RestartWorker
  <2> QED
    BY <2>1, NumberingStays
<1> QED
  BY <1>1, <1>2, <1>3

\* No two matches of a deck have the same number, for any directories, names
\* and number of matches, unless a name was saved that the query misses.
THEOREM NumbersCorrect == Spec => []DeckNumbersDistinct
<1>1. Init => IInv /\ Numbering
  BY InvariantInit, NumberingInit
<1>2. IInv /\ Numbering /\ [Next]_vars => (IInv /\ Numbering)'
  BY InvariantNext, NumberingNext
<1>3. Numbering => DeckNumbersDistinct
  BY DEF Numbering
<1> QED
  BY <1>1, <1>2, <1>3, PTL DEF Spec

=============================================================================
