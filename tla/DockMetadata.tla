---------------------------- MODULE DockMetadata ----------------------------
(***************************************************************************)
(* The metadata page of the Dock and the matches of the Worker.            *)
(*                                                                         *)
(* The page edits one match at a time: it loads a match into its fields    *)
(* and later sends the fields back under the number it remembers.  The     *)
(* numbers of the matches start again in every data directory, and the     *)
(* Worker is restarted in another one when the settings change.            *)
(*                                                                         *)
(* A memo is the match it was written for, so that a memo that ends up     *)
(* elsewhere can be told.  A deck name is its key, with a mark if the name *)
(* is spelled as only the key of the Worker ignores it (metadata.py folds  *)
(* all spaces and cases into the key, but asks SQL for a name trimmed and  *)
(* in lower case).                                                         *)
(*                                                                         *)
(* The texts rendered for the upload are left out, as are the fields that  *)
(* are treated like the memo or the deck name.                             *)
(***************************************************************************)
EXTENDS Naturals, Sequences, FiniteSetsExt

CONSTANTS
    Directory,     \* data directories
    Name,          \* deck names, [key, odd]
    NoName,        \* the empty name
    MaxMatch,      \* bound on the matches recorded
    MaxNumber      \* bound on the numbers within a deck

ASSUME MetadataAssumption ==
    /\ Directory # {} /\ MaxMatch \in Nat /\ MaxNumber \in Nat
    /\ \A name \in Name : name.odd \in BOOLEAN
    /\ NoName \notin Name

Api == INSTANCE WorkerApi

VARIABLES
    worker,     \* "up", "busy" with an upload, or "down"
    dir,        \* the data directory of the Worker
    matches,    \* the matches of each directory
    running,    \* the snapshot shows the Worker as running
    loaded,     \* metadata_loaded_after_worker_ready_
    offered,    \* the enabled buttons
    page,       \* current_match_id_, the fields and the preview image
    last,       \* last_deck_name of the settings
    odd         \* history: the keys of which an odd name was saved

vars == <<worker, dir, matches, running, loaded, offered, page, last, odd>>

Button == {"reload", "save", "edit", "frame"}

Nowhere == <<>>
Here(id) == <<dir, id>>

Memo == {Nowhere} \cup Directory \X Nat

Fields == [name : Name \cup {NoName}, number : Nat, memo : Memo]

Page == [id : Nat, of : Directory, name : Name \cup {NoName}, memo : Memo, image : Memo]

\* Number 0: not numbered yet.
NewMatch == [name |-> NoName, number |-> 0, memo |-> Nowhere]

Recorded(d) == Len(matches[d])

\* page.of is history: the directory the page was loaded from.
Init ==
    /\ worker = "up" /\ dir \in Directory
    /\ matches = [d \in Directory |-> <<>>]
    /\ running = FALSE /\ loaded = FALSE /\ offered = {}
    /\ page = [id |-> 0, of |-> dir, name |-> NoName, memo |-> Nowhere, image |-> Nowhere]
    /\ last = NoName
    /\ odd = {}

-----------------------------------------------------------------------------
(***************************************************************************)
(* The Worker.                                                             *)
(***************************************************************************)

Record ==
    /\ worker = "up"
    /\ MapThenSumSet(Recorded, Directory) < MaxMatch
    /\ matches' = [matches EXCEPT ![dir] = Append(@, NewMatch)]
    /\ UNCHANGED <<worker, dir, running, loaded, offered, page, last, odd>>

UploadBegins == worker = "up" /\ worker' = "busy"
UploadEnds == worker = "busy" /\ worker' = "up"
Crash == worker \in {"up", "busy"} /\ worker' = "down"

WorkerChanges ==
    /\ UploadBegins \/ UploadEnds \/ Crash
    /\ UNCHANGED <<dir, matches, running, loaded, offered, page, last, odd>>

\* _next_deck_sequence_number: the other matches with the key of the name, but
\* not those with an odd name.
NextNumber(id, name) ==
    LET named == {m \in {matches[dir][i] : i \in DOMAIN matches[dir] \ {id}} :
                      m.name # NoName /\ m.name.key = name.key /\ ~m.name.odd}
    IN Max({0} \cup {m.number : m \in named}) + 1

\* Mutation: a match keeps its number when it is moved to another deck.
NumberKept(id, name) ==
    LET old == matches[dir][id] IN
    IF name = NoName THEN 0
    ELSE IF old.number = 0 THEN NextNumber(id, name)
    ELSE old.number

\* The number a match has once it is saved under a name.
NumberFor(id, name) ==
    LET old == matches[dir][id] IN
    IF name = NoName THEN 0
    ELSE IF old.number = 0 \/ old.name.key # name.key THEN NextNumber(id, name)
    ELSE old.number

\* update_match
UpdateMatch(id, name, memo) ==
    /\ NumberFor(id, name) \in 0 .. MaxNumber
    /\ matches' = [matches EXCEPT ![dir][id] =
                     [name |-> name, number |-> NumberFor(id, name), memo |-> memo]]
    /\ odd' = IF name # NoName /\ name.odd THEN odd \cup {name.key} ELSE odd

-----------------------------------------------------------------------------
(***************************************************************************)
(* What the page gets from the Worker.                                     *)
(***************************************************************************)

\* The statuses of the answer to a request the Worker can do.
Answers == IF worker = "up" THEN {200, 500} ELSE {Api!NoAnswer}

\* The manager asks a Worker only that the snapshot shows as running.
Forwarded(verdict) == IF running THEN verdict ELSE "unavailable"

Found(id, status) == IF status = 200 /\ id \notin DOMAIN matches[dir] THEN 404 ELSE status

\* load_target_video_preview: the image, or none if it cannot be made
Images(id) ==
    {Nowhere} \cup {Here(id) : status \in
        {s \in Answers : Forwarded(Api!fetch_match_video_preview(id, Found(id, s))) = "accepted"}}

\* The page with a match loaded into all its fields: an empty deck name is
\* filled from the settings.
Showing(id, image) ==
    LET match == matches[dir][id] IN
    [id |-> id, of |-> dir, memo |-> match.memo, image |-> image,
     name |-> IF match.name = NoName THEN last ELSE match.name]

\* Mutation: the image stays when there is no match to show.
WithoutMatch == [page EXCEPT !.id = 0]

Without == [page EXCEPT !.id = 0, !.image = Nowhere]

\* load_latest_metadata_into_dock
Latest ==
    LET id == Recorded(dir)
        verdicts == {Forwarded(Api!fetch_latest_match(Found(id, status))) : status \in Answers} IN
    (IF "accepted" \in verdicts THEN {Showing(id, image) : image \in Images(id)} ELSE {})
    \cup (IF verdicts \ {"accepted"} # {} THEN {Without} ELSE {})

\* load_match_metadata_into_dock
Match(id) ==
    (IF \E status \in Answers : Forwarded(Api!fetch_match(id, Found(id, status))) = "accepted"
     THEN {Showing(id, image) : image \in Images(id)} ELSE {})
    \cup {page}

-----------------------------------------------------------------------------
(***************************************************************************)
(* The page.                                                               *)
(***************************************************************************)

\* A probe of the heartbeat.
Heartbeat ==
    /\ running' = (worker = "up")
    /\ UNCHANGED <<worker, dir, matches, loaded, offered, page, last, odd>>

Offered(recording) ==
    IF ~running THEN {}
    ELSE {"reload", "edit"} \cup (IF page.id > 0 THEN {"save", "frame"} ELSE {})
                            \cup (IF recording THEN {"save"} ELSE {})

\* Mutation: a Worker that came back is taken for the one that was loaded from.
LoadedOnce(up) == loaded \/ up

\* The flag after a refresh that sees the Worker up, or not.
LoadedAfter(up) == up

\* refresh: the buttons, then the latest match of a Worker that came up
Refresh ==
    /\ \E recording \in BOOLEAN : offered' = Offered(recording)
    /\ IF running /\ ~loaded THEN page' \in Latest ELSE UNCHANGED page
    /\ loaded' = LoadedAfter(running)
    /\ UNCHANGED <<worker, dir, matches, running, last, odd>>

\* The operator writes a memo or names a deck, for the match on the page.
Type ==
    /\ \/ page' = [page EXCEPT !.memo = <<page.of, page.id>>]
       \/ \E name \in Name : page' = [page EXCEPT !.name = name]
    /\ UNCHANGED <<worker, dir, matches, running, loaded, offered, last, odd>>

\* Every change of a template renders the texts of the match, and loads the
\* latest if there is none.
TypeTemplate ==
    /\ page.id = 0
    /\ page' \in Latest
    /\ UNCHANGED <<worker, dir, matches, running, loaded, offered, last, odd>>

Reload ==
    /\ "reload" \in offered
    /\ page' \in Latest
    /\ UNCHANGED <<worker, dir, matches, running, loaded, offered, last, odd>>

\* "Edit metadata" of the upload page: the match of an item it lists.
EditSelected ==
    /\ "edit" \in offered
    /\ \E id \in 1 .. MaxMatch : page' \in Match(id)
    /\ UNCHANGED <<worker, dir, matches, running, loaded, offered, last, odd>>

\* Another frame of the video.
ShowFrame ==
    /\ "frame" \in offered
    /\ page' \in {[page EXCEPT !.image = image] : image \in Images(page.id)}
    /\ UNCHANGED <<worker, dir, matches, running, loaded, offered, last, odd>>

\* The fields are sent.  A request that was given up may be carried out all
\* the same, before the Dock is answered anything else.
Put(p) ==
    \E status \in Answers \cup {Api!NoAnswer} :
        LET verdict == Forwarded(Api!update_match_metadata(p.id, Found(p.id, status))) IN
        \/ /\ verdict \in {"accepted", "unavailable"}
           /\ running /\ worker # "down" /\ p.id \in DOMAIN matches[dir]
           /\ UpdateMatch(p.id, p.name, p.memo)
        \/ verdict # "accepted" /\ UNCHANGED <<matches, odd>>

\* save_metadata_from_dock: without a match on the page the latest is loaded
\* first.  The settings are saved, if they can be, before the match.
Save ==
    /\ "save" \in offered
    /\ \E p \in IF page.id = 0 THEN Latest ELSE {page} :
          /\ page' = p
          /\ IF p.id = 0 THEN UNCHANGED <<matches, odd, last>>
             ELSE last' \in {last, p.name} /\ Put(p)
    /\ UNCHANGED <<worker, dir, running, loaded, offered>>

-----------------------------------------------------------------------------

\* save_settings_and_restart, in the same or another data directory; the
\* refresh it ends with sees the Worker starting.
RestartWorker ==
    /\ dir' \in Directory
    /\ worker' = "down" /\ running' = FALSE
    /\ offered' = {} /\ loaded' = LoadedAfter(FALSE)
    /\ UNCHANGED <<matches, page, last, odd>>

WorkerStarts ==
    /\ worker = "down" /\ worker' = "up"
    /\ UNCHANGED <<dir, matches, running, loaded, offered, page, last, odd>>

Next ==
    \/ Record \/ WorkerChanges \/ WorkerStarts
    \/ Heartbeat \/ Refresh
    \/ Type \/ TypeTemplate \/ Reload \/ EditSelected \/ ShowFrame \/ Save
    \/ RestartWorker

Spec == Init /\ [][Next]_vars

-----------------------------------------------------------------------------
(***************************************************************************)
(* Properties.                                                             *)
(***************************************************************************)

\* The page and the matches are well-formed.
TypeOK ==
    /\ worker \in {"up", "busy", "down"} /\ dir \in Directory
    /\ running \in BOOLEAN /\ loaded \in BOOLEAN /\ offered \subseteq Button
    /\ matches \in [Directory -> Seq(Fields)]
    /\ page \in Page
    /\ last \in Name \cup {NoName}

\* A memo is only ever saved to the match it was written for, whatever becomes
\* of the Worker and its data directory while the page is open.
NoForeignText ==
    \A d \in Directory : \A i \in DOMAIN matches[d] : matches[d][i].memo \in {Nowhere, <<d, i>>}

\* The preview image is that of the match on the page, or none.
\* (docs/architecture/dock-workflow-ui-state.md: "The target-video preview area
\* always represents the current metadata editing target.")
ImageIsTargets == page.image \in {Nowhere, <<page.of, page.id>>}

\* No two matches of a deck have the same number, unless a name was saved that
\* the query for the next number does not find.
DeckNumbersDistinct ==
    \A d \in Directory : \A i, j \in DOMAIN matches[d] :
        LET a == matches[d][i]
            b == matches[d][j] IN
        i # j /\ a.name # NoName /\ b.name # NoName /\ a.name.key = b.name.key /\ a.name.key \notin odd
        => a.number # b.number

\* Another match takes the place of the one on the page only if the operator
\* asks for it.  This is what the document of the Dock says of the target of
\* the editing (docs/architecture/dock-workflow-ui-state.md: "It must not
\* silently switch to an arbitrary latest recording"); it does not hold, as a
\* Worker that did not answer for a while counts as one that has come up.
TargetKept ==
    [][page.id # 0 /\ <<page.of, page.id>> # <<page'.of, page'.id>> /\ page'.id # 0
         => Reload \/ EditSelected]_vars

=============================================================================
