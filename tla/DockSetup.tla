------------------------------ MODULE DockSetup -----------------------------
(***************************************************************************)
(* Setting the recorder up from the Dock: its settings, the authorization  *)
(* of the upload, and the captures of the screen for the detection.        *)
(*                                                                         *)
(* The authorization takes the Dock, the Worker, the browser and two       *)
(* files of the Worker's secrets.  The Dock puts the client secret there   *)
(* itself; the browser brings the Worker a code, at the default port; the  *)
(* Worker makes a token of it.  A token expires, and refreshing it works   *)
(* until it is revoked.                                                    *)
(*                                                                         *)
(* A screenshot is asked of OBS and awaited while the UI thread serves     *)
(* other events, so that captures nest: the inner one ends first.  The     *)
(* buttons follow the snapshot within a tick, which is left out.           *)
(***************************************************************************)
EXTENDS Integers, Sequences, FiniteSets

CONSTANTS
    Port,          \* ports in a settings file or typed by the operator
    DefaultPort,
    MaxShots,      \* bound on the screenshots asked for
    MaxNested      \* bound on the captures awaited at once

MaxPort == 65535
ValidPort == 1 .. MaxPort

ASSUME SetupAssumption ==
    /\ Port \subseteq Int /\ DefaultPort \in ValidPort
    /\ MaxShots \in Nat /\ MaxNested \in Nat \ {0}

Api == INSTANCE WorkerApi

VARIABLES
    up,          \* the Worker lives
    config,      \* the settings it was launched with
    secret,      \* youtube-client-secret.json exists
    token,       \* youtube-token.json
    revoked,     \* it cannot be refreshed any more
    refreshing,  \* the Worker refreshes it
    browser,     \* the page of the authorization is open
    snap,        \* the status snapshot
    waiting,     \* the UI thread waits for a token to be refreshed
    dialog,      \* the automatic setup is open
    calls,       \* captures under way in the UI thread, the innermost last
    asked,       \* screenshots asked of OBS
    shot,        \* obs_frontend_get_last_screenshot(), 0 if none
    deleted,     \* screenshots whose file is deleted
    sent         \* the frames sent to the detection, in order

workerVars == <<up, config, token, revoked, refreshing>>
captureVars == <<dialog, calls, asked, shot, deleted, sent>>
setupVars == <<secret, token, revoked, refreshing, browser, waiting>>
launchVars == <<up, config>>
vars == <<up, config, secret, token, revoked, refreshing, browser,
          snap, waiting, dialog, calls, asked, shot, deleted, sent>>

Token == {"missing", "expired", "valid"}
Host == {"default", ""}

Raw == [host : Host, port : Port]

\* Mutation: a port that is too large is not replaced.
clamp_port_below(port) == IF port <= 0 THEN DefaultPort ELSE port

clamp_port(port) == IF port <= 0 \/ port > MaxPort THEN DefaultPort ELSE port

\* load_plugin_settings: the fields that must have a value get one.
Load(f) == [f EXCEPT !.host = "default", !.port = clamp_port(f.port)]

Unknown == [running |-> FALSE, secret |-> FALSE, token |-> "missing"]

Init ==
    /\ up = TRUE
    /\ config \in {Load(file) : file \in Raw}
    /\ secret = FALSE /\ token = "missing" /\ revoked = FALSE /\ refreshing = FALSE
    /\ browser = FALSE
    /\ snap = Unknown
    /\ waiting = FALSE /\ dialog = FALSE
    /\ calls = <<>> /\ asked = 0 /\ shot = 0 /\ deleted = {} /\ sent = <<>>

-----------------------------------------------------------------------------
(***************************************************************************)
(* The Worker and its snapshot.                                            *)
(***************************************************************************)

Reachable == up /\ config.host # ""

Answers == IF Reachable THEN {200, 500} ELSE {Api!NoAnswer}

\* The manager asks a Worker only that the snapshot shows as running.
Forwarded(verdict) == IF snap.running THEN verdict ELSE "unavailable"

\* refresh_from_worker: the probe and the status of the upload.
Heartbeat ==
    /\ \E status \in Answers :
          snap' = IF Api!fetch_upload_status(status) = "accepted"
                  THEN [running |-> TRUE, secret |-> secret, token |-> token]
                  ELSE [Unknown EXCEPT !.running = Reachable]
    /\ UNCHANGED <<launchVars, setupVars, captureVars>>

Crash ==
    /\ up /\ up' = FALSE
    /\ refreshing' = FALSE
    /\ UNCHANGED <<config, secret, token, revoked, browser, snap, waiting,
                   dialog, calls, asked, shot, deleted, sent>>

\* The UI thread is in an event loop, and no dialog keeps the Dock from use.
DockUsable == ~waiting /\ ~dialog

\* save_inline_settings: a port that cannot be one is replaced by the old one,
\* any text is taken for a host.  Nothing happens if they cannot be saved.
SaveSettings ==
    /\ DockUsable
    /\ \E typed \in Raw :
          config' = [typed EXCEPT !.port = IF @ \in ValidPort THEN @ ELSE config.port]
    /\ up' = TRUE /\ refreshing' = FALSE
    /\ snap' = Unknown
    /\ UNCHANGED <<secret, token, revoked, browser, waiting, captureVars>>

-----------------------------------------------------------------------------
(***************************************************************************)
(* The authorization of the upload.                                        *)
(***************************************************************************)

\* Mutation: a new authorization is offered only where it is the next action.
OfferedPrimary ==
    (IF snap.running THEN {"select"} ELSE {})
    \cup (IF snap.running /\ snap.secret /\ snap.token = "missing" THEN {"authorize"} ELSE {})
    \cup (IF snap.running /\ snap.secret /\ snap.token = "expired" THEN {"refresh"} ELSE {})

\* The enabled buttons.
Offered ==
    (IF snap.running THEN {"select"} ELSE {})
    \cup (IF snap.running /\ snap.secret THEN {"authorize"} ELSE {})
    \cup (IF snap.running /\ snap.secret /\ snap.token = "expired" THEN {"refresh"} ELSE {})

\* request_select_upload_client_secret: an old file is removed before the new
\* one is copied, and either can fail.
Select(copied) ==
    /\ DockUsable /\ "select" \in Offered
    /\ secret' = copied
    /\ UNCHANGED <<launchVars, snap, token, revoked, refreshing, browser, waiting, captureVars>>

\* request_upload_oauth_authorization
Authorize ==
    /\ DockUsable /\ "authorize" \in Offered
    /\ \E status \in Answers :
          Forwarded(Api!request_upload_oauth_authorization_url(
              IF status = 200 /\ ~secret THEN 400 ELSE status)) = "accepted"
    /\ browser' = TRUE
    /\ UNCHANGED <<launchVars, snap, secret, token, revoked, refreshing, waiting, captureVars>>

\* The browser is sent back with a code to the port the Worker named, which is
\* the default one; the code is exchanged for a token.
SignIn ==
    /\ browser /\ browser' = FALSE
    /\ Reachable /\ config.port = DefaultPort /\ secret
    /\ token' = "valid" /\ revoked' = FALSE
    /\ UNCHANGED <<launchVars, snap, secret, refreshing, waiting, captureVars>>

\* The page is closed, the sign-in denied, or the way back leads nowhere.
SignInFails ==
    /\ browser /\ browser' = FALSE
    /\ UNCHANGED <<launchVars, snap, secret, token, revoked, refreshing, waiting, captureVars>>

\* Time passes, or Google or the operator take the permission back.
TokenChanges ==
    /\ \/ token = "valid" /\ token' = "expired" /\ UNCHANGED revoked
       \/ ~revoked /\ revoked' = TRUE /\ UNCHANGED token
    /\ UNCHANGED <<launchVars, snap, secret, refreshing, browser, waiting, captureVars>>

\* request_upload_oauth_refresh: the UI thread waits for the answer.
RefreshToken ==
    /\ DockUsable /\ "refresh" \in Offered
    /\ Reachable /\ token # "missing"
    /\ refreshing' = TRUE /\ waiting' = TRUE
    /\ UNCHANGED <<launchVars, snap, secret, token, revoked, browser, captureVars>>

TokenRefreshed ==
    /\ refreshing /\ refreshing' = FALSE
    /\ token' = IF revoked THEN token ELSE "valid"
    /\ UNCHANGED <<launchVars, snap, secret, revoked, browser, waiting, captureVars>>

\* An answer, a broken connection, or none in time while the Worker goes on.
RefreshReturns ==
    /\ waiting /\ waiting' = FALSE
    /\ UNCHANGED <<launchVars, snap, secret, token, revoked, refreshing, browser, captureVars>>

-----------------------------------------------------------------------------
(***************************************************************************)
(* The automatic setup, and the captures of the screen.                    *)
(***************************************************************************)

OpenDialog ==
    /\ DockUsable /\ snap.running
    /\ dialog' = TRUE
    /\ UNCHANGED <<launchVars, snap, setupVars, calls, asked, shot, deleted, sent>>

\* Captures begun in it end all the same.
CloseDialog ==
    /\ dialog /\ ~waiting
    /\ dialog' = FALSE
    /\ UNCHANGED <<launchVars, snap, setupVars, calls, asked, shot, deleted, sent>>

\* capture_current_screenshot_base64 asks OBS for a screenshot.
Ask(purpose) ==
    /\ Len(calls) < MaxNested /\ asked < MaxShots
    /\ calls' = Append(calls, [purpose |-> purpose, previous |-> shot])
    /\ asked' = asked + 1
    /\ UNCHANGED <<launchVars, snap, setupVars, dialog, shot, deleted, sent>>

\* A template, for which the operator also sets a threshold, or a test.
Capture == ~waiting /\ dialog /\ Ask("setup")

\* handle_automatic_detection_feed, from the timer or from a refresh of a
\* handler that runs behind another capture.
Feed ==
    /\ ~waiting /\ snap.running
    /\ Ask("feed")

ObsSaves ==
    /\ shot < asked /\ shot' = shot + 1
    /\ UNCHANGED <<launchVars, snap, setupVars, dialog, calls, asked, deleted, sent>>

Innermost == calls[Len(calls)]
Return == calls' = SubSeq(calls, 1, Len(calls) - 1)

\* Mutation: the screenshot of a frame is not deleted.
KeepFile(purpose) == UNCHANGED deleted

DeleteFile(purpose) == deleted' = IF purpose = "feed" THEN deleted \cup {shot} ELSE deleted

\* The innermost capture sees another screenshot than before: it uses it,
\* unless the file is gone.
Captured ==
    /\ calls # <<>> /\ ~waiting
    /\ shot # Innermost.previous
    /\ IF shot \in deleted
       THEN UNCHANGED <<deleted, sent>>
       ELSE /\ DeleteFile(Innermost.purpose)
            /\ \E status \in Answers :
                  sent' = IF /\ Innermost.purpose = "feed"
                             /\ Forwarded(Api!send_detection_frame_base64(status)) = "accepted"
                          THEN Append(sent, shot) ELSE sent
    /\ Return
    /\ UNCHANGED <<launchVars, snap, setupVars, dialog, asked, shot>>

\* Five seconds have passed.
CaptureTimesOut ==
    /\ calls # <<>> /\ ~waiting
    /\ shot = Innermost.previous
    /\ Return
    /\ UNCHANGED <<launchVars, snap, setupVars, dialog, asked, shot, deleted, sent>>

-----------------------------------------------------------------------------

Next ==
    \/ Heartbeat \/ Crash \/ SaveSettings
    \/ \E copied \in BOOLEAN : Select(copied)
    \/ Authorize \/ SignIn \/ SignInFails \/ TokenChanges
    \/ RefreshToken \/ TokenRefreshed \/ RefreshReturns
    \/ OpenDialog \/ CloseDialog \/ Capture \/ Feed
    \/ ObsSaves \/ Captured \/ CaptureTimesOut

Spec == Init /\ [][Next]_vars

AnsweredHeartbeat ==
    Heartbeat /\ snap' = [running |-> TRUE, secret |-> secret, token |-> token]

\* The heartbeat recurs and is answered again and again, with the secret in
\* place too if it is there again and again; requests end, and the operator
\* keeps trying whatever the Dock offers until it works.
Fairness ==
    /\ WF_vars(TokenRefreshed) /\ WF_vars(RefreshReturns)
    /\ SF_vars(AnsweredHeartbeat) /\ SF_vars(AnsweredHeartbeat /\ secret)
    /\ SF_vars(Select(TRUE)) /\ SF_vars(Authorize) /\ SF_vars(RefreshToken)
    /\ SF_vars(SignIn)

FairSpec == Spec /\ Fairness

-----------------------------------------------------------------------------
(***************************************************************************)
(* Properties.                                                             *)
(***************************************************************************)

\* The settings in use, the files and the captures are well-formed; whatever
\* the settings file says, the port in use is one.
TypeOK ==
    /\ up \in BOOLEAN /\ secret \in BOOLEAN /\ revoked \in BOOLEAN /\ refreshing \in BOOLEAN
    /\ browser \in BOOLEAN /\ waiting \in BOOLEAN /\ dialog \in BOOLEAN
    /\ config \in [host : Host, port : ValidPort]
    /\ token \in Token /\ snap \in [running : BOOLEAN, secret : BOOLEAN, token : Token]
    /\ Len(calls) <= MaxNested
    /\ shot \in 0 .. asked /\ deleted \subseteq 1 .. shot

\* However captures nest, the detection is sent every screen at most once and
\* in the order the screens were taken.
FramesInOrder == \A i, j \in DOMAIN sent : i < j => sent[i] < sent[j]

\* An operator who keeps trying what the Dock offers gets a valid token, again
\* and again, however often tokens expire, are revoked or cannot be had; but
\* only while the Worker can be reached, and at the default port.
SetupCompletes == <>[](Reachable /\ config.port = DefaultPort /\ ~dialog) => []<>(token = "valid")

=============================================================================
