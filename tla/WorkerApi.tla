------------------------------ MODULE WorkerApi -----------------------------
(***************************************************************************)
(* The HTTP client of the Plugin: what each of its calls makes of the      *)
(* status of an answer.  The Dock never sees a status, only the verdict.   *)
(*                                                                         *)
(* An answer is its status; NoAnswer stands for none in time, Hollow for a *)
(* 200 whose body lacks a field the call insists on.  A call that insists  *)
(* on nothing takes a hollow answer for a full one.  0 is no id.           *)
(***************************************************************************)
EXTENDS Naturals

NoAnswer == 0
Hollow == 299
StatusCode == {NoAnswer, 200, Hollow, 400, 404, 409, 422, 500, 503}

Verdicts == {"accepted", "rejected", "not_found", "invalid_response", "unavailable"}

Verdict(status, good, refusals, missing) ==
    CASE status = NoAnswer -> "unavailable"
      [] status \in refusals -> "rejected"
      [] status \in missing -> "not_found"
      [] status \in good -> "accepted"
      [] OTHER -> "invalid_response"

Full == {200}
Any == {200, Hollow}

-----------------------------------------------------------------------------
\* The upload queue.

fetch_upload_items(status) == Verdict(status, Any, {}, {})
fetch_next_upload_target(status) == Verdict(status, Full, {}, {})
send_queue_command(status) == Verdict(status, Full, {400, 404, 409}, {})
process_upload_item(id, status) ==
    IF id = 0 THEN "rejected" ELSE Verdict(status, Any, {400, 404, 409}, {})
update_upload_settings(status) == Verdict(status, Any, {400, 409}, {})
reset_upload_queue(status) == Verdict(status, Any, {400, 409}, {})

-----------------------------------------------------------------------------
\* Matches and their metadata.

fetch_latest_match(status) == Verdict(status, Full, {}, {404})
fetch_match(id, status) == IF id = 0 THEN "not_found" ELSE Verdict(status, Full, {}, {404})
update_match_metadata(id, status) ==
    IF id = 0 THEN "rejected" ELSE Verdict(status, Full, {400, 404}, {})
fetch_match_video_preview(id, status) ==
    IF id = 0 THEN "not_found" ELSE Verdict(status, Any, {}, {404})

-----------------------------------------------------------------------------
\* Authorization of the upload.

fetch_upload_status(status) == Verdict(status, Any, {}, {})
request_upload_oauth_authorization_url(status) == Verdict(status, Full, {400, 409}, {})

-----------------------------------------------------------------------------
\* Frames for the detection.

send_detection_frame_base64(status) == Verdict(status, Any, {400, 409, 503}, {})

=============================================================================
