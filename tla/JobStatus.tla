----------------------------- MODULE JobStatus -----------------------------
(***************************************************************************)
(* The status graphs of a job (src/app/state_machine.py).  Two graphs live *)
(* side by side: the one the pipeline speaks (LegacyTransitions) and the   *)
(* one of the SQL function transition_job (Transitions).                   *)
(***************************************************************************)

LegacyStatus ==
    {"pending", "script_ready", "audio_generating", "audio_ready", "rendering",
     "rendered", "staged", "approved", "delivered", "failed"}

(* The statuses a status may be advanced to by _legacy_advance.            *)
LegacyTransitions ==
    [s \in LegacyStatus |->
        CASE s = "pending"          -> {"script_ready", "failed"}
          [] s = "script_ready"     -> {"audio_generating", "rendering", "failed"}
          [] s = "audio_generating" -> {"audio_ready", "failed"}
          [] s = "audio_ready"      -> {"rendering", "failed"}
          [] s = "rendering"        -> {"rendered", "failed"}
          [] s = "rendered"         -> {"staged", "failed"}
          [] s = "staged"           -> {"approved", "failed"}
          [] s = "approved"         -> {"delivered", "failed"}
          [] OTHER                  -> {}]

CanonicalStatus ==
    {"draft", "image_queued", "image_running", "image_ready", "image_failed",
     "needs_human_review", "tts_queued", "tts_running", "tts_done", "tts_failed",
     "render_queued", "render_running", "render_done", "render_failed", "review",
     "approved", "published", "cancelled", "dead"}

(* The moves transition_job allows.                                        *)
CanonicalTransitions ==
    [s \in CanonicalStatus |->
        (CASE s = "draft"              -> {"image_queued", "tts_queued", "render_queued"}
           [] s = "image_queued"       -> {"image_running", "image_failed", "needs_human_review"}
           [] s = "image_running"      -> {"image_ready", "image_failed", "needs_human_review"}
           [] s = "image_ready"        -> {"tts_queued", "render_queued"}
           [] s = "image_failed"       -> {"image_queued", "needs_human_review", "dead"}
           [] s = "needs_human_review" -> {"image_queued", "draft", "dead"}
           [] s = "tts_queued"         -> {"tts_running", "tts_failed"}
           [] s = "tts_running"        -> {"tts_done", "tts_failed"}
           [] s = "tts_done"           -> {"render_queued"}
           [] s = "tts_failed"         -> {"tts_queued", "dead"}
           [] s = "render_queued"      -> {"render_running", "render_failed"}
           [] s = "render_running"     -> {"render_done", "render_failed"}
           [] s = "render_done"        -> {"review"}
           [] s = "render_failed"      -> {"render_queued", "dead"}
           [] s = "review"             -> {"approved", "render_queued"}
           [] s = "approved"           -> {"published"}
           [] s = "cancelled"          -> {"draft"}
           [] s = "dead"               -> {"tts_queued", "render_queued", "image_queued"}
           [] OTHER                    -> {})
        \cup (IF s = "cancelled" THEN {} ELSE {"cancelled"})]

(* canonicalize, for the statuses the pipeline asks for.                   *)
Canonicalize ==
    [s \in LegacyStatus |->
        CASE s \in {"pending", "script_ready"} -> "draft"
          [] s = "audio_generating"            -> "tts_running"
          [] s = "audio_ready"                 -> "tts_done"
          [] s = "rendering"                   -> "render_running"
          [] s = "rendered"                    -> "render_done"
          [] s = "staged"                      -> "review"
          [] s = "approved"                    -> "approved"
          [] s = "delivered"                   -> "published"
          [] OTHER                             -> "dead"]

=============================================================================
