----------------------------- MODULE Compliance -----------------------------
(***************************************************************************)
(* The compliance rules, evaluated on the view of a variant.  A text is    *)
(* the set of its marks, a mark being what one of the word lists or        *)
(* patterns finds in it; the finds of one list in one field are one        *)
(* finding, and what is counted per find is a number.                      *)
(***************************************************************************)
EXTENDS Integers, SequencesExt

Severity == {"warn", "block"}
Mark == {"blocked_term", "review_term", "guarantee", "adjective", "spec", "opener"}

(* platform_policies.json; all six platforms have a row. *)
Policy ==
  [linkedin  |-> [min_chars |-> 600, max_chars |-> 1200, hashtag_min |-> 3, hashtag_max |-> 5],
   youtube   |-> [min_chars |-> 300, max_chars |-> 5000, hashtag_min |-> 3, hashtag_max |-> 5],
   facebook  |-> [min_chars |-> 150, max_chars |-> 400, hashtag_min |-> 1, hashtag_max |-> 2],
   vk        |-> [min_chars |-> 500, max_chars |-> 1500, hashtag_min |-> 2, hashtag_max |-> 5],
   reddit    |-> [min_chars |-> 200, max_chars |-> 2000, hashtag_min |-> 0, hashtag_max |-> 0],
   instagram |-> [min_chars |-> 80, max_chars |-> 400, hashtag_min |-> 3, hashtag_max |-> 8]]

Finding(rule, severity, field) == [rule |-> rule, severity |-> severity, field |-> field]

rule_media_license(view) ==
  {Finding(IF license = "pending" THEN "copyright.license_pending" ELSE "copyright.license_missing",
           "block", "media") : license \in ToSet(view.media) \ {"owned", "licensed"}}

Marked(view, field, mark) ==
  mark \in (IF field = "text" THEN view.text ELSE view.title)

rule_terms(view, mark, rule, severity) ==
  {Finding(rule, severity, field) : field \in {f \in {"text", "title"} : Marked(view, f, mark)}}

rule_sensitive_words(view) ==
  rule_terms(view, "blocked_term", "sensitive.blocked_term", "block")
  \cup rule_terms(view, "review_term", "sensitive.review_term", "warn")

rule_banned_phrases(view) ==
  rule_terms(view, "guarantee", "claims.guarantee", "block")
  \cup rule_terms(view, "adjective", "claims.unverifiable_adjective", "warn")

(* Numbers with units and template openings are looked for in the text only. *)
rule_unverified_specs(view) ==
  {Finding("claims.unverified_spec", "warn", "text") : m \in view.text \cap {"spec"}}

rule_machine_flavor(view) ==
  {Finding("quality.machine_flavor_opener", "warn", "text") : m \in view.text \cap {"opener"}}

rule_platform_quality(view) ==
  LET policy == Policy[view.platform]
      warn(rule, field, hit) == IF hit THEN {Finding(rule, "warn", field)} ELSE {}
  IN  warn("quality.length_below_min", "text", view.chars < policy.min_chars)
      \cup warn("quality.length_above_max", "text", view.chars > policy.max_chars)
      \cup warn("quality.hashtag_too_few", "hashtags", Len(view.tags) < policy.hashtag_min)
      \cup warn("quality.hashtag_too_many", "hashtags", Len(view.tags) > policy.hashtag_max)

evaluate(view) ==
  rule_media_license(view) \cup rule_sensitive_words(view) \cup rule_banned_phrases(view)
  \cup rule_unverified_specs(view) \cup rule_platform_quality(view) \cup rule_machine_flavor(view)
=============================================================================
