------------------------------- MODULE Drafts -------------------------------
(***************************************************************************)
(* What a generated post is made of, and the contract it must meet before  *)
(* it is stored: the hashtags the copywriter composes, the content type    *)
(* that follows from the media, and UnifiedPost.validate.                  *)
(*                                                                         *)
(* A request is what one generation starts from: the marks (see            *)
(* Compliance) of the brief's topic and of the text written about it, its  *)
(* length, the extra terms of the brief as tags, the media, and whether    *)
(* the account has the options its platform asks for.                      *)
(***************************************************************************)
EXTENDS Integers, SequencesExt

Platform == {"linkedin", "youtube", "facebook", "vk", "reddit", "instagram"}
Kind == {"image", "video"}
License == {"owned", "licensed", "pending", "unknown"}

PROMPT_TEMPLATES ==
  [linkedin  |-> [content_type |-> "image", hashtag_max |-> 5],
   youtube   |-> [content_type |-> "video", hashtag_max |-> 5],
   facebook  |-> [content_type |-> "image", hashtag_max |-> 2],
   vk        |-> [content_type |-> "image", hashtag_max |-> 5],
   reddit    |-> [content_type |-> "image", hashtag_max |-> 0],
   instagram |-> [content_type |-> "image", hashtag_max |-> 8]]

-----------------------------------------------------------------------------
(* Hashtags. *)

CATEGORY_TAGS ==
  [casting       |-> <<"#casting", "#foundry", "#ironcasting", "#lostfoam", "#greyiron", "#ductileiron">>,
   machining     |-> <<"#machining", "#cncmachining", "#machinedparts", "#boringmilling">>,
   machine_tools |-> <<"#machinetools", "#machinetool", "#machinebed", "#cnc">>,
   quality       |-> <<"#qualitycontrol", "#ndt", "#cmminspection", "#inspection">>]

FALLBACK_TAGS == <<"#casting", "#machining", "#oemparts", "#manufacturing">>
BRAND_TAG == "#famed"

PLATFORM_HASHTAG_CATEGORIES ==
  [linkedin  |-> <<"casting", "machining", "machine_tools", "quality">>,
   youtube   |-> <<"casting", "machining", "machine_tools">>,
   facebook  |-> <<"casting">>,
   vk        |-> <<"casting", "machining">>,
   reddit    |-> <<>>,
   instagram |-> <<"casting", "machining">>]

(* The whitelist, as far as the generator draws from it. *)
ALLOWED_TAGS ==
  (UNION {ToSet(CATEGORY_TAGS[c]) : c \in DOMAIN CATEGORY_TAGS}) \cup ToSet(FALLBACK_TAGS) \cup {BRAND_TAG}

(* Mutant: one tag too many.                                                 *)
FullAfter(tags, max_count) == tags # <<>> /\ Len(tags) > max_count

(* The count is compared after a tag was added: a platform that wants none   *)
(* gets one.                                                                 *)
Full(tags, max_count) == tags # <<>> /\ Len(tags) >= max_count

compose_hashtags(platform, extra) ==
  LET categories == FoldLeft(LAMBDA tags, c : tags \o CATEGORY_TAGS[c], <<>>,
                             PLATFORM_HASHTAG_CATEGORIES[platform])
      add(tags, tag) ==
        IF Full(tags, PROMPT_TEMPLATES[platform].hashtag_max) \/ Contains(tags, tag)
        THEN tags ELSE Append(tags, tag)
  IN  FoldLeft(add, <<>>, categories \o extra \o FALLBACK_TAGS \o <<BRAND_TAG>>)

(* An extra term that is no allowed tag ends the generation before it costs. *)
Writable(request) == ToSet(request.extra) \subseteq ALLOWED_TAGS

-----------------------------------------------------------------------------
(* The post and its contract. *)

(* StubCopywriter.write and build_unified_post: only a video has a title.    *)
Post(request) ==
  LET video == PROMPT_TEMPLATES[request.platform].content_type = "video"
  IN  [platform |-> request.platform,
       text |-> request.topic \cup request.body,
       chars |-> request.chars,
       title |-> IF video THEN request.topic ELSE {},
       titled |-> video,
       tags |-> compose_hashtags(request.platform, request.extra),
       media |-> request.media,
       content_type |-> IF request.media = <<>> THEN "text"
                        ELSE PROMPT_TEMPLATES[request.platform].content_type]

Kinds(post) == {item.kind : item \in ToSet(post.media)}

(* Mutant: the license is left to the rules.                                 *)
PublishableAnyway(item) == item.measured

(* MediaItem.validate: licensed, and an image has a size, a video a duration.*)
Publishable(item) == item.license \in {"owned", "licensed"} /\ item.measured

(* UnifiedPost.validate has nothing to say. *)
Valid(post, options) ==
  /\ \A item \in ToSet(post.media) : Publishable(item)
  /\ IF post.content_type = "text" THEN Kinds(post) = {} ELSE post.content_type \in Kinds(post)
  /\ options
  /\ post.platform \in {"youtube", "reddit"} => post.titled
  /\ post.platform = "youtube" => "video" \in Kinds(post)
=============================================================================
