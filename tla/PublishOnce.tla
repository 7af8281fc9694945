---------------------------- MODULE PublishOnce ----------------------------
(***************************************************************************)
(* What the publish gateway promises (services/publish/gateway.py:1): a    *)
(* piece of content is put on its platform at most once however often it   *)
(* is dispatched, content that compliance blocks or a validation refuses   *)
(* never is, and "published" is only said of a post that exists.  A        *)
(* verdict stands, but for the questions about the content that were       *)
(* already put to the platform when it was given: nothing more is asked of *)
(* content that has a verdict, so the last of their answers is final.      *)
(***************************************************************************)
EXTENDS Naturals

CONSTANTS Keys, Publishable, Callers

VARIABLES
  posts,    \* how many posts the platform holds for a key
  verdict,  \* what the gateway has settled for it, "open" until then
  asking    \* the callers whose question about it is not answered yet

vars == <<posts, verdict, asking>>

Verdict == {"published", "failed", "rejected"}

Init ==
  /\ posts \in [Keys -> {0, 1}]
  /\ verdict = [k \in Keys |-> "open"]
  /\ asking = [k \in Keys |-> {}]

(* The platform creates the post. *)
Create(k) ==
  /\ k \in Publishable
  /\ verdict[k] = "open"
  /\ posts[k] = 0
  /\ posts' = [posts EXCEPT ![k] = 1]
  /\ UNCHANGED <<verdict, asking>>

(* The gateway settles the key. *)
Settle(k, v) ==
  /\ verdict[k] = "open"
  /\ v = "published" => posts[k] = 1
  /\ verdict' = [verdict EXCEPT ![k] = v]
  /\ UNCHANGED <<posts, asking>>

(* A caller asks the platform what became of the post.                       *)
Ask(k, c) ==
  /\ verdict[k] = "open"
  /\ asking' = [asking EXCEPT ![k] = @ \cup {c}]
  /\ UNCHANGED <<posts, verdict>>

(* It is answered, and what it hears replaces whatever is recorded; or it     *)
(* gives up and leaves the record alone.                                     *)
Hear(k, c, v) ==
  /\ c \in asking[k]
  /\ v = "published" => posts[k] = 1
  /\ asking' = [asking EXCEPT ![k] = @ \ {c}]
  /\ verdict' = [verdict EXCEPT ![k] = v]
  /\ UNCHANGED posts

GiveUp(k, c) ==
  /\ c \in asking[k]
  /\ asking' = [asking EXCEPT ![k] = @ \ {c}]
  /\ UNCHANGED <<posts, verdict>>

Next ==
  \E k \in Keys :
    \/ Create(k)
    \/ \E v \in Verdict : Settle(k, v)
    \/ \E c \in Callers :
         \/ Ask(k, c)
         \/ GiveUp(k, c)
         \/ \E v \in Verdict \cup {"open"} : Hear(k, c, v)

Spec == Init /\ [][Next]_vars
=============================================================================
