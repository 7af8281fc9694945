------------------------------ MODULE Identity ------------------------------
(***************************************************************************)
(* The identity service: the status of accounts and their sealed           *)
(* credentials, which are stored, refreshed through a token provider,      *)
(* rotated to a new key and revoked.                                       *)
(*                                                                         *)
(* The API server has a thread per request and the stores have no lock, so *)
(* an operation is two steps or more: it reads a row, and puts the whole   *)
(* row it made of it back later, whatever became of the row in between.    *)
(* What a thread is about to write is part of what it is doing.  A set of  *)
(* tokens is named by the order in which the provider issued it.  A clock  *)
(* only moves the tokens on record from one age to the next.               *)
(***************************************************************************)
EXTENDS Naturals, PulseStates

CONSTANTS
  Accounts,
  Workers,        \* threads that serve requests
  NoAccount,      \* absent reference
  MaxVersion,     \* the largest key version an envelope can name (255)
  MaxIssued       \* bounds the sets of tokens issued for an account

ASSUME IdentityAssumption ==
  /\ NoAccount \notin Accounts
  /\ MaxIssued \in Nat
  /\ MaxVersion \in Nat \ {0}

VARIABLES
  status,     \* status of each account
  cred,       \* credential record of each account
  age,        \* of each set of tokens of an account
  issued,     \* how many sets of tokens the provider has issued
  doing       \* what each thread is doing, and the row it will write

vars == <<status, cred, age, issued, doing>>

(* A record's envelope names the key version it was sealed under. *)
NoRecord == [state |-> "absent", tokens |-> 0, version |-> 1, sealed |-> 1]
Record == {NoRecord} \cup
  [state : {"valid", "expired", "revoked"}, tokens : 1..MaxIssued,
   version : 1..MaxVersion, sealed : 1..MaxVersion]

(* Longer than the refresh window from expiry; within it; access token       *)
(* expired, or of an unknown expiry; refresh token expired.                  *)
Age == {"fresh", "due", "stale", "dead"}

(* Operations that will put a record, and those that will save a status.     *)
Puts == {"storing", "authorizing", "rotating", "expiring", "revoking"}
Saves == {"setting", "reopening"}
Task == [op : {"resting", "asking", "pausing"} \cup Puts \cup Saves,
         account : Accounts \cup {NoAccount}, record : Record, status : AccountStatus]
Resting == [op |-> "resting", account |-> NoAccount, record |-> NoRecord, status |-> "active"]

TypeOK ==
  /\ status \in [Accounts -> AccountStatus]
  /\ cred \in [Accounts -> Record]
  /\ age \in [Accounts -> [1..MaxIssued -> Age]]
  /\ issued \in [Accounts -> 0..MaxIssued]
  /\ doing \in [Workers -> Task]
  /\ \A w \in Workers : doing[w].op # "resting" => doing[w].account \in Accounts
  /\ \A w \in Workers : doing[w].op \in Puts => doing[w].record # NoRecord

Init ==
  /\ status = [a \in Accounts |-> "active"]
  /\ cred = [a \in Accounts |-> NoRecord]
  /\ age = [a \in Accounts |-> [t \in 1..MaxIssued |-> "fresh"]]
  /\ issued = [a \in Accounts |-> 0]
  /\ doing = [w \in Workers |-> Resting]

(* A resting thread takes up an operation on an account.                     *)
Begins(w, op, a, record, target) ==
  /\ doing[w] = Resting
  /\ doing' = [doing EXCEPT ![w] =
                 [op |-> op, account |-> a, record |-> record, status |-> target]]
Ends(w) == doing' = [doing EXCEPT ![w] = Resting]

-----------------------------------------------------------------------------
(* Account status. *)

AccountSuccessors ==
  [active |-> {"paused", "revoked"}, paused |-> {"active", "revoked"}, revoked |-> {}]

(* set_status checks the transition from the status it reads.  Setting the    *)
(* status an account has does nothing.                                       *)
SetStatus(w, a, target) ==
  /\ target \in AccountSuccessors[status[a]]
  /\ Begins(w, "setting", a, NoRecord, target)
  /\ UNCHANGED <<status, cred, age, issued>>

(* It saves the row and then tells the listeners, which belong to the         *)
(* scheduler; one that raises ends the call and leaves the row saved.        *)
SaveStatus(w) ==
  /\ doing[w].op \in Saves
  /\ status' = [status EXCEPT ![doing[w].account] = doing[w].status]
  /\ Ends(w)
  /\ UNCHANGED <<cred, age, issued>>

-----------------------------------------------------------------------------
(* Credentials. *)

(* The key version the next tokens are sealed under and the one their record *)
(* names: that of the previous record.                                       *)
KeyVersion(a) == cred[a].version

(* Mutant: the default version of a TokenHandle. *)
SealedByDefault(a) == 1
SealedUnder(a) == KeyVersion(a)

(* The record store_tokens makes of tokens the provider has issued.          *)
Sealed(a, tokens) ==
  [state |-> "valid", tokens |-> tokens, version |-> KeyVersion(a), sealed |-> SealedUnder(a)]

(* The provider issues the next set of tokens of an account.                 *)
Issues(a) ==
  /\ issued[a] < MaxIssued
  /\ issued' = [issued EXCEPT ![a] = @ + 1]

(* store_tokens by an operator after a new authorization; with reauthorize   *)
(* it also brings back an account it saw revoked.                            *)
Authorize(w, a, reauthorize) ==
  /\ Issues(a)
  /\ Begins(w, "authorizing", a, Sealed(a, issued[a] + 1),
            IF reauthorize THEN status[a] ELSE "active")
  /\ UNCHANGED <<status, cred, age>>

(* Decrypted and sealed under the next version.                              *)
Rotated(a) == [cred[a] EXCEPT !.version = @ + 1, !.sealed = cred[a].version + 1]

(* Mutant: the version is not kept to the byte the envelope has for it. *)
RotateUnbounded(w, a) ==
  /\ cred[a] # NoRecord
  /\ cred[a].sealed = cred[a].version
  /\ Begins(w, "rotating", a, Rotated(a), "active")
  /\ UNCHANGED <<status, cred, age, issued>>

(* rotate_credential_key: decrypt, and seal under the next version, if the    *)
(* envelope can name it.                                                     *)
Rotate(w, a) ==
  /\ cred[a] # NoRecord
  /\ cred[a].sealed = cred[a].version
  /\ cred[a].version < MaxVersion
  /\ Begins(w, "rotating", a, Rotated(a), "active")
  /\ UNCHANGED <<status, cred, age, issued>>

(* revoke_credential: "first the credential, then the account". *)
Revoke(w, a) ==
  /\ cred[a] # NoRecord
  /\ Begins(w, "revoking", a, [cred[a] EXCEPT !.state = "revoked"], "active")
  /\ UNCHANGED <<status, cred, age, issued>>

(* The put that ends a change of the record; a revocation goes on to the      *)
(* account, and a new authorization to an account it saw revoked.            *)
AfterPut(task) ==
  CASE task.op = "revoking" -> [task EXCEPT !.op = "pausing"]
    [] task.op = "authorizing" /\ task.status = "revoked" ->
         [task EXCEPT !.op = "reopening", !.status = "active"]
    [] OTHER -> Resting

Put(w) ==
  /\ doing[w].op \in Puts
  /\ cred' = [cred EXCEPT ![doing[w].account] = doing[w].record]
  /\ doing' = [doing EXCEPT ![w] = AfterPut(doing[w])]
  /\ UNCHANGED <<status, age, issued>>

(* The account of a revoked credential is paused, unless it is revoked.      *)
Pause(w) ==
  LET a == doing[w].account
  IN  /\ doing[w].op = "pausing"
      /\ IF status[a] = "active"
         THEN doing' = [doing EXCEPT ![w].op = "setting", ![w].status = "paused"]
         ELSE Ends(w)
      /\ UNCHANGED <<status, cred, age, issued>>

-----------------------------------------------------------------------------
(* refresh_decision, bind and ensure_fresh. *)

AgeOf(a) == IF cred[a] = NoRecord THEN "fresh" ELSE age[a][cred[a].tokens]

(* Mutant: an expired refresh token is looked at first. *)
DecisionByAge(a) ==
  CASE AgeOf(a) = "dead" -> "refresh_expired"
    [] AgeOf(a) # "dead" /\ cred[a].state = "revoked" -> "revoked"
    [] AgeOf(a) \in {"due", "stale"} /\ cred[a].state # "revoked" -> "needed"
    [] AgeOf(a) = "fresh" /\ cred[a].state # "revoked" -> "good"

Decision(a) ==
  CASE cred[a].state = "revoked" -> "revoked"
    [] cred[a].state # "revoked" /\ AgeOf(a) = "dead" -> "refresh_expired"
    [] cred[a].state # "revoked" /\ AgeOf(a) \in {"due", "stale"} -> "needed"
    [] cred[a].state # "revoked" /\ AgeOf(a) = "fresh" -> "good"

(* bind hands out a credential. *)
Bindable(a) ==
  /\ status[a] = "active"
  /\ cred[a] # NoRecord
  /\ Decision(a) \in {"good", "needed"}
  /\ AgeOf(a) # "stale"

(* ensure_fresh of a record whose refresh token has expired marks it. *)
MarkExpired(w, a) ==
  /\ cred[a] # NoRecord
  /\ Decision(a) = "refresh_expired"
  /\ Begins(w, "expiring", a, [cred[a] EXCEPT !.state = "expired"], "active")
  /\ UNCHANGED <<status, cred, age, issued>>

(* One that is due asks the provider for new tokens, ...                     *)
StartRefresh(w, a) ==
  /\ cred[a] # NoRecord
  /\ Decision(a) = "needed"
  /\ Begins(w, "asking", a, NoRecord, "active")
  /\ UNCHANGED <<status, cred, age, issued>>

(* ... and stores what it is given as store_tokens does.                     *)
Refreshed(w) ==
  LET a == doing[w].account
  IN  /\ doing[w].op = "asking"
      /\ Issues(a)
      /\ doing' = [doing EXCEPT ![w].op = "storing", ![w].record = Sealed(a, issued[a] + 1)]
      /\ UNCHANGED <<status, cred, age>>

(* The provider refuses, or its answer is lost. *)
RefreshFails(w) ==
  /\ doing[w].op = "asking"
  /\ Ends(w)
  /\ UNCHANGED <<status, cred, age, issued>>

TokensAge(a) ==
  /\ cred[a] # NoRecord
  /\ \/ AgeOf(a) = "fresh" /\ age' = [age EXCEPT ![a][cred[a].tokens] = "due"]
     \/ AgeOf(a) = "due" /\ age' = [age EXCEPT ![a][cred[a].tokens] = "stale"]
     \/ AgeOf(a) = "stale" /\ age' = [age EXCEPT ![a][cred[a].tokens] = "dead"]
  /\ UNCHANGED <<status, cred, issued, doing>>

Next ==
  \/ \E a \in Accounts :
        \/ TokensAge(a)
        \/ \E w \in Workers :
              \/ \E target \in AccountStatus : SetStatus(w, a, target)
              \/ \E reauthorize \in BOOLEAN : Authorize(w, a, reauthorize)
              \/ Rotate(w, a)
              \/ Revoke(w, a)
              \/ MarkExpired(w, a)
              \/ StartRefresh(w, a)
  \/ \E w \in Workers :
        SaveStatus(w) \/ Put(w) \/ Pause(w) \/ Refreshed(w) \/ RefreshFails(w)

Spec == Init /\ [][Next]_vars

-----------------------------------------------------------------------------
(* What revoking a credential is worth on a server without locks.  While it   *)
(* is revoked nobody takes up an operation that could make it valid again    *)
(* but an operator with newly authorized tokens, and bind refuses it.  Until *)
(* the last of the operations that had read it before it was revoked has     *)
(* written, any of them may still undo the revocation with the row it holds: *)
(* a refresh (service.py:470), a rotation (service.py:378), an expiry        *)
(* (service.py:445).                                                         *)
Revivers(a) ==
  {w \in Workers : /\ doing[w].account = a
                   /\ \/ doing[w].op = "asking"
                      \/ doing[w].op \in Puts \ {"authorizing"} /\ doing[w].record.state # "revoked"}
Authorizers(a) == {w \in Workers : doing[w].account = a /\ doing[w].op = "authorizing"}
RevokedStep(a) ==
  cred[a].state = "revoked" =>
    /\ Revivers(a)' \subseteq Revivers(a)
    /\ \/ cred'[a].state = "revoked" /\ ~Bindable(a)'
       \/ \E w \in (Revivers(a) \ Revivers(a)') \cup (Authorizers(a) \ Authorizers(a)') :
            cred'[a] = doing[w].record
OnlyEarlierReadsRevive == [][\A a \in Accounts : RevokedStep(a)]_vars

(* Every record opens: it names the key version its envelope was sealed      *)
(* under, after any order of rotations, refreshes and new tokens, also when  *)
(* one overwrites the other.                                                 *)
StoredTokensOpen == \A a \in Accounts : cred[a].sealed = cred[a].version

(* A revoked account comes back only by a change of status that had read it   *)
(* before it was revoked, or after an operator put newly authorized tokens.  *)
SettersOf(a) == {w \in Workers : doing[w].account = a /\ doing[w].op = "setting"}
RevokedAccountStays ==
  [][\A a \in Accounts : status[a] = "revoked" =>
       /\ SettersOf(a)' \subseteq SettersOf(a)
       /\ \/ status'[a] = "revoked"
          \/ \E w \in SettersOf(a) \ SettersOf(a)' : status'[a] = doing[w].status
          \/ \E w \in Workers : /\ doing[w].account = a /\ doing[w].op = "reopening"
                                /\ doing'[w] = Resting /\ status'[a] = "active"]_vars
=============================================================================
