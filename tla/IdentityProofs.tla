--------------------------- MODULE IdentityProofs ---------------------------
(***************************************************************************)
(* Proofs about Identity, for any number of accounts, threads, key         *)
(* versions and sets of tokens.                                            *)
(***************************************************************************)
EXTENDS Identity, TLAPS

(* The steps of a thread: it takes up an operation on an account, or goes on  *)
(* with the one it is at.                                                    *)
Starts(w, a) ==
  \/ \E target \in AccountStatus : SetStatus(w, a, target)
  \/ \E reauthorize \in BOOLEAN : Authorize(w, a, reauthorize)
  \/ Rotate(w, a)
  \/ Revoke(w, a)
  \/ MarkExpired(w, a)
  \/ StartRefresh(w, a)
GoesOn(w) == SaveStatus(w) \/ Put(w) \/ Pause(w) \/ Refreshed(w) \/ RefreshFails(w)

LEMMA NextSteps ==
  Next => \/ \E a \in Accounts : TokensAge(a)
          \/ \E w \in Workers, a \in Accounts : Starts(w, a)
          \/ \E w \in Workers : GoesOn(w)
BY DEF Next, Starts, GoesOn

-----------------------------------------------------------------------------
(* Type correctness. *)

LEMMA TypeInit == Init => TypeOK
BY IdentityAssumption
   DEF IdentityAssumption, Init, TypeOK, AccountStatus, Age, Record, NoRecord, Task, Resting, Puts, Saves

(* A record that is on file has tokens and a version that an envelope names. *)
LEMMA RecordType ==
  ASSUME TypeOK, NEW a \in Accounts
  PROVE  /\ cred[a] \in Record
         /\ cred[a].version \in 1..MaxVersion /\ cred[a].sealed \in 1..MaxVersion
         /\ cred[a] # NoRecord => cred[a].tokens \in 1..MaxIssued
BY IdentityAssumption DEF TypeOK, Record, NoRecord, IdentityAssumption

(* What a thread may begin is well typed when its record is.                 *)
LEMMA BeginsType ==
  ASSUME TypeOK, NEW w \in Workers, NEW a \in Accounts,
         NEW op \in ({"asking"} \cup Puts \cup {"setting"}), NEW record \in Record,
         NEW target \in AccountStatus, op \in Puts => record # NoRecord,
         Begins(w, op, a, record, target)
  PROVE  /\ doing' \in [Workers -> Task]
         /\ \A v \in Workers : doing'[v].op # "resting" => doing'[v].account \in Accounts
         /\ \A v \in Workers : doing'[v].op \in Puts => doing'[v].record # NoRecord
<1> DEFINE task == [op |-> op, account |-> a, record |-> record, status |-> target]
<1>1. task \in Task
  BY DEF Task, Saves
<1>2. doing' = [doing EXCEPT ![w] = task]
  BY DEF Begins
<1> HIDE DEF task
<1>3. task.op = op /\ task.account = a /\ task.record = record
  BY DEF task
<1> QED BY <1>1, <1>2, <1>3 DEF TypeOK

(* A thread that changes what it is doing goes on well typed.                *)
LEMMA GoesType ==
  ASSUME TypeOK, NEW w \in Workers, NEW task \in Task, doing' = [doing EXCEPT ![w] = task],
         task.op # "resting" => task.account \in Accounts,
         task.op \in Puts => task.record # NoRecord
  PROVE  /\ doing' \in [Workers -> Task]
         /\ \A v \in Workers : doing'[v].op # "resting" => doing'[v].account \in Accounts
         /\ \A v \in Workers : doing'[v].op \in Puts => doing'[v].record # NoRecord
BY DEF TypeOK

LEMMA RestingType == Resting \in Task /\ Resting.op = "resting" /\ Resting.op \notin Puts
BY DEF Resting, Task, Record, AccountStatus, Puts

LEMMA SealedType ==
  ASSUME TypeOK, NEW a \in Accounts, issued[a] < MaxIssued
  PROVE  /\ issued[a] + 1 \in 1..MaxIssued
         /\ Sealed(a, issued[a] + 1) \in Record /\ Sealed(a, issued[a] + 1) # NoRecord
<1>1. issued[a] + 1 \in 1..MaxIssued
  BY IdentityAssumption DEF TypeOK, IdentityAssumption
<1>2. cred[a].version \in 1..MaxVersion
  BY RecordType
<1>3. Sealed(a, issued[a] + 1) = [state |-> "valid", tokens |-> issued[a] + 1,
                                  version |-> cred[a].version, sealed |-> cred[a].version]
  BY DEF Sealed, KeyVersion, SealedUnder
<1> QED BY <1>1, <1>2, <1>3 DEF Record, NoRecord

LEMMA TypeStep == TypeOK /\ [Next]_vars => TypeOK'
<1> SUFFICES ASSUME TypeOK, [Next]_vars PROVE TypeOK'
  OBVIOUS
<1> USE IdentityAssumption DEF IdentityAssumption
<1>1. CASE UNCHANGED vars
  BY <1>1 DEF vars, TypeOK
<1>2. ASSUME NEW a \in Accounts, TokensAge(a) PROVE TypeOK'
  <2>1. cred[a].tokens \in 1..MaxIssued
    BY <1>2, RecordType DEF TokensAge
  <2>2. PICK later \in Age : age' = [age EXCEPT ![a][cred[a].tokens] = later]
    BY <1>2 DEF TokensAge, Age
  <2>3. age[a] \in [1..MaxIssued -> Age]
    BY DEF TypeOK
  <2>4. [age[a] EXCEPT ![cred[a].tokens] = later] \in [1..MaxIssued -> Age]
    BY <2>1, <2>3
  <2>5. age' = [age EXCEPT ![a] = [age[a] EXCEPT ![cred[a].tokens] = later]]
    BY <2>2
  <2>6. age' \in [Accounts -> [1..MaxIssued -> Age]]
    BY <2>4, <2>5 DEF TypeOK
  <2> QED BY <1>2, <2>6 DEF TokensAge, TypeOK
<1>3. ASSUME NEW w \in Workers, NEW a \in Accounts, Starts(w, a) PROVE TypeOK'
  <2> DEFINE Typed == /\ doing' \in [Workers -> Task]
                      /\ \A v \in Workers : doing'[v].op # "resting" => doing'[v].account \in Accounts
                      /\ \A v \in Workers : doing'[v].op \in Puts => doing'[v].record # NoRecord
  <2>0. NoRecord \in Record /\ "active" \in AccountStatus
    BY DEF Record, AccountStatus
  <2>1. ASSUME NEW target \in AccountStatus, SetStatus(w, a, target) PROVE TypeOK'
    <3>1. Typed
      BY <2>0, <2>1, BeginsType DEF SetStatus, Puts
    <3> QED BY <2>1, <3>1 DEF SetStatus, TypeOK
  <2>2. ASSUME NEW reauthorize \in BOOLEAN, Authorize(w, a, reauthorize) PROVE TypeOK'
    <3>1. issued' = [issued EXCEPT ![a] = @ + 1] /\ issued[a] < MaxIssued
      BY <2>2 DEF Authorize, Issues
    <3>2. status[a] \in AccountStatus
      BY DEF TypeOK
    <3>3. Typed
      BY <2>0, <2>2, <3>1, <3>2, SealedType, BeginsType DEF Authorize, Puts
    <3> QED BY <2>2, <3>1, <3>3, SealedType DEF Authorize, TypeOK
  <2>3. CASE Rotate(w, a)
    <3>1. Rotated(a) \in Record /\ Rotated(a) # NoRecord
      <4>1. cred[a].version + 1 \in 1..MaxVersion
        BY <2>3, RecordType DEF Rotate
      <4> QED BY <2>3, <4>1, RecordType DEF Rotate, Rotated, Record, NoRecord
    <3>2. Typed
      BY <2>0, <2>3, <3>1, BeginsType DEF Rotate, Puts
    <3> QED BY <2>3, <3>2 DEF Rotate, TypeOK
  <2>4. CASE Revoke(w, a)
    <3> DEFINE record == [cred[a] EXCEPT !.state = "revoked"]
    <3>1. record \in Record /\ record # NoRecord
      BY <2>4, RecordType DEF Revoke, Record, NoRecord
    <3>2. Typed
      BY <2>0, <2>4, <3>1, BeginsType DEF Revoke, Puts
    <3> QED BY <2>4, <3>2 DEF Revoke, TypeOK
  <2>5. CASE MarkExpired(w, a)
    <3> DEFINE record == [cred[a] EXCEPT !.state = "expired"]
    <3>1. record \in Record /\ record # NoRecord
      BY <2>5, RecordType DEF MarkExpired, Record, NoRecord
    <3>2. Typed
      BY <2>0, <2>5, <3>1, BeginsType DEF MarkExpired, Puts
    <3> QED BY <2>5, <3>2 DEF MarkExpired, TypeOK
  <2>6. CASE StartRefresh(w, a)
    <3>1. Typed
      BY <2>0, <2>6, BeginsType DEF StartRefresh, Puts
    <3> QED BY <2>6, <3>1 DEF StartRefresh, TypeOK
  <2> QED BY <1>3, <2>1, <2>2, <2>3, <2>4, <2>5, <2>6 DEF Starts
<1>4. ASSUME NEW w \in Workers, GoesOn(w) PROVE TypeOK'
  <2>0. doing[w] \in Task /\ (doing[w].op # "resting" => doing[w].account \in Accounts)
    BY DEF TypeOK
  <2> DEFINE Typed == /\ doing' \in [Workers -> Task]
                      /\ \A v \in Workers : doing'[v].op # "resting" => doing'[v].account \in Accounts
                      /\ \A v \in Workers : doing'[v].op \in Puts => doing'[v].record # NoRecord
  <2>a. Ends(w) => Typed
    BY RestingType, GoesType DEF Ends
  <2>1. CASE SaveStatus(w)
    <3>1. doing[w].account \in Accounts /\ doing[w].status \in AccountStatus
      BY <2>0, <2>1 DEF SaveStatus, Saves, Task
    <3> QED BY <2>1, <2>a, <3>1 DEF SaveStatus, TypeOK
  <2>2. CASE Put(w)
    <3>1. doing[w].account \in Accounts /\ doing[w].record \in Record
      BY <2>0, <2>2 DEF Put, Puts, Task
    <3>2. /\ AfterPut(doing[w]) \in Task
          /\ AfterPut(doing[w]).op # "resting" => AfterPut(doing[w]).account \in Accounts
          /\ AfterPut(doing[w]).op \notin Puts
      <4>1. CASE doing[w].op = "revoking"
        BY <2>0, <4>1, <3>1 DEF AfterPut, Task, Puts, Saves
      <4>2. CASE doing[w].op # "revoking" /\ doing[w].op = "authorizing" /\ doing[w].status = "revoked"
        BY <2>0, <4>2, <3>1 DEF AfterPut, Task, Puts, Saves, AccountStatus
      <4>3. CASE doing[w].op # "revoking" /\ ~(doing[w].op = "authorizing" /\ doing[w].status = "revoked")
        <5>1. AfterPut(doing[w]) = Resting
          BY <4>3 DEF AfterPut
        <5> QED BY <5>1, RestingType
      <4> QED BY <4>1, <4>2, <4>3
    <3>3. Typed
      BY <2>2, <3>2, GoesType DEF Put
    <3> QED BY <2>2, <3>1, <3>3 DEF Put, TypeOK
  <2>3. CASE Pause(w)
    <3>1. CASE status[doing[w].account] = "active"
      <4> DEFINE task == [doing[w] EXCEPT !.op = "setting", !.status = "paused"]
      <4>1. doing' = [doing EXCEPT ![w] = task]
        BY <2>0, <2>3, <3>1 DEF Pause, Task, TypeOK
      <4>2. task \in Task /\ task.op \notin Puts /\ task.account \in Accounts
        BY <2>0, <2>3 DEF Pause, Task, Saves, Puts, AccountStatus
      <4> HIDE DEF task
      <4>3. Typed
        BY <4>1, <4>2, GoesType
      <4> QED BY <2>3, <4>3 DEF Pause, TypeOK
    <3>2. CASE status[doing[w].account] # "active"
      BY <2>3, <2>a, <3>2 DEF Pause, TypeOK
    <3> QED BY <3>1, <3>2
  <2>4. CASE Refreshed(w)
    <3> DEFINE a == doing[w].account
               task == [doing[w] EXCEPT !.op = "storing", !.record = Sealed(a, issued[a] + 1)]
    <3>1. a \in Accounts /\ issued[a] < MaxIssued /\ issued' = [issued EXCEPT ![a] = @ + 1]
      BY <2>0, <2>4 DEF Refreshed, Issues
    <3>2. Sealed(a, issued[a] + 1) \in Record /\ Sealed(a, issued[a] + 1) # NoRecord
      BY <3>1, SealedType
    <3>3. doing' = [doing EXCEPT ![w] = task]
      BY <2>0, <2>4 DEF Refreshed, Task, TypeOK
    <3>4. task \in Task /\ task.account \in Accounts /\ task.record # NoRecord
      BY <2>0, <3>1, <3>2 DEF Task, Puts
    <3> HIDE DEF task
    <3>5. Typed
      BY <3>3, <3>4, GoesType
    <3> QED BY <2>4, <3>1, <3>5, SealedType DEF Refreshed, TypeOK
  <2>5. CASE RefreshFails(w)
    BY <2>5, <2>a DEF RefreshFails, TypeOK
  <2> QED BY <1>4, <2>1, <2>2, <2>3, <2>4, <2>5 DEF GoesOn
<1> QED BY <1>1, <1>2, <1>3, <1>4, NextSteps

(* Every variable of the service keeps its type; in particular no record      *)
(* names a key version its envelope has no byte for.                         *)
THEOREM IdentityTypeCorrect == Spec => []TypeOK
BY TypeInit, TypeStep, PTL DEF Spec

-----------------------------------------------------------------------------
(* Every record opens: so does every record a thread is about to put.        *)

HeldOpen == \A w \in Workers : doing[w].record.sealed = doing[w].record.version
OpenInv == StoredTokensOpen /\ HeldOpen

LEMMA OpensInit == Init => OpenInv
BY DEF Init, OpenInv, HeldOpen, StoredTokensOpen, NoRecord, Resting

LEMMA OpensStep == TypeOK /\ OpenInv /\ [Next]_vars => OpenInv'
<1> SUFFICES ASSUME TypeOK, OpenInv, [Next]_vars PROVE OpenInv'
  OBVIOUS
<1> USE DEF OpenInv, HeldOpen, StoredTokensOpen
<1>0. Resting.record.sealed = Resting.record.version
  BY DEF Resting, NoRecord
<1>1. CASE UNCHANGED vars
  BY <1>1 DEF vars
<1>2. ASSUME NEW a \in Accounts, TokensAge(a) PROVE OpenInv'
  BY <1>2 DEF TokensAge
<1>3. ASSUME NEW w \in Workers, NEW a \in Accounts, Starts(w, a) PROVE OpenInv'
  <2>0. ASSUME NEW op, NEW record, NEW target, Begins(w, op, a, record, target), cred' = cred,
               record.sealed = record.version
        PROVE  OpenInv'
    <3> DEFINE task == [op |-> op, account |-> a, record |-> record, status |-> target]
    <3>1. task.record = record
      OBVIOUS
    <3>2. doing' = [doing EXCEPT ![w] = task]
      BY <2>0 DEF Begins
    <3> HIDE DEF task
    <3> QED BY <2>0, <3>1, <3>2 DEF TypeOK
  <2>1. ASSUME NEW target \in AccountStatus, SetStatus(w, a, target) PROVE OpenInv'
    BY <2>0, <2>1 DEF SetStatus, NoRecord
  <2>2. ASSUME NEW reauthorize \in BOOLEAN, Authorize(w, a, reauthorize) PROVE OpenInv'
    BY <2>0, <2>2 DEF Authorize, Sealed, KeyVersion, SealedUnder
  <2>3. CASE Rotate(w, a)
    <3>1. Rotated(a).sealed = Rotated(a).version
      BY RecordType DEF Rotated, Record, NoRecord
    <3> QED BY <2>0, <2>3, <3>1 DEF Rotate
  <2>4. CASE Revoke(w, a)
    <3>1. [cred[a] EXCEPT !.state = "revoked"].sealed = [cred[a] EXCEPT !.state = "revoked"].version
      BY RecordType DEF Record, NoRecord
    <3> QED BY <2>0, <2>4, <3>1 DEF Revoke
  <2>5. CASE MarkExpired(w, a)
    <3>1. [cred[a] EXCEPT !.state = "expired"].sealed = [cred[a] EXCEPT !.state = "expired"].version
      BY RecordType DEF Record, NoRecord
    <3> QED BY <2>0, <2>5, <3>1 DEF MarkExpired
  <2>6. CASE StartRefresh(w, a)
    BY <2>0, <2>6 DEF StartRefresh, NoRecord
  <2> QED BY <1>3, <2>1, <2>2, <2>3, <2>4, <2>5, <2>6 DEF Starts
<1>4. ASSUME NEW w \in Workers, GoesOn(w) PROVE OpenInv'
  <2>1. CASE SaveStatus(w) \/ RefreshFails(w)
    BY <1>0, <2>1 DEF SaveStatus, RefreshFails, Ends, TypeOK
  <2>2. CASE Put(w)
    <3>1. AfterPut(doing[w]).record.sealed = AfterPut(doing[w]).record.version
      BY <1>0 DEF AfterPut, TypeOK, Task
    <3> QED BY <2>2, <3>1 DEF Put, TypeOK
  <2>3. CASE Pause(w)
    BY <1>0, <2>3 DEF Pause, Ends, TypeOK, Task
  <2>4. CASE Refreshed(w)
    BY <2>4 DEF Refreshed, Sealed, KeyVersion, SealedUnder, TypeOK, Task
  <2> QED BY <1>4, <2>1, <2>2, <2>3, <2>4 DEF GoesOn
<1> QED BY <1>1, <1>2, <1>3, <1>4, NextSteps

(* Every record names the key version its envelope was sealed under, for any *)
(* interleaving of rotations, refreshes and new tokens.                      *)
THEOREM RecordsOpen == Spec => []StoredTokensOpen
<1>1. OpenInv => StoredTokensOpen
  BY DEF OpenInv
<1> QED BY <1>1, TypeInit, TypeStep, OpensInit, OpensStep, PTL DEF Spec

-----------------------------------------------------------------------------
(* A revoked credential. *)

(* A revoked record is not refreshed, not marked as expired, not bound.      *)
LEMMA RevokedDecision ==
  ASSUME NEW a, cred[a].state = "revoked" PROVE Decision(a) = "revoked"
BY DEF Decision

(* The types of what a thread is doing, as facts to cite.                    *)
LEMMA TaskType ==
  ASSUME TypeOK, NEW w \in Workers
  PROVE  /\ doing[w] \in Task
         /\ doing[w].op # "resting" => doing[w].account \in Accounts
BY DEF TypeOK

LEMMA RevivalStep ==
  ASSUME TypeOK, [Next]_vars, NEW b \in Accounts PROVE RevokedStep(b)
<1> DEFINE Fewer == Revivers(b)' \subseteq Revivers(b)
           Undone == \E w \in (Revivers(b) \ Revivers(b)') \cup (Authorizers(b) \ Authorizers(b)') :
                       cred'[b] = doing[w].record
<1> SUFFICES ASSUME cred[b].state = "revoked"
             PROVE  Fewer /\ (cred'[b].state = "revoked" \/ Undone)
  <2>1. cred'[b].state = "revoked" => ~Bindable(b)'
    BY DEF Bindable, Decision
  <2> QED BY <2>1 DEF RevokedStep
<1>1. CASE UNCHANGED vars
  BY <1>1 DEF vars, Revivers
<1>2. ASSUME NEW a \in Accounts, TokensAge(a)
      PROVE  Fewer /\ (cred'[b].state = "revoked" \/ Undone)
  BY <1>2 DEF TokensAge, Revivers
<1>3. ASSUME NEW w \in Workers, NEW a \in Accounts, Starts(w, a)
      PROVE  Fewer /\ (cred'[b].state = "revoked" \/ Undone)
  <2>0. ASSUME NEW op, NEW record, NEW target, Begins(w, op, a, record, target), cred' = cred,
               a # b \/ (op # "asking" /\ (op \in Puts \ {"authorizing"} => record.state = "revoked"))
        PROVE  Fewer /\ cred'[b].state = "revoked"
    <3> DEFINE task == [op |-> op, account |-> a, record |-> record, status |-> target]
    <3>1. task.record = record /\ task.op = op /\ task.account = a
      OBVIOUS
    <3>2. doing' = [doing EXCEPT ![w] = task]
      BY <2>0 DEF Begins
    <3> HIDE DEF task
    <3>3. \A v \in Workers \ {w} : doing'[v] = doing[v]
      BY <3>2 DEF TypeOK
    <3>4. doing'[w] = task
      BY <3>2 DEF TypeOK
    <3>5. w \notin Revivers(b)'
      BY <2>0, <3>1, <3>4 DEF Revivers
    <3>6. Fewer
      BY <3>3, <3>5 DEF Revivers
    <3> QED BY <2>0, <3>6
  <2>1. ASSUME NEW target \in AccountStatus, SetStatus(w, a, target)
        PROVE Fewer /\ cred'[b].state = "revoked"
    BY <2>0, <2>1 DEF SetStatus, Puts
  <2>2. ASSUME NEW reauthorize \in BOOLEAN, Authorize(w, a, reauthorize)
        PROVE Fewer /\ cred'[b].state = "revoked"
    BY <2>0, <2>2 DEF Authorize
  <2>3. CASE Rotate(w, a)
    <3>1. a # b \/ Rotated(a).state = "revoked"
      BY RecordType DEF Rotated, Record, NoRecord
    <3> QED BY <2>0, <2>3, <3>1 DEF Rotate
  <2>4. CASE Revoke(w, a)
    <3>1. [cred[a] EXCEPT !.state = "revoked"].state = "revoked"
      BY RecordType DEF Record, NoRecord
    <3> QED BY <2>0, <2>4, <3>1 DEF Revoke
  <2>5. CASE MarkExpired(w, a)
    <3>1. a # b
      BY <2>5, RevokedDecision DEF MarkExpired
    <3> QED BY <2>0, <2>5, <3>1 DEF MarkExpired
  <2>6. CASE StartRefresh(w, a)
    <3>1. a # b
      BY <2>6, RevokedDecision DEF StartRefresh
    <3> QED BY <2>0, <2>6, <3>1 DEF StartRefresh
  <2> QED BY <1>3, <2>1, <2>2, <2>3, <2>4, <2>5, <2>6 DEF Starts
<1>4. ASSUME NEW w \in Workers, GoesOn(w)
      PROVE  Fewer /\ (cred'[b].state = "revoked" \/ Undone)
  <2>0. ASSUME NEW task, doing' = [doing EXCEPT ![w] = task],
               \/ task.op \notin Puts \cup {"asking"}
               \/ task.account = doing[w].account /\ doing[w].op = "asking"
        PROVE  Fewer
    <3>1. doing'[w] = task /\ \A v \in Workers \ {w} : doing'[v] = doing[v]
      BY <2>0 DEF TypeOK
    <3>2. w \in Revivers(b)' => w \in Revivers(b)
      BY <2>0, <3>1 DEF Revivers
    <3> QED BY <3>1, <3>2 DEF Revivers
  <2>1. CASE SaveStatus(w) \/ RefreshFails(w)
    BY <2>0, <2>1, RestingType DEF SaveStatus, RefreshFails, Ends, Resting, Puts
  <2>2. CASE Put(w)
    <3>1. doing[w].account \in Accounts /\ doing[w].op \in Puts
      BY <2>2, TaskType DEF Put, Puts
    <3>2. AfterPut(doing[w]).op \notin Puts \cup {"asking"}
      BY <2>2, TaskType DEF Put, AfterPut, Puts, Resting, Task
    <3>3. Fewer /\ doing'[w] = AfterPut(doing[w])
      BY <2>0, <2>2, <3>2 DEF Put, TypeOK
    <3>4. w \notin Revivers(b)' /\ w \notin Authorizers(b)'
      BY <3>2, <3>3 DEF Revivers, Authorizers, Puts
    <3>5. CASE doing[w].account # b
      BY <2>2, <3>3, <3>5 DEF Put, TypeOK
    <3>6. CASE doing[w].account = b
      <4>1. cred'[b] = doing[w].record
        BY <2>2, <3>6 DEF Put, TypeOK
      <4>2. CASE doing[w].op = "authorizing"
        BY <3>3, <3>4, <3>6, <4>1, <4>2 DEF Authorizers
      <4>3. CASE doing[w].op # "authorizing" /\ doing[w].record.state # "revoked"
        BY <3>1, <3>3, <3>4, <3>6, <4>1, <4>3 DEF Revivers
      <4> QED BY <3>3, <4>1, <4>2, <4>3
    <3> QED BY <3>5, <3>6
  <2>3. CASE Pause(w)
    <3>1. CASE status[doing[w].account] = "active"
      <4> DEFINE task == [doing[w] EXCEPT !.op = "setting", !.status = "paused"]
      <4>1. doing' = [doing EXCEPT ![w] = task]
        BY <2>3, <3>1, TaskType DEF Pause, Task, TypeOK
      <4>2. task.op = "setting"
        BY TaskType DEF Task
      <4> HIDE DEF task
      <4> QED BY <2>0, <2>3, <4>1, <4>2 DEF Pause, Puts
    <3>2. CASE status[doing[w].account] # "active"
      BY <2>0, <2>3, <3>2, RestingType DEF Pause, Ends, Resting, Puts
    <3> QED BY <3>1, <3>2
  <2>4. CASE Refreshed(w)
    <3> DEFINE a == doing[w].account
               task == [doing[w] EXCEPT !.op = "storing", !.record = Sealed(a, issued[a] + 1)]
    <3>1. doing' = [doing EXCEPT ![w] = task]
      BY <2>4, TaskType DEF Refreshed, Task, TypeOK
    <3>2. task.account = doing[w].account
      BY TaskType DEF Task
    <3> HIDE DEF task
    <3> QED BY <2>0, <2>4, <3>1, <3>2 DEF Refreshed
  <2> QED BY <1>4, <2>1, <2>2, <2>3, <2>4 DEF GoesOn
<1> QED BY <1>1, <1>2, <1>3, <1>4, NextSteps

(* A revocation is undone only by what was under way when it was recorded, or *)
(* by newly authorized tokens, for any number of threads and accounts.       *)
THEOREM RevivedByEarlierReads == Spec => OnlyEarlierReadsRevive
<1>1. TypeOK /\ [Next]_vars => [\A a \in Accounts : RevokedStep(a)]_vars
  BY RevivalStep
<1> QED BY <1>1, TypeInit, TypeStep, PTL DEF Spec, OnlyEarlierReadsRevive

-----------------------------------------------------------------------------
(* A revoked account. *)

StaysStep(a) ==
  status[a] = "revoked" =>
    /\ SettersOf(a)' \subseteq SettersOf(a)
    /\ \/ status'[a] = "revoked"
       \/ \E w \in SettersOf(a) \ SettersOf(a)' : status'[a] = doing[w].status
       \/ \E w \in Workers : /\ doing[w].account = a /\ doing[w].op = "reopening"
                             /\ doing'[w] = Resting /\ status'[a] = "active"

(* An account is reopened as active.                                         *)
ReopensActive == \A w \in Workers : doing[w].op = "reopening" => doing[w].status = "active"

LEMMA ReopensInit == Init => ReopensActive
BY DEF Init, ReopensActive, Resting

LEMMA ReopensStep == ASSUME TypeOK, ReopensActive, [Next]_vars PROVE ReopensActive'
<1>0. ASSUME NEW w \in Workers, NEW task, doing' = [doing EXCEPT ![w] = task],
             task.op = "reopening" => task.status = "active"
      PROVE  ReopensActive'
  BY <1>0 DEF ReopensActive, TypeOK
<1>1. CASE UNCHANGED doing
  BY <1>1 DEF ReopensActive
<1>2. ASSUME NEW w \in Workers, NEW a \in Accounts, NEW op, NEW record, NEW target,
             Begins(w, op, a, record, target), op # "reopening"
      PROVE  ReopensActive'
  <2> DEFINE task == [op |-> op, account |-> a, record |-> record, status |-> target]
  <2>1. task.op # "reopening"
    BY <1>2
  <2>2. doing' = [doing EXCEPT ![w] = task]
    BY <1>2 DEF Begins
  <2> HIDE DEF task
  <2> QED BY <1>0, <2>1, <2>2
<1>3. ASSUME NEW w \in Workers, NEW a \in Accounts, Starts(w, a) PROVE ReopensActive'
  BY <1>2, <1>3 DEF Starts, SetStatus, Authorize, Rotate, Revoke, MarkExpired, StartRefresh
<1>4. ASSUME NEW w \in Workers, GoesOn(w) PROVE ReopensActive'
  <2>1. CASE Ends(w)
    BY <1>0, <2>1 DEF Ends, Resting
  <2>2. CASE Put(w)
    <3>1. AfterPut(doing[w]).op = "reopening" => AfterPut(doing[w]).status = "active"
      BY <2>2, TaskType DEF Put, AfterPut, Puts, Resting, Task
    <3> QED BY <1>0, <2>2, <3>1 DEF Put
  <2>3. CASE Pause(w) /\ ~Ends(w)
    <3> DEFINE task == [doing[w] EXCEPT !.op = "setting", !.status = "paused"]
    <3>1. doing' = [doing EXCEPT ![w] = task]
      BY <2>3, TaskType DEF Pause, Task, TypeOK
    <3>2. task.op = "setting"
      BY TaskType DEF Task
    <3> HIDE DEF task
    <3> QED BY <1>0, <3>1, <3>2
  <2>4. CASE Refreshed(w)
    <3> DEFINE a == doing[w].account
               task == [doing[w] EXCEPT !.op = "storing", !.record = Sealed(a, issued[a] + 1)]
    <3>1. doing' = [doing EXCEPT ![w] = task]
      BY <2>4, TaskType DEF Refreshed, Task, TypeOK
    <3>2. task.op = "storing"
      BY TaskType DEF Task
    <3> HIDE DEF task
    <3> QED BY <1>0, <3>1, <3>2
  <2> QED BY <1>4, <2>1, <2>2, <2>3, <2>4 DEF GoesOn, SaveStatus, RefreshFails
<1> QED BY <1>1, <1>3, <1>4, NextSteps DEF TokensAge, vars

LEMMA ReturnStep ==
  ASSUME TypeOK, ReopensActive, [Next]_vars, NEW b \in Accounts PROVE StaysStep(b)
<1> DEFINE Fewer == SettersOf(b)' \subseteq SettersOf(b)
<1> SUFFICES ASSUME status[b] = "revoked"
             PROVE  /\ Fewer
                    /\ \/ status'[b] = "revoked"
                       \/ \E w \in SettersOf(b) \ SettersOf(b)' : status'[b] = doing[w].status
                       \/ \E w \in Workers : /\ doing[w].account = b /\ doing[w].op = "reopening"
                                             /\ doing'[w] = Resting /\ status'[b] = "active"
  BY DEF StaysStep
<1>0. ASSUME NEW w \in Workers, NEW task, doing' = [doing EXCEPT ![w] = task],
             task.op # "setting" \/ task.account # b
      PROVE  Fewer
  BY <1>0 DEF SettersOf, TypeOK
<1>1. CASE UNCHANGED <<doing, status>>
  BY <1>1 DEF SettersOf
<1>2. ASSUME NEW w \in Workers, NEW a \in Accounts, Starts(w, a)
      PROVE  Fewer /\ status' = status
  <2>0. ASSUME NEW op, NEW record, NEW target, Begins(w, op, a, record, target),
               op # "setting" \/ a # b
        PROVE  Fewer
    <3> DEFINE task == [op |-> op, account |-> a, record |-> record, status |-> target]
    <3>1. task.op = op /\ task.account = a
      OBVIOUS
    <3>2. doing' = [doing EXCEPT ![w] = task]
      BY <2>0 DEF Begins
    <3> HIDE DEF task
    <3> QED BY <1>0, <2>0, <3>1, <3>2
  <2>1. ASSUME NEW target \in AccountStatus, SetStatus(w, a, target) PROVE Fewer /\ status' = status
    <3>1. a # b
      BY <2>1 DEF SetStatus, AccountSuccessors
    <3> QED BY <2>0, <2>1, <3>1 DEF SetStatus
  <2> QED BY <1>2, <2>0, <2>1 DEF Starts, Authorize, Rotate, Revoke, MarkExpired, StartRefresh
<1>3. ASSUME NEW w \in Workers, SaveStatus(w)
      PROVE  /\ Fewer
             /\ \/ status'[b] = "revoked"
                \/ \E v \in SettersOf(b) \ SettersOf(b)' : status'[b] = doing[v].status
                \/ \E v \in Workers : /\ doing[v].account = b /\ doing[v].op = "reopening"
                                      /\ doing'[v] = Resting /\ status'[b] = "active"
  <2>1. doing'[w] = Resting /\ doing[w].op \in Saves
    BY <1>3 DEF SaveStatus, Ends, TypeOK
  <2>2. Fewer
    BY <1>0, <1>3 DEF SaveStatus, Ends, Resting
  <2>3. CASE doing[w].account # b
    BY <1>3, <2>2, <2>3 DEF SaveStatus, TypeOK
  <2>4. CASE doing[w].account = b
    <3>1. status'[b] = doing[w].status
      BY <1>3, <2>4 DEF SaveStatus, TypeOK
    <3>2. CASE doing[w].op = "reopening"
      BY <2>1, <2>2, <2>4, <3>1, <3>2 DEF ReopensActive
    <3>3. CASE doing[w].op = "setting"
      <4>1. w \in SettersOf(b) \ SettersOf(b)'
        BY <2>1, <2>4, <3>3 DEF SettersOf, Resting
      <4> QED BY <2>2, <3>1, <4>1
    <3> QED BY <2>1, <3>2, <3>3 DEF Saves
  <2> QED BY <2>3, <2>4
<1>4. ASSUME NEW w \in Workers, Put(w) PROVE Fewer /\ status' = status
  <2>1. AfterPut(doing[w]).op # "setting"
    BY <1>4, TaskType DEF Put, AfterPut, Puts, Resting, Task
  <2> QED BY <1>0, <1>4, <2>1 DEF Put
<1>5. ASSUME NEW w \in Workers, Pause(w) PROVE Fewer /\ status' = status
  <2>1. CASE Ends(w)
    BY <1>0, <1>5, <2>1 DEF Pause, Ends, Resting
  <2>2. CASE ~Ends(w)
    <3> DEFINE task == [doing[w] EXCEPT !.op = "setting", !.status = "paused"]
    <3>1. doing' = [doing EXCEPT ![w] = task] /\ doing[w].account # b
      BY <1>5, <2>2, TaskType DEF Pause, Task, TypeOK
    <3>2. task.account = doing[w].account
      BY TaskType DEF Task
    <3> HIDE DEF task
    <3> QED BY <1>0, <1>5, <3>1, <3>2 DEF Pause
  <2> QED BY <2>1, <2>2
<1>6. ASSUME NEW w \in Workers, Refreshed(w) PROVE Fewer /\ status' = status
  <2> DEFINE a == doing[w].account
             task == [doing[w] EXCEPT !.op = "storing", !.record = Sealed(a, issued[a] + 1)]
  <2>1. doing' = [doing EXCEPT ![w] = task]
    BY <1>6, TaskType DEF Refreshed, Task, TypeOK
  <2>2. task.op = "storing"
    BY TaskType DEF Task
  <2> HIDE DEF task
  <2> QED BY <1>0, <1>6, <2>1, <2>2 DEF Refreshed
<1>7. ASSUME NEW w \in Workers, RefreshFails(w) PROVE Fewer /\ status' = status
  BY <1>0, <1>7 DEF RefreshFails, Ends, Resting
<1> QED BY <1>1, <1>2, <1>3, <1>4, <1>5, <1>6, <1>7, NextSteps DEF GoesOn, TokensAge, vars

(* A revoked account comes back only by a change of status that had read it  *)
(* before, or after an operator has put newly authorized tokens.             *)
THEOREM RevokedAccountsReturn == Spec => RevokedAccountStays
<1>1. TypeOK /\ ReopensActive /\ [Next]_vars => ReopensActive'
  BY ReopensStep
<1>2. TypeOK /\ ReopensActive /\ [Next]_vars => [\A a \in Accounts : StaysStep(a)]_vars
  BY ReturnStep
<1> QED BY <1>1, <1>2, TypeInit, TypeStep, ReopensInit, PTL
        DEF Spec, RevokedAccountStays, StaysStep
=============================================================================
