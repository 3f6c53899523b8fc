--------------------------- MODULE VersionReview ---------------------------
(***************************************************************************)
(* The versions of one assistant and their review (services/assistants.py, *)
(* models/assistant.py), and the conversations that answer from them       *)
(* (services/chat.py).                                                     *)
(*                                                                         *)
(* A request to the API loads the assistant's row when it is authorised    *)
(* (api/deps.py).  `_locked' later selects the row FOR UPDATE in the same  *)
(* session: it takes the lock, but the session already holds the row, so   *)
(* the attributes the operation goes on to read are the ones loaded first. *)
(* Each handler therefore keeps the status and the live version it saw.    *)
(* Versions are loaded after the lock, so what is read of them is current. *)
(*                                                                         *)
(* Who may approve is asked of `OrgRights'; here any reviewer may.         *)
(***************************************************************************)
EXTENDS Naturals, Assistant

CONSTANTS
  MaxVersions,    \* bound on the submissions of the assistant
  Conversations   \* live conversations

Versions == 1..MaxVersions

Operations == {"submit", "approve", "make_live", "archive", "unarchive"}

ASSUME VersionsAssumption == MaxVersions \in Nat

ASSUME NoneAssumption ==
  None \notin Versions /\ None \notin Operations /\ None \notin Handlers

VARIABLES
  status,   \* of the assistant: draft, published or archived (paused)
  current,  \* the live version, or None
  version,  \* the review status of each version
  drifted,  \* versions that name something changed since they were submitted
  lock,     \* the handler that holds the assistant's row, or None
  handler,  \* local state of each request
  conv      \* each conversation, and the turn it is opening

vars == <<status, current, version, drifted, lock, handler, conv>>

Idle == [pc |-> "idle", op |-> None, number |-> None, status |-> None,
         current |-> None]
Unstarted == [on |-> None, turn |-> "idle", seen |-> None]

\* Mutant of Superseded: the older submission goes on waiting.
StillWaiting == version

\* Superseding: a submission that still waits gives way to a newer one.
Superseded ==
  [v \in Versions |-> IF version[v] = "submitted" THEN "superseded" ELSE version[v]]

\* The highest number and one more.
NextNumber(n) ==
  /\ \A m \in Versions : version[m] # "none" => m < n
  /\ \A m \in Versions : m < n => version[m] # "none"

-----------------------------------------------------------------------------
(* Loading and locking.                                                    *)

\* What archive and unarchive refuse is read from the row as it was loaded.
Load(h, op, n) ==
  /\ handler[h].pc = "idle"
  /\ op \in {"approve", "make_live"} => n \in Versions /\ version[n] # "none"
  /\ op \in {"submit", "archive", "unarchive"} => n = None
  /\ op = "archive" => status # "archived"
  /\ op = "unarchive" => status = "archived"
  /\ handler' = [handler EXCEPT ![h] =
       [pc |-> "loaded", op |-> op, number |-> n, status |-> status,
        current |-> current]]
  /\ UNCHANGED <<status, current, version, drifted, lock, conv>>

\* Mutant of RowFree: the row is read without FOR UPDATE.
NobodyWaits == TRUE

RowFree == lock = None

Lock(h) ==
  /\ handler[h].pc = "loaded"
  /\ handler[h].op \in {"submit", "approve", "make_live"}
  /\ RowFree
  /\ lock' = h
  /\ handler' = [handler EXCEPT ![h].pc = "locked"]
  /\ UNCHANGED <<status, current, version, drifted, conv>>

\* The end of a request's transaction, committed or rolled back.
Done(h) ==
  /\ handler' = [handler EXCEPT ![h] = Idle]
  /\ lock' = IF lock = h THEN None ELSE lock

\* The request fails, is refused, or its process dies: nothing is written.
GiveUp(h) ==
  /\ handler[h].pc # "idle"
  /\ Done(h)
  /\ UNCHANGED <<status, current, version, drifted, conv>>

-----------------------------------------------------------------------------
(* Submitting and reviewing.                                               *)

Submit(h, n) ==
  /\ handler[h].pc = "locked" /\ handler[h].op = "submit"
  /\ NextNumber(n)
  /\ version' = [Superseded EXCEPT ![n] = "submitted"]
  /\ Done(h)
  /\ UNCHANGED <<status, current, drifted, conv>>

\* With the lock: the version is loaded and what it names is checked.
Check(h) ==
  /\ handler[h].pc = "locked"
  /\ \/ handler[h].op = "approve" /\ version[handler[h].number] = "submitted"
     \/ /\ handler[h].op = "make_live" /\ version[handler[h].number] = "approved"
        /\ handler[h].number # handler[h].current
  /\ handler[h].number \notin drifted
  /\ handler' = [handler EXCEPT ![h].pc = "checked"]
  /\ UNCHANGED <<status, current, version, drifted, lock, conv>>

\* Mutant of Awaiting: the UPDATE does not look at the status again.
WasAwaiting(v, expected) == TRUE

\* The condition of _review_one's UPDATE.
Awaiting(v, expected) == version[v] = expected

Approve(h) ==
  LET n == handler[h].number
  IN /\ handler[h].pc = "checked" /\ handler[h].op = "approve"
     /\ Awaiting(n, "submitted")
     /\ version' = [version EXCEPT ![n] = "approved"]
     /\ current' = n
     /\ status' = IF handler[h].status = "draft" THEN "published" ELSE status
     /\ Done(h)
     /\ UNCHANGED <<drifted, conv>>

\* Roll back to the version: the one it replaces is the one the request saw.
MakeLive(h) ==
  LET n == handler[h].number
      replaced == handler[h].current
  IN /\ handler[h].pc = "checked" /\ handler[h].op = "make_live"
     /\ replaced # None => Awaiting(replaced, "approved")
     /\ version' = [v \in Versions |-> IF v = replaced THEN "rolled_back"
                                                       ELSE version[v]]
     /\ current' = n
     /\ Done(h)
     /\ UNCHANGED <<status, drifted, conv>>

\* reject and withdraw load no more than the version, and take no lock.
EndReview(n, to) ==
  /\ to \in {"rejected", "withdrawn"}
  /\ Awaiting(n, "submitted")
  /\ version' = [version EXCEPT ![n] = to]
  /\ UNCHANGED <<status, current, drifted, lock, handler, conv>>

\* Something a version names is changed or deleted.
Drift(n) ==
  /\ n \notin drifted
  /\ drifted' = drifted \cup {n}
  /\ UNCHANGED <<status, current, version, lock, handler, conv>>

-----------------------------------------------------------------------------
(* Pausing and reopening: an UPDATE that waits for the row, no more.       *)

Archive(h) ==
  /\ handler[h].pc = "loaded" /\ handler[h].op = "archive"
  /\ RowFree
  /\ status' = "archived"
  /\ Done(h)
  /\ UNCHANGED <<current, version, drifted, conv>>

Unarchive(h) ==
  /\ handler[h].pc = "loaded" /\ handler[h].op = "unarchive"
  /\ RowFree
  /\ status' = IF handler[h].current # None THEN "published" ELSE "draft"
  /\ Done(h)
  /\ UNCHANGED <<current, version, drifted, conv>>

-----------------------------------------------------------------------------
(* Conversations: a live one answers from the version it started on.       *)

Available == status # "archived" /\ current # None

\* Mutant of StartsOn: the newest version, reviewed or not.
StartsOnNewest == CHOOSE n \in Versions : version[n] # "none" /\ \A m \in Versions :
                    version[m] # "none" => m <= n

StartsOn == current

StartConversation(c) ==
  /\ conv[c].on = None
  /\ Available
  /\ conv' = [conv EXCEPT ![c].on = StartsOn]
  /\ UNCHANGED <<status, current, version, drifted, lock, handler>>

\* A turn reads the assistant, then the version of the conversation.
OpenTurn(c) ==
  /\ conv[c].on # None /\ conv[c].turn = "idle"
  /\ Available
  /\ conv' = [conv EXCEPT ![c].turn = "opening", ![c].seen = current]
  /\ UNCHANGED <<status, current, version, drifted, lock, handler>>

\* Mutant of OutOfService: a rollback moves no conversation.
NeverOut(v) == FALSE

OutOfService(v) == version[v] = "rolled_back"

Answer(c) ==
  /\ conv[c].turn = "opening"
  /\ conv' = [conv EXCEPT ![c] =
       [on |-> IF OutOfService(@.on) THEN @.seen ELSE @.on,
        turn |-> "idle", seen |-> None]]
  /\ UNCHANGED <<status, current, version, drifted, lock, handler>>

-----------------------------------------------------------------------------
Init ==
  /\ status = "draft" /\ current = None
  /\ version = [v \in Versions |-> "none"]
  /\ drifted = {}
  /\ lock = None
  /\ handler = [h \in Handlers |-> Idle]
  /\ conv = [c \in Conversations |-> Unstarted]

HandlerNext(h) ==
  \/ \E op \in Operations, n \in Versions \cup {None} : Load(h, op, n)
  \/ Lock(h)
  \/ \E n \in Versions : Submit(h, n)
  \/ Check(h)
  \/ Approve(h)
  \/ MakeLive(h)
  \/ Archive(h)
  \/ Unarchive(h)
  \/ GiveUp(h)

ConversationNext(c) == StartConversation(c) \/ OpenTurn(c) \/ Answer(c)

Next ==
  \/ \E h \in Handlers : HandlerNext(h)
  \/ \E n \in Versions, to \in {"rejected", "withdrawn"} : EndReview(n, to)
  \/ \E n \in Versions : Drift(n)
  \/ \E c \in Conversations : ConversationNext(c)

Spec == Init /\ [][Next]_vars

-----------------------------------------------------------------------------
(* Properties.                                                             *)

AssistantStatus == {"draft", "published", "archived"}
VersionStatus == {"none", "submitted", "approved", "rejected", "superseded",
                  "withdrawn", "rolled_back"}
HandlerType == [pc : {"idle", "loaded", "locked", "checked"},
                op : Operations \cup {None}, number : Versions \cup {None},
                status : AssistantStatus \cup {None},
                current : Versions \cup {None}]
ConversationType == [on : Versions \cup {None}, turn : {"idle", "opening"},
                     seen : Versions \cup {None}]

\* Every variable has its type.
TypeOK ==
  /\ status \in AssistantStatus
  /\ current \in Versions \cup {None}
  /\ version \in [Versions -> VersionStatus]
  /\ drifted \subseteq Versions
  /\ lock \in Handlers \cup {None}
  /\ handler \in [Handlers -> HandlerType]
  /\ conv \in [Conversations -> ConversationType]

\* The live version is an approved one, never one rolled back from: the pointer
\* and the review fields move together, although the pointer was read stale.
LiveIsApproved == current # None => version[current] = "approved"

\* One submission waits at most, and it is the last one made: an admin never
\* approves what its builder has already replaced.
WaitingIsNewest ==
  \A v \in Versions : version[v] = "submitted" =>
    \A w \in Versions : w > v => version[w] = "none"

\* A review is decided once, and a version rolled back from never comes back.
ReviewMoves ==
  {<<"none", "submitted">>, <<"approved", "rolled_back">>}
  \cup ({"submitted"} \X {"approved", "rejected", "superseded", "withdrawn"})
ReviewedOnce ==
  [][\A v \in Versions : version'[v] # version[v] =>
       <<version[v], version'[v]>> \in ReviewMoves]_vars

\* Nobody in Chat is ever answered by a version no admin approved.
ChatsOnReviewed ==
  \A c \in Conversations : conv[c].on # None =>
    version[conv[c].on] \in {"approved", "rolled_back"}

\* The next message after a rollback is answered by a version in service: only a
\* turn that was already opening when the live version moved may miss it.
AnswersInService ==
  [][\A c \in Conversations :
       conv[c].turn = "opening" /\ conv'[c].turn = "idle" /\ conv[c].seen = current
         => version[conv'[c].on] = "approved"]_vars

-----------------------------------------------------------------------------
(* The inductive invariant behind the safety properties.                   *)

\* The lock is held by the one handler past it, and what a rollback checked under
\* the lock still holds when it commits.
LockHolds ==
  \A h \in Handlers :
    /\ handler[h].pc \in {"locked", "checked"} => lock = h
    /\ handler[h].pc \in {"locked", "checked"} =>
         handler[h].op \in {"submit", "approve", "make_live"}
    /\ handler[h].op \in {"approve", "make_live"} => handler[h].number \in Versions
    /\ handler[h].pc = "checked" =>
         /\ handler[h].op \in {"approve", "make_live"}
         /\ handler[h].op = "make_live" =>
              /\ version[handler[h].number] = "approved"
              /\ handler[h].number # handler[h].current

\* What a turn read of the assistant was approved once.
SeenWasLive ==
  \A c \in Conversations :
    /\ conv[c].turn = "opening" => conv[c].on # None /\ conv[c].seen # None
    /\ conv[c].seen # None => version[conv[c].seen] \in {"approved", "rolled_back"}

IInv ==
  /\ TypeOK
  /\ LiveIsApproved
  /\ WaitingIsNewest
  /\ LockHolds
  /\ ChatsOnReviewed
  /\ SeenWasLive
=============================================================================
