------------------------------ MODULE PeerSync ------------------------------
(***************************************************************************)
(* AddPeer and RemovePeer of the V2Ray Server (v2ray/v2ray.go).            *)
(*                                                                         *)
(* A peer is recorded twice: among the users of the V2Ray core, a child    *)
(* process reached by gRPC, and in the table s.peers of the Server.  A     *)
(* call changes the core first and the table when the answer is back, with *)
(* no lock held in between; so calls on one peer may interleave, a caller  *)
(* may give up on an answer, and the core may exit and forget its users    *)
(* while the table remembers them.                                         *)
(*                                                                         *)
(* The table is the atomic set of PeerSet, which PeerTable implements; the *)
(* core is external and does what the code's use of it implies.            *)
(*                                                                         *)
(* A call goes through these stages:                                       *)
(*   "dial"   clientConn blocks until the core listens;                    *)
(*   "send"   connected, AlterInbound is next;                             *)
(*   "await"  the request is with the core;                                *)
(*   "table"  the core's answer was accepted, s.peers is next;             *)
(*   "ok", "err"  returned.                                                *)
(***************************************************************************)
EXTENDS PeerMap, Proxy, FiniteSets

CONSTANTS
  Caller,     \* the goroutines that call the Server
  UUID,       \* the identifiers of the peers
  Buffer,     \* the data AddPeer and RemovePeer are called with
  Inbound,    \* the tags of the inbounds in the core's configuration
  Fault,      \* "ctx": a context may be done; "exit": the core may exit
  None        \* no data, no request

ASSUME BufferType == Buffer \subseteq [len : Nat, proxy : Byte, uid : UUID]
ASSUME NoneIsNothing == None \notin Buffer

VARIABLES
  users,      \* the users of the core's inbounds
  up,         \* the core runs and listens
  stage,      \* where each call is
  op, buf,    \* the method a caller is in and its data
  answer,     \* what the connection of the call has for it
  stray,      \* a request its caller gave up on and the core still has to apply
  suspect,    \* history: e-mails whose two records may differ
  disturbed   \* history: calls that met another call on their peer, or an exit

server == <<peers, stage, op, buf>>
core == <<users, up, answer, stray>>
history == <<suspect, disturbed>>
syncVars == <<server, core, history>>

DataLen == 1 + 16

\* base64 is injective on data of one length.
Email(b) == <<b.proxy, b.uid>>

Emails == {Email(b) : b \in {d \in Buffer : d.len = DataLen}}

Busy(c) == stage[c] \in {"dial", "send", "await", "table"}

CallsOn(e) == {c \in Caller : Busy(c) /\ Email(buf[c]) = e}

StraysOn(e) == {c \in Caller : stray[c] # None /\ stray[c].email = e}

Request(c) ==
  [op |-> op[c], tag |-> Tag(buf[c].proxy), email |-> Email(buf[c])]

\* Mutant: an AddPeer the core refuses because it has the user is a success.
AcceptedIfExists(c) ==
  \/ answer[c] = "ok"
  \/ op[c] = "AddPeer" /\ answer[c] = "exists"
  \/ op[c] = "RemovePeer" /\ answer[c] = "notfound"

\* RemovePeer goes on when the error says "not found".
Accepted(c) ==
  \/ answer[c] = "ok"
  \/ op[c] = "RemovePeer" /\ answer[c] = "notfound"

Answered(c) == stage[c] = "await" /\ answer[c] # "none"

HasPeer(b) == b.len = DataLen /\ Email(b) \in peers

PeerCount == Cardinality(peers)

-----------------------------------------------------------------------------

SyncInit ==
  /\ peers = {}
  /\ users = {}
  /\ up = FALSE
  /\ stage = [c \in Caller |-> "idle"]
  /\ op = [c \in Caller |-> "none"]
  /\ buf = [c \in Caller |-> None]
  /\ answer = [c \in Caller |-> "none"]
  /\ stray = [c \in Caller |-> None]
  /\ suspect = {}
  /\ disturbed = {}

\* The call returns; what it held is gone.
Return(c, outcome) ==
  /\ stage' = [stage EXCEPT ![c] = outcome]
  /\ op' = [op EXCEPT ![c] = "none"]
  /\ buf' = [buf EXCEPT ![c] = None]

\* Data of another length is refused before anything else happens.
Reject(c) ==
  /\ ~Busy(c)
  /\ \E b \in Buffer : b.len # DataLen
  /\ Return(c, "err")
  /\ UNCHANGED <<peers, core, history>>

Call(c) ==
  /\ ~Busy(c)
  /\ \E name \in {"AddPeer", "RemovePeer"}, b \in Buffer :
       /\ b.len = DataLen
       /\ op' = [op EXCEPT ![c] = name]
       /\ buf' = [buf EXCEPT ![c] = b]
       /\ IF CallsOn(Email(b)) \cup StraysOn(Email(b)) = {}
          THEN UNCHANGED history
          ELSE /\ suspect' = suspect \cup {Email(b)}
               /\ disturbed' = disturbed \cup CallsOn(Email(b)) \cup {c}
  /\ stage' = [stage EXCEPT ![c] = "dial"]
  /\ UNCHANGED <<peers, core>>

\* grpc.Dial with WithBlock: no context and no timeout end the wait.
Dialed(c) ==
  /\ stage[c] = "dial"
  /\ up
  /\ stage' = [stage EXCEPT ![c] = "send"]
  /\ UNCHANGED <<peers, op, buf, core, history>>

Send(c) ==
  /\ stage[c] = "send"
  /\ up
  /\ stage' = [stage EXCEPT ![c] = "await"]
  /\ answer' = [answer EXCEPT ![c] = "none"]
  /\ UNCHANGED <<peers, op, buf, users, up, stray, history>>

\* The connection broke between the dial and the request.
SendFails(c) ==
  /\ stage[c] = "send"
  /\ answer[c] = "unavailable"
  /\ Return(c, "err")
  /\ answer' = [answer EXCEPT ![c] = "none"]
  /\ disturbed' = disturbed \ {c}
  /\ UNCHANGED <<peers, users, up, stray, suspect>>

-----------------------------------------------------------------------------

\* The core refuses an inbound it does not have, the second add of a user and
\* the removal of one it does not have.
Granted(r) ==
  /\ r.tag \in Inbound
  /\ r.email \in users <=> r.op = "RemovePeer"

\* The error of an unknown inbound reads "handler not found".
Verdict(r) ==
  IF Granted(r) THEN "ok"
  ELSE IF r.tag \in Inbound /\ r.op = "AddPeer" THEN "exists" ELSE "notfound"

Alter(r) ==
  users' = IF ~Granted(r) THEN users
           ELSE IF r.op = "AddPeer" THEN users \cup {r.email}
                                    ELSE users \ {r.email}

CoreApply(c) ==
  /\ up
  /\ stage[c] = "await"
  /\ answer[c] = "none"
  /\ Alter(Request(c))
  /\ answer' = [answer EXCEPT ![c] = Verdict(Request(c))]
  /\ UNCHANGED <<server, up, stray, history>>

\* The core does not look at the context of a request.
CoreApplyStray(c) ==
  /\ up
  /\ stray[c] # None
  /\ Alter(stray[c])
  /\ stray' = [stray EXCEPT ![c] = None]
  /\ UNCHANGED <<server, up, answer, history>>

\* The core exits: it is stopped or it crashes.  Its users are in memory.
\* An answer that was on its way may still arrive.
CoreExit ==
  /\ "exit" \in Fault
  /\ up
  /\ up' = FALSE
  /\ users' = {}
  /\ stray' = [c \in Caller |-> None]
  /\ \E lost \in SUBSET {c \in Caller : Answered(c)} :
       answer' = [c \in Caller |->
         IF \/ stage[c] = "send" \/ c \in lost
            \/ stage[c] = "await" /\ answer[c] = "none"
         THEN "unavailable"
         ELSE answer[c]]
  /\ LET caught == {c \in Caller : stage[c] \in {"await", "table"}} IN
       /\ suspect' = suspect \cup peers \cup {Email(buf[c]) : c \in caught}
       /\ disturbed' = disturbed \cup caught
  /\ UNCHANGED server

\* Start does not clear s.peers.
CoreBoot ==
  /\ ~up
  /\ up' = TRUE
  /\ UNCHANGED <<server, users, answer, stray, history>>

-----------------------------------------------------------------------------

\* Mutant: the error of AlterInbound is not looked at.
ReceiveUnchecked(c) ==
  /\ Answered(c)
  /\ stage' = [stage EXCEPT ![c] = "table"]
  /\ UNCHANGED <<peers, op, buf, core, history>>

Receive(c) ==
  /\ Answered(c)
  /\ Accepted(c)
  /\ stage' = [stage EXCEPT ![c] = "table"]
  /\ UNCHANGED <<peers, op, buf, core, history>>

\* Mutant: a call the core refused tries again.
RefusedRetries(c) ==
  /\ Answered(c)
  /\ ~Accepted(c)
  /\ stage' = [stage EXCEPT ![c] = "send"]
  /\ UNCHANGED <<peers, op, buf, core, history>>

Refused(c) ==
  /\ Answered(c)
  /\ ~Accepted(c)
  /\ Return(c, "err")
  /\ answer' = [answer EXCEPT ![c] = "none"]
  /\ disturbed' = disturbed \ {c}
  /\ UNCHANGED <<peers, users, up, stray, suspect>>

\* The context is done while AlterInbound runs.  A request on its way is
\* applied later or never; bound: a caller has one such request at a time.
GiveUp(c) ==
  /\ "ctx" \in Fault
  /\ stage[c] \in {"send", "await"}
  /\ Return(c, "err")
  /\ answer' = [answer EXCEPT ![c] = "none"]
  /\ \/ UNCHANGED stray
     \/ /\ stage[c] = "await" /\ answer[c] = "none" /\ stray[c] = None
        /\ stray' = [stray EXCEPT ![c] = Request(c)]
  /\ suspect' = IF stage[c] = "await" THEN suspect \cup {Email(buf[c])}
                                   ELSE suspect
  /\ disturbed' = disturbed \ {c}
  /\ UNCHANGED <<peers, users, up>>

\* An undisturbed success leaves the two records alike, whatever they were.
Succeed(c) ==
  /\ Return(c, "ok")
  /\ answer' = [answer EXCEPT ![c] = "none"]
  /\ suspect' = IF c \in disturbed THEN suspect
                                   ELSE suspect \ {Email(buf[c])}
  /\ disturbed' = disturbed \ {c}
  /\ UNCHANGED <<users, up, stray>>

TablePut(c) ==
  /\ stage[c] = "table"
  /\ op[c] = "AddPeer"
  /\ peers' = peers \cup {Email(buf[c])}
  /\ Succeed(c)

\* Mutant: RemovePeer leaves a peer that the core did not know in the table.
TableDeleteIfKnown(c) ==
  /\ stage[c] = "table"
  /\ op[c] = "RemovePeer"
  /\ peers' = IF answer[c] = "ok" THEN peers \ {Email(buf[c])} ELSE peers
  /\ Succeed(c)

TableDelete(c) ==
  /\ stage[c] = "table"
  /\ op[c] = "RemovePeer"
  /\ peers' = peers \ {Email(buf[c])}
  /\ Succeed(c)

-----------------------------------------------------------------------------

Progress(c) ==
  \/ Dialed(c) \/ Send(c) \/ SendFails(c)
  \/ CoreApply(c)
  \/ Receive(c) \/ Refused(c)
  \/ TablePut(c) \/ TableDelete(c)

SyncNext ==
  \/ \E c \in Caller :
       \/ Reject(c) \/ Call(c) \/ Progress(c)
       \/ GiveUp(c) \/ CoreApplyStray(c)
  \/ CoreExit \/ CoreBoot

SyncSpec == SyncInit /\ [][SyncNext]_syncVars

(***************************************************************************)
(* A goroutine runs on when it can and the core answers what it received.  *)
(* Nothing says that the core is started, stays up, or stops exiting.      *)
(***************************************************************************)
SyncFairness == \A c \in Caller : WF_syncVars(Progress(c))

SyncFairSpec == SyncSpec /\ SyncFairness

-----------------------------------------------------------------------------

Requests == {r \in [op : {"AddPeer", "RemovePeer"},
                    tag : {Tag(e[1]) : e \in Emails},
                    email : Emails] : r.tag = Tag(r.email[1])}

(***************************************************************************)
(* Types.  A call in progress has valid data, a caller outside a call has  *)
(* none, and an answer is there only while somebody can read it.           *)
(***************************************************************************)
SyncTypeOK ==
  /\ peers \subseteq Emails
  /\ users \subseteq Emails
  /\ up \in BOOLEAN
  /\ stage \in [Caller -> {"idle", "dial", "send", "await", "table", "ok", "err"}]
  /\ op \in [Caller -> {"none", "AddPeer", "RemovePeer"}]
  /\ buf \in [Caller -> Buffer \cup {None}]
  /\ answer \in [Caller -> {"none", "ok", "exists", "notfound", "unavailable"}]
  /\ stray \in [Caller -> Requests \cup {None}]
  /\ suspect \subseteq Emails
  /\ disturbed \subseteq {c \in Caller : Busy(c)}
  /\ \A c \in Caller :
       /\ Busy(c) => /\ op[c] # "none"
                     /\ buf[c] # None
                     /\ buf[c].len = DataLen
       /\ stage[c] \notin {"send", "await", "table"} => answer[c] = "none"
       /\ stage[c] = "table" => Accepted(c)

(***************************************************************************)
(* The promise of AddPeer and RemovePeer: the table and the core agree on  *)
(* a peer on which no call is in progress, unless its calls overlapped, a  *)
(* caller gave up on an answer, or the core exited since the last success  *)
(* that nothing disturbed.  Calls on other peers never matter.             *)
(***************************************************************************)
Agreement ==
  \A e \in Emails \ suspect :
    CallsOn(e) = {} => (e \in peers <=> e \in users)

(***************************************************************************)
(* What makes Agreement inductive.                                         *)
(***************************************************************************)

\* The core has users only in inbounds of its configuration.
UsersHaveInbounds ==
  /\ \A e \in users : Tag(e[1]) \in Inbound
  /\ ~up => users = {}

\* A peer two requests compete for is suspect, and their calls are disturbed.
RivalsAreDisturbed ==
  /\ \A c \in disturbed : Email(buf[c]) \in suspect
  /\ \A c \in Caller : stray[c] # None => stray[c].email \in suspect
  /\ \A c \in Caller :
       Busy(c) /\ c \notin disturbed =>
         /\ CallsOn(Email(buf[c])) = {c}
         /\ StraysOn(Email(buf[c])) = {}

\* What the core told an undisturbed call still holds.
AnswerHolds(c) ==
  LET e == Email(buf[c]) IN
    /\ answer[c] = "ok" => (e \in users <=> op[c] = "AddPeer")
    /\ answer[c] = "notfound" => e \notin users

AnswersHold ==
  \A c \in Caller :
    stage[c] \in {"await", "table"} /\ c \notin disturbed => AnswerHolds(c)

Accepting(c) == stage[c] \in {"await", "table"} /\ answer[c] = "ok"

\* A peer that is not suspect is out of step only while the one call on it
\* is between the core and the table.
OneStepApart ==
  \A e \in Emails \ suspect :
    (\A c \in CallsOn(e) : ~Accepting(c)) => (e \in peers <=> e \in users)

SyncInv ==
  /\ SyncTypeOK
  /\ UsersHaveInbounds
  /\ RivalsAreDisturbed
  /\ AnswersHold
  /\ OneStepApart

(***************************************************************************)
(* A success that nothing disturbed sets both records, whatever they said  *)
(* when the call began: a call that failed, or a restart of the core, is   *)
(* repaired by RemovePeer, and by AddPeer where the core has no such user. *)
(***************************************************************************)
UndisturbedSuccess ==
  [][\A c \in Caller :
       (stage[c] = "table" /\ stage'[c] = "ok" /\ c \notin disturbed) =>
         LET e == Email(buf[c]) IN
           IF op[c] = "AddPeer" THEN e \in users' /\ e \in peers'
                                ELSE e \notin users' /\ e \notin peers']_syncVars

\* A user the table does not know, with nothing under way that settles it.
Orphan(e) ==
  /\ e \in users \ peers
  /\ \A c \in CallsOn(e) : op[c] = "AddPeer" /\ ~Accepting(c)
  /\ \A c \in StraysOn(e) : stray[c].op = "AddPeer"

RemoveBegins(e) ==
  \E c \in Caller :
    ~Busy(c) /\ Busy(c)' /\ op'[c] = "RemovePeer" /\ Email(buf'[c]) = e

(***************************************************************************)
(* The retry trap of AddPeer: once its answer was lost, a user the core    *)
(* has and the table has not stays so, for every AddPeer on it is refused, *)
(* until somebody calls RemovePeer on it or the core exits.                *)
(***************************************************************************)
OrphanStays ==
  [][\A e \in Emails :
       Orphan(e) => Orphan(e)' \/ ~up' \/ RemoveBegins(e)]_syncVars

(***************************************************************************)
(* Every call returns once the core is up for good.                        *)
(***************************************************************************)
CallsReturn ==
  <>[]up => \A c \in Caller : Busy(c) ~> ~Busy(c)

Quiet == \A c \in Caller : ~Busy(c) /\ stray[c] = None

(***************************************************************************)
(* "HasPeer checks if a peer exists in the V2Ray server's peer list"       *)
(* (v2ray.go:220): with no call in progress it says what the core says.    *)
(***************************************************************************)
HasPeerTellsTheCore ==
  Quiet => \A b \in Buffer :
             b.len = DataLen => (HasPeer(b) <=> Email(b) \in users)

(***************************************************************************)
(* "PeerCount returns the number of peers connected to the V2Ray server"   *)
(* (v2ray.go:250): with no call in progress and the server up.             *)
(***************************************************************************)
PeerCountTellsTheCore ==
  (Quiet /\ up) => PeerCount <= Cardinality(users)
=============================================================================
