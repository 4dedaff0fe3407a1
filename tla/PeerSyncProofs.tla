--------------------------- MODULE PeerSyncProofs ---------------------------
(***************************************************************************)
(* Theorems about PeerSync for every set of callers, of data, of inbounds  *)
(* and of faults, and without the bound TLC puts on their sizes.           *)
(***************************************************************************)
EXTENDS PeerSync, TLAPS

\* The e-mail of valid data is an e-mail, and starts with the proxy.
LEMMA EmailIsEmail ==
  ASSUME NEW b \in Buffer, b.len = DataLen
  PROVE  /\ Email(b) \in Emails
         /\ Email(b)[1] = b.proxy
BY DEF Emails, Email

\* What a caller asks of the core is a request.
LEMMA RequestType ==
  ASSUME SyncTypeOK, NEW c \in Caller, Busy(c)
  PROVE  /\ Request(c) \in Requests
         /\ Request(c).op = op[c]
         /\ Request(c).email = Email(buf[c])
         /\ Request(c).tag = Tag(Email(buf[c])[1])
<1>1. /\ buf[c] \in Buffer
      /\ buf[c].len = DataLen
      /\ op[c] \in {"AddPeer", "RemovePeer"}
  BY DEF SyncTypeOK
<1>2. Email(buf[c]) \in Emails /\ Email(buf[c])[1] = buf[c].proxy
  BY <1>1, EmailIsEmail
<1>3. Tag(buf[c].proxy) \in {Tag(e[1]) : e \in Emails}
  BY <1>2
<1> QED
  BY <1>1, <1>2, <1>3 DEF Request, Requests

\* What is not None is a request.
LEMMA NoneIsNoRequest ==
  ASSUME SyncTypeOK, NEW c \in Caller, stray[c] # None
  PROVE  stray[c] \in Requests
BY DEF SyncTypeOK

\* The core answers every request and keeps a set of e-mails.
LEMMA AlterType ==
  ASSUME NEW r \in Requests, users \subseteq Emails, Alter(r)
  PROVE  /\ users' \subseteq Emails
         /\ Verdict(r) \in {"ok", "exists", "notfound"}
<1>1. r.email \in Emails
  BY DEF Requests
<1> QED
  BY <1>1 DEF Alter, Verdict, Granted

\* It changes nothing but the user a granted request names, and answers the
\* truth about that user.
LEMMA AlterEffect ==
  ASSUME UsersHaveInbounds, NEW r \in Requests, Alter(r)
  PROVE  /\ \A e : e # r.email => (e \in users' <=> e \in users)
         /\ \A e \in users' : Tag(e[1]) \in Inbound
         /\ Verdict(r) = "ok" => (r.email \in users' <=> r.op = "AddPeer")
         /\ Verdict(r) # "ok" => users' = users
         /\ Verdict(r) = "notfound" => r.email \notin users
<1>1. /\ r.tag = Tag(r.email[1])
      /\ r.op \in {"AddPeer", "RemovePeer"}
  BY DEF Requests
<1> QED
  BY <1>1 DEF Alter, Verdict, Granted, UsersHaveInbounds

\* The initial states have the types.
LEMMA InitSyncTypeOK == SyncInit => SyncTypeOK
BY DEF SyncInit, SyncTypeOK, Busy

USE DEF server, core, history

\* Every step keeps the types.
LEMMA NextSyncTypeOK == SyncTypeOK /\ [SyncNext]_syncVars => SyncTypeOK'
<1> SUFFICES ASSUME SyncTypeOK, [SyncNext]_syncVars PROVE SyncTypeOK'
  OBVIOUS
<1>1. ASSUME NEW c \in Caller, Reject(c) PROVE SyncTypeOK'
  BY <1>1 DEF Reject, Return, SyncTypeOK, Busy, Accepted
<1>2. ASSUME NEW c \in Caller, Call(c) PROVE SyncTypeOK'
  BY <1>2, EmailIsEmail, NoneIsNothing
     DEF Call, SyncTypeOK, Busy, Accepted, CallsOn
<1>3. ASSUME NEW c \in Caller, Dialed(c) PROVE SyncTypeOK'
  BY <1>3 DEF Dialed, SyncTypeOK, Busy, Accepted
<1>4. ASSUME NEW c \in Caller, Send(c) PROVE SyncTypeOK'
  BY <1>4 DEF Send, SyncTypeOK, Busy, Accepted
<1>5. ASSUME NEW c \in Caller, SendFails(c) PROVE SyncTypeOK'
  BY <1>5 DEF SendFails, Return, SyncTypeOK, Busy, Accepted
<1>6. ASSUME NEW c \in Caller, CoreApply(c) PROVE SyncTypeOK'
  <2>1. Busy(c)
    BY <1>6 DEF CoreApply, Busy
  <2>2. Request(c) \in Requests
    BY <2>1, RequestType
  <2>3. /\ users' \subseteq Emails
        /\ Verdict(Request(c)) \in {"ok", "exists", "notfound"}
    BY <1>6, <2>2, AlterType DEF CoreApply, SyncTypeOK
  <2> QED
    BY <1>6, <2>3 DEF CoreApply, SyncTypeOK, Busy, Accepted
<1>7. ASSUME NEW c \in Caller, CoreApplyStray(c) PROVE SyncTypeOK'
  <2>1. users' \subseteq Emails
    BY <1>7, AlterType, NoneIsNoRequest DEF CoreApplyStray, SyncTypeOK
  <2> QED
    BY <1>7, <2>1 DEF CoreApplyStray, SyncTypeOK, Busy, Accepted
<1>8. ASSUME NEW c \in Caller, Receive(c) PROVE SyncTypeOK'
  BY <1>8 DEF Receive, Answered, SyncTypeOK, Busy, Accepted
<1>9. ASSUME NEW c \in Caller, Refused(c) PROVE SyncTypeOK'
  BY <1>9 DEF Refused, Answered, Return, SyncTypeOK, Busy, Accepted
<1>10. ASSUME NEW c \in Caller, GiveUp(c) PROVE SyncTypeOK'
  <2>1. Busy(c) /\ Request(c) \in Requests /\ Email(buf[c]) \in Emails
    BY <1>10, RequestType, EmailIsEmail DEF GiveUp, Busy, SyncTypeOK
  <2> QED
    BY <1>10, <2>1 DEF GiveUp, Return, SyncTypeOK, Busy, Accepted
<1>11. ASSUME NEW c \in Caller, TablePut(c) PROVE SyncTypeOK'
  <2>1. Email(buf[c]) \in Emails
    BY <1>11, EmailIsEmail DEF TablePut, Busy, SyncTypeOK
  <2> QED
    BY <1>11, <2>1 DEF TablePut, Succeed, Return, SyncTypeOK, Busy, Accepted
<1>12. ASSUME NEW c \in Caller, TableDelete(c) PROVE SyncTypeOK'
  BY <1>12 DEF TableDelete, Succeed, Return, SyncTypeOK, Busy, Accepted
<1>13. ASSUME CoreExit PROVE SyncTypeOK'
  <2>1. \A c \in Caller : Busy(c) => Email(buf[c]) \in Emails
    BY EmailIsEmail DEF SyncTypeOK
  <2>2. PICK lost \in SUBSET {c \in Caller : Answered(c)} :
          answer' = [c \in Caller |->
            IF \/ stage[c] = "send" \/ c \in lost
               \/ stage[c] = "await" /\ answer[c] = "none"
            THEN "unavailable"
            ELSE answer[c]]
    BY <1>13 DEF CoreExit
  <2>3. \A c \in Caller :
          answer'[c] = answer[c] \/ stage[c] \in {"send", "await"}
    BY <2>2 DEF Answered
  <2>4. answer' \in [Caller -> {"none", "ok", "exists", "notfound", "unavailable"}]
    BY <2>2 DEF SyncTypeOK
  <2>5. suspect' \subseteq Emails
    BY <1>13, <2>1 DEF CoreExit, SyncTypeOK, Busy
  <2>6. disturbed' \subseteq {c \in Caller : Busy(c)'}
    BY <1>13 DEF CoreExit, SyncTypeOK, Busy
  <2>7. \A c \in Caller : (stage[c] = "table" => Accepted(c))'
    BY <1>13, <2>3 DEF CoreExit, SyncTypeOK, Accepted
  <2> QED
    BY <1>13, <2>3, <2>4, <2>5, <2>6, <2>7 DEF CoreExit, SyncTypeOK, Busy
<1>14. ASSUME CoreBoot PROVE SyncTypeOK'
  BY <1>14 DEF CoreBoot, SyncTypeOK, Busy, Accepted
<1>15. ASSUME UNCHANGED syncVars PROVE SyncTypeOK'
  BY <1>15 DEF syncVars, SyncTypeOK, Busy, Accepted
<1> QED
  BY <1>1, <1>2, <1>3, <1>4, <1>5, <1>6, <1>7, <1>8, <1>9, <1>10, <1>11,
     <1>12, <1>13, <1>14, <1>15 DEF SyncNext, Progress

-----------------------------------------------------------------------------

\* The initial states satisfy SyncInv.
LEMMA InitSyncInv == SyncInit => SyncInv
BY InitSyncTypeOK
   DEF SyncInit, SyncInv, SyncTypeOK, UsersHaveInbounds, RivalsAreDisturbed,
       AnswersHold,
       OneStepApart, Busy

\* Every step keeps SyncInv: one step per action, and for each action one per
\* conjunct.
LEMMA NextSyncInv == SyncInv /\ [SyncNext]_syncVars => SyncInv'
<1> SUFFICES ASSUME SyncInv, [SyncNext]_syncVars PROVE SyncInv'
  OBVIOUS
<1> SyncTypeOK /\ SyncTypeOK'
  BY NextSyncTypeOK DEF SyncInv
<1> DEFINE Others == /\ UsersHaveInbounds'
                     /\ RivalsAreDisturbed'
                     /\ AnswersHold'
                     /\ OneStepApart'
<1>1. ASSUME NEW c \in Caller, Reject(c) PROVE Others
  <2>1. UsersHaveInbounds'
    BY <1>1 DEF Reject, Return, SyncInv, UsersHaveInbounds
  <2>2. RivalsAreDisturbed'
    BY <1>1
       DEF Reject, Return, SyncInv, SyncTypeOK, RivalsAreDisturbed, CallsOn,
           StraysOn, Busy
  <2>3. AnswersHold'
    BY <1>1
       DEF Reject, Return, SyncInv, SyncTypeOK, AnswersHold, AnswerHolds, Busy
  <2>4. OneStepApart'
    BY <1>1
       DEF Reject, Return, SyncInv, SyncTypeOK, OneStepApart, Accepting,
           CallsOn,
           Busy
  <2> QED
    BY <2>1, <2>2, <2>3, <2>4
<1>2. ASSUME NEW c \in Caller, Call(c) PROVE Others
  <2>1. UsersHaveInbounds'
    BY <1>2 DEF Call, SyncInv, UsersHaveInbounds
  <2>2. RivalsAreDisturbed'
    BY <1>2
       DEF Call, SyncInv, SyncTypeOK, RivalsAreDisturbed, CallsOn, StraysOn,
           Busy
  <2>3. AnswersHold'
    BY <1>2 DEF Call, SyncInv, SyncTypeOK, AnswersHold, AnswerHolds, Busy
  <2>4. OneStepApart'
    BY <1>2
       DEF Call, SyncInv, SyncTypeOK, OneStepApart, Accepting, CallsOn, Busy
  <2> QED
    BY <2>1, <2>2, <2>3, <2>4
<1>3. ASSUME NEW c \in Caller, Dialed(c) PROVE Others
  <2>1. UsersHaveInbounds'
    BY <1>3 DEF Dialed, SyncInv, UsersHaveInbounds
  <2>2. RivalsAreDisturbed'
    BY <1>3
       DEF Dialed, SyncInv, SyncTypeOK, RivalsAreDisturbed, CallsOn, StraysOn,
           Busy
  <2>3. AnswersHold'
    BY <1>3 DEF Dialed, SyncInv, SyncTypeOK, AnswersHold, AnswerHolds, Busy
  <2>4. OneStepApart'
    BY <1>3
       DEF Dialed, SyncInv, SyncTypeOK, OneStepApart, Accepting, CallsOn, Busy
  <2> QED
    BY <2>1, <2>2, <2>3, <2>4
<1>4. ASSUME NEW c \in Caller, Send(c) PROVE Others
  <2>1. UsersHaveInbounds'
    BY <1>4 DEF Send, SyncInv, UsersHaveInbounds
  <2>2. RivalsAreDisturbed'
    BY <1>4
       DEF Send, SyncInv, SyncTypeOK, RivalsAreDisturbed, CallsOn, StraysOn,
           Busy
  <2>3. AnswersHold'
    BY <1>4 DEF Send, SyncInv, SyncTypeOK, AnswersHold, AnswerHolds, Busy
  <2>4. OneStepApart'
    BY <1>4
       DEF Send, SyncInv, SyncTypeOK, OneStepApart, Accepting, CallsOn, Busy
  <2> QED
    BY <2>1, <2>2, <2>3, <2>4
<1>5. ASSUME NEW c \in Caller, SendFails(c) PROVE Others
  <2>1. UsersHaveInbounds'
    BY <1>5 DEF SendFails, Return, SyncInv, UsersHaveInbounds
  <2>2. RivalsAreDisturbed'
    BY <1>5
       DEF SendFails, Return, SyncInv, SyncTypeOK, RivalsAreDisturbed, CallsOn,
           StraysOn, Busy
  <2>3. AnswersHold'
    BY <1>5
       DEF SendFails, Return, SyncInv, SyncTypeOK, AnswersHold, AnswerHolds,
           Busy
  <2>4. OneStepApart'
    BY <1>5
       DEF SendFails, Return, SyncInv, SyncTypeOK, OneStepApart, Accepting,
           CallsOn, Busy
  <2> QED
    BY <2>1, <2>2, <2>3, <2>4
<1>6. ASSUME NEW c \in Caller, CoreApply(c) PROVE Others
  <2>a. LET r == Request(c) IN
          /\ r.email = Email(buf[c]) /\ r.op = op[c]
          /\ \A e : e # r.email => (e \in users' <=> e \in users)
          /\ \A e \in users' : Tag(e[1]) \in Inbound
          /\ Verdict(r) = "ok" => (r.email \in users' <=> r.op = "AddPeer")
          /\ Verdict(r) # "ok" => users' = users
          /\ Verdict(r) = "notfound" => r.email \notin users
    BY <1>6, RequestType, AlterEffect DEF CoreApply, SyncInv, Busy
  <2>b. \A d \in Caller : d # c /\ Busy(d) /\ d \notin disturbed =>
          Email(buf[d]) # Email(buf[c])
    BY <1>6 DEF CoreApply, SyncInv, RivalsAreDisturbed, CallsOn, Busy
  <2>1. UsersHaveInbounds'
    BY <1>6, <2>a DEF CoreApply, SyncInv, UsersHaveInbounds
  <2>2. RivalsAreDisturbed'
    BY <1>6
       DEF CoreApply, SyncInv, SyncTypeOK, RivalsAreDisturbed, CallsOn,
           StraysOn,
           Busy
  <2>3. AnswersHold'
    BY <1>6, <2>a, <2>b
       DEF CoreApply, SyncInv, SyncTypeOK, AnswersHold, AnswerHolds, Busy
  <2>4. OneStepApart'
    <3> SUFFICES ASSUME NEW e \in Emails \ suspect,
                        \A d \in CallsOn(e)' : ~Accepting(d)'
                 PROVE  (e \in peers <=> e \in users)'
      BY <1>6 DEF CoreApply, OneStepApart
    <3>1. CallsOn(e)' = CallsOn(e)
      BY <1>6 DEF CoreApply, CallsOn, Busy
    <3>2. \A d \in CallsOn(e) : ~Accepting(d)
      BY <1>6, <3>1 DEF CoreApply, Accepting, CallsOn, SyncTypeOK
    <3>3. e # Email(buf[c]) \/ Verdict(Request(c)) # "ok"
      BY <1>6, <3>1, <2>a DEF CoreApply, Accepting, CallsOn, Busy, SyncTypeOK
    <3> QED
      BY <1>6, <3>2, <3>3, <2>a DEF CoreApply, SyncInv, OneStepApart
  <2> QED
    BY <2>1, <2>2, <2>3, <2>4
<1>7. ASSUME NEW c \in Caller, CoreApplyStray(c) PROVE Others
  <2>a. /\ stray[c].email \in suspect
        /\ \A e : e # stray[c].email => (e \in users' <=> e \in users)
        /\ \A e \in users' : Tag(e[1]) \in Inbound
    BY <1>7, NoneIsNoRequest, AlterEffect
       DEF CoreApplyStray, SyncInv, RivalsAreDisturbed
  <2>b. \A d \in Caller : Busy(d) /\ d \notin disturbed =>
          Email(buf[d]) # stray[c].email
    BY <1>7 DEF CoreApplyStray, SyncInv, RivalsAreDisturbed, StraysOn
  <2>1. UsersHaveInbounds'
    BY <1>7, <2>a DEF CoreApplyStray, SyncInv, UsersHaveInbounds
  <2>2. RivalsAreDisturbed'
    BY <1>7
       DEF CoreApplyStray, SyncInv, SyncTypeOK, RivalsAreDisturbed, CallsOn,
           StraysOn, Busy
  <2>3. AnswersHold'
    BY <1>7, <2>a, <2>b
       DEF CoreApplyStray, SyncInv, SyncTypeOK, AnswersHold, AnswerHolds, Busy
  <2>4. OneStepApart'
    BY <1>7, <2>a
       DEF CoreApplyStray, SyncInv, SyncTypeOK, OneStepApart, Accepting,
           CallsOn,
           Busy
  <2> QED
    BY <2>1, <2>2, <2>3, <2>4
<1>8. ASSUME NEW c \in Caller, Receive(c) PROVE Others
  <2>1. UsersHaveInbounds'
    BY <1>8 DEF Receive, Answered, SyncInv, UsersHaveInbounds
  <2>2. RivalsAreDisturbed'
    BY <1>8
       DEF Receive, Answered, SyncInv, SyncTypeOK, RivalsAreDisturbed, CallsOn,
           StraysOn, Busy
  <2>3. AnswersHold'
    BY <1>8
       DEF Receive, Answered, SyncInv, SyncTypeOK, AnswersHold, AnswerHolds,
           Busy
  <2>4. OneStepApart'
    BY <1>8
       DEF Receive, Answered, SyncInv, SyncTypeOK, OneStepApart, Accepting,
           CallsOn, Busy
  <2> QED
    BY <2>1, <2>2, <2>3, <2>4
<1>9. ASSUME NEW c \in Caller, Refused(c) PROVE Others
  <2>1. UsersHaveInbounds'
    BY <1>9 DEF Refused, Answered, Return, SyncInv, UsersHaveInbounds
  <2>2. RivalsAreDisturbed'
    BY <1>9
       DEF Refused, Answered, Return, SyncInv, SyncTypeOK, RivalsAreDisturbed,
           CallsOn, StraysOn, Busy
  <2>3. AnswersHold'
    BY <1>9
       DEF Refused, Answered, Return, SyncInv, SyncTypeOK, AnswersHold,
           AnswerHolds, Busy
  <2>4. OneStepApart'
    BY <1>9
       DEF Refused, Answered, Accepted, Return, SyncInv, SyncTypeOK,
           OneStepApart, Accepting, CallsOn, Busy
  <2> QED
    BY <2>1, <2>2, <2>3, <2>4
<1>10. ASSUME NEW c \in Caller, GiveUp(c) PROVE Others
  <2>1. UsersHaveInbounds'
    BY <1>10 DEF GiveUp, Return, SyncInv, UsersHaveInbounds
  <2>2. RivalsAreDisturbed'
    <3>1. \A d \in disturbed' : Email(buf'[d]) \in suspect'
      BY <1>10
         DEF GiveUp, Return, SyncInv, SyncTypeOK, RivalsAreDisturbed, Busy
    <3>2. stray'[c] # None => stray'[c].email \in suspect'
      BY <1>10, RequestType
         DEF GiveUp, SyncInv, SyncTypeOK, RivalsAreDisturbed, Busy
    <3>3. \A d \in Caller : stray'[d] # None => stray'[d].email \in suspect'
      BY <1>10, <3>2 DEF GiveUp, SyncInv, SyncTypeOK, RivalsAreDisturbed
    <3>4. ASSUME NEW d \in Caller, Busy(d)', d \notin disturbed'
          PROVE  (CallsOn(Email(buf[d])) = {d} /\ StraysOn(Email(buf[d])) = {})'
      <4> DEFINE e == Email(buf[d])
      <4>1. d # c /\ Busy(d) /\ d \notin disturbed /\ e' = e
        BY <1>10, <3>4 DEF GiveUp, Return, Busy, SyncTypeOK
      <4>2. CallsOn(e) = {d} /\ StraysOn(e) = {}
        BY <4>1 DEF SyncInv, RivalsAreDisturbed
      <4>3. Email(buf[c]) # e
        BY <1>10, <4>1, <4>2 DEF GiveUp, CallsOn, Busy
      <4> HIDE DEF e
      <4>4. \A x \in Caller : Busy(x)' /\ Email(buf[x])' = e => x = d
        BY <1>10, <4>2 DEF GiveUp, Return, CallsOn, Busy, SyncTypeOK
      <4>5. \A x \in Caller : stray'[x] # None => stray'[x].email # e
        BY <1>10, <4>2, <4>3, RequestType
           DEF GiveUp, StraysOn, Busy, SyncTypeOK
      <4> QED
        BY <3>4, <4>1, <4>4, <4>5 DEF e, CallsOn, StraysOn
    <3> QED
      BY <3>1, <3>3, <3>4 DEF RivalsAreDisturbed
  <2>3. AnswersHold'
    BY <1>10
       DEF GiveUp, Return, SyncInv, SyncTypeOK, AnswersHold, AnswerHolds, Busy
  <2>4. OneStepApart'
    BY <1>10
       DEF GiveUp, Return, SyncInv, SyncTypeOK, OneStepApart, Accepting,
           CallsOn,
           Busy
  <2> QED
    BY <2>1, <2>2, <2>3, <2>4
<1>11. ASSUME NEW c \in Caller, TablePut(c) PROVE Others
  <2>a. /\ c \in disturbed => Email(buf[c]) \in suspect
        /\ c \notin disturbed => (Email(buf[c]) \in users <=> op[c] = "AddPeer")
    BY <1>11
       DEF TablePut, SyncInv, SyncTypeOK, RivalsAreDisturbed, AnswersHold,
           AnswerHolds, Accepted
  <2>1. UsersHaveInbounds'
    BY <1>11 DEF TablePut, Succeed, Return, SyncInv, UsersHaveInbounds
  <2>2. RivalsAreDisturbed'
    BY <1>11
       DEF TablePut, Succeed, Return, SyncInv, SyncTypeOK, RivalsAreDisturbed,
           CallsOn, StraysOn, Busy
  <2>3. AnswersHold'
    BY <1>11
       DEF TablePut, Succeed, Return, SyncInv, SyncTypeOK, AnswersHold,
           AnswerHolds, Busy
  <2>4. OneStepApart'
    <3> SUFFICES ASSUME NEW e \in Emails \ suspect',
                        \A d \in CallsOn(e)' : ~Accepting(d)'
                 PROVE  (e \in peers <=> e \in users)'
      BY DEF OneStepApart
    <3>1. CASE e = Email(buf[c])
      BY <1>11, <2>a, <3>1 DEF TablePut, Succeed
    <3>2. CASE e # Email(buf[c])
      <4>1. CallsOn(e)' = CallsOn(e) /\ e \in Emails \ suspect
        BY <1>11, <3>2 DEF TablePut, Succeed, Return, CallsOn, Busy, SyncTypeOK
      <4>2. \A d \in CallsOn(e) : ~Accepting(d)
        BY <1>11, <3>2, <4>1
           DEF TablePut, Succeed, Return, CallsOn, Accepting, SyncTypeOK
      <4> QED
        BY <1>11, <3>2, <4>1, <4>2 DEF TablePut, Succeed, SyncInv, OneStepApart
    <3> QED
      BY <3>1, <3>2
  <2> QED
    BY <2>1, <2>2, <2>3, <2>4
<1>12. ASSUME NEW c \in Caller, TableDelete(c) PROVE Others
  <2>a. /\ c \in disturbed => Email(buf[c]) \in suspect
        /\ c \notin disturbed => (Email(buf[c]) \in users <=> op[c] = "AddPeer")
    BY <1>12
       DEF TableDelete, SyncInv, SyncTypeOK, RivalsAreDisturbed, AnswersHold,
           AnswerHolds, Accepted
  <2>1. UsersHaveInbounds'
    BY <1>12 DEF TableDelete, Succeed, Return, SyncInv, UsersHaveInbounds
  <2>2. RivalsAreDisturbed'
    BY <1>12
       DEF TableDelete, Succeed, Return, SyncInv, SyncTypeOK,
           RivalsAreDisturbed,
           CallsOn, StraysOn, Busy
  <2>3. AnswersHold'
    BY <1>12
       DEF TableDelete, Succeed, Return, SyncInv, SyncTypeOK, AnswersHold,
           AnswerHolds, Busy
  <2>4. OneStepApart'
    <3> SUFFICES ASSUME NEW e \in Emails \ suspect',
                        \A d \in CallsOn(e)' : ~Accepting(d)'
                 PROVE  (e \in peers <=> e \in users)'
      BY DEF OneStepApart
    <3>1. CASE e = Email(buf[c])
      BY <1>12, <2>a, <3>1 DEF TableDelete, Succeed
    <3>2. CASE e # Email(buf[c])
      <4>1. CallsOn(e)' = CallsOn(e) /\ e \in Emails \ suspect
        BY <1>12, <3>2
           DEF TableDelete, Succeed, Return, CallsOn, Busy, SyncTypeOK
      <4>2. \A d \in CallsOn(e) : ~Accepting(d)
        BY <1>12, <3>2, <4>1
           DEF TableDelete, Succeed, Return, CallsOn, Accepting, SyncTypeOK
      <4> QED
        BY <1>12, <3>2, <4>1, <4>2
           DEF TableDelete, Succeed, SyncInv, OneStepApart
    <3> QED
      BY <3>1, <3>2
  <2> QED
    BY <2>1, <2>2, <2>3, <2>4
<1>13. ASSUME CoreExit PROVE Others
  <2>1. UsersHaveInbounds'
    BY <1>13 DEF CoreExit, SyncInv, UsersHaveInbounds
  <2>2. RivalsAreDisturbed'
    BY <1>13
       DEF CoreExit, SyncInv, SyncTypeOK, RivalsAreDisturbed, CallsOn,
           StraysOn,
           Busy
  <2>3. AnswersHold'
    BY <1>13 DEF CoreExit, SyncInv, SyncTypeOK, AnswersHold, AnswerHolds, Busy
  <2>4. OneStepApart'
    BY <1>13
       DEF CoreExit, SyncInv, SyncTypeOK, OneStepApart, Accepting, CallsOn,
           Busy
  <2> QED
    BY <2>1, <2>2, <2>3, <2>4
<1>14. ASSUME CoreBoot PROVE Others
  <2>1. UsersHaveInbounds'
    BY <1>14 DEF CoreBoot, SyncInv, UsersHaveInbounds
  <2>2. RivalsAreDisturbed'
    BY <1>14
       DEF CoreBoot, SyncInv, SyncTypeOK, RivalsAreDisturbed, CallsOn,
           StraysOn,
           Busy
  <2>3. AnswersHold'
    BY <1>14 DEF CoreBoot, SyncInv, SyncTypeOK, AnswersHold, AnswerHolds, Busy
  <2>4. OneStepApart'
    BY <1>14
       DEF CoreBoot, SyncInv, SyncTypeOK, OneStepApart, Accepting, CallsOn,
           Busy
  <2> QED
    BY <2>1, <2>2, <2>3, <2>4
<1>15. ASSUME UNCHANGED syncVars PROVE Others
  <2>1. UsersHaveInbounds'
    BY <1>15 DEF syncVars, SyncInv, UsersHaveInbounds
  <2>2. RivalsAreDisturbed'
    BY <1>15
       DEF syncVars, SyncInv, SyncTypeOK, RivalsAreDisturbed, CallsOn,
           StraysOn, Busy
  <2>3. AnswersHold'
    BY <1>15 DEF syncVars, SyncInv, SyncTypeOK, AnswersHold, AnswerHolds, Busy
  <2>4. OneStepApart'
    BY <1>15
       DEF syncVars, SyncInv, SyncTypeOK, OneStepApart, Accepting, CallsOn,
           Busy
  <2> QED
    BY <2>1, <2>2, <2>3, <2>4
<1> QED
  BY <1>1, <1>2, <1>3, <1>4, <1>5, <1>6, <1>7, <1>8, <1>9, <1>10, <1>11,
     <1>12, <1>13, <1>14, <1>15
     DEF SyncInv, SyncNext, Progress

(***************************************************************************)
(* Every reachable state is well typed and satisfies the inductive         *)
(* invariant SyncInv.                                                      *)
(***************************************************************************)
THEOREM SyncInvariant == SyncSpec => []SyncInv
<1>1. SyncInit => SyncInv
  BY InitSyncInv
<1>2. SyncInv /\ [SyncNext]_syncVars => SyncInv'
  BY NextSyncInv
<1> QED
  BY <1>1, <1>2, PTL DEF SyncSpec

(***************************************************************************)
(* The variables keep their types.                                         *)
(***************************************************************************)
THEOREM SyncTypeCorrect == SyncSpec => []SyncTypeOK
<1>1. SyncInv => SyncTypeOK
  BY DEF SyncInv
<1> QED
  BY <1>1, SyncInvariant, PTL

(***************************************************************************)
(* The table and the core agree on every peer that is not suspect and has  *)
(* no call in progress (AddPeer and RemovePeer of v2ray.go).               *)
(***************************************************************************)
THEOREM AgreementHolds == SyncSpec => []Agreement
<1>1. SyncInv => Agreement
  BY DEF SyncInv, OneStepApart, Agreement
<1> QED
  BY <1>1, SyncInvariant, PTL

(***************************************************************************)
(* A success that nothing disturbed sets the record of the core and the    *)
(* record of the table, whatever state they were in.                       *)
(***************************************************************************)
THEOREM UndisturbedSuccessHolds == SyncSpec => UndisturbedSuccess
<1> DEFINE Done(c) == stage[c] = "table" /\ stage'[c] = "ok" /\ c \notin disturbed
<1>1. ASSUME SyncInv, [SyncNext]_syncVars, NEW c \in Caller, Done(c)
      PROVE  LET e == Email(buf[c]) IN
               IF op[c] = "AddPeer" THEN e \in users' /\ e \in peers'
                                    ELSE e \notin users' /\ e \notin peers'
  <2>1. TablePut(c) \/ TableDelete(c)
    BY <1>1
       DEF SyncNext, Progress, syncVars, Reject, Call, Dialed, Send, SendFails,
       CoreApply, CoreApplyStray, Receive, Refused, Answered, GiveUp, Return,
       TablePut, TableDelete, Succeed, CoreExit, CoreBoot, SyncInv,
       SyncTypeOK, Busy
  <2>2. Email(buf[c]) \in users <=> op[c] = "AddPeer"
    BY <1>1 DEF SyncInv, AnswersHold, AnswerHolds, SyncTypeOK, Accepted
  <2> QED
    BY <2>1, <2>2 DEF TablePut, TableDelete, Succeed
<1>2. SyncInv /\ [SyncNext]_syncVars =>
        [\A c \in Caller : Done(c) =>
           LET e == Email(buf[c]) IN
             IF op[c] = "AddPeer" THEN e \in users' /\ e \in peers'
                                  ELSE e \notin users' /\ e \notin peers']_syncVars
  BY <1>1
<1> QED
  BY <1>2, SyncInvariant, PTL DEF SyncSpec, UndisturbedSuccess

(***************************************************************************)
(* A user the table does not know stays unknown to it: no AddPeer repairs  *)
(* it, only a RemovePeer or an exit of the core (the retry of an AddPeer   *)
(* whose answer was lost is refused for good).                             *)
(***************************************************************************)
THEOREM OrphanStaysHolds == SyncSpec => OrphanStays
<1> DEFINE Stays(e) == Orphan(e)' \/ ~up' \/ RemoveBegins(e)
<1>a. ASSUME SyncInv, [SyncNext]_syncVars, NEW e \in Emails, Orphan(e)
      PROVE  Stays(e)
  <2>1. ASSUME NEW c \in Caller, Reject(c) PROVE Stays(e)
    BY <1>a, <2>1
       DEF Reject, Return, Orphan, SyncInv, SyncTypeOK, CallsOn, StraysOn,
           Accepting, Busy
  <2>2. ASSUME NEW c \in Caller, Call(c) PROVE Stays(e)
    BY <1>a, <2>2
       DEF Call, RemoveBegins, Orphan, SyncInv, SyncTypeOK, CallsOn, StraysOn,
           Accepting, Busy
  <2>3. ASSUME NEW c \in Caller, Dialed(c) PROVE Stays(e)
    BY <1>a, <2>3
       DEF Dialed, Orphan, SyncInv, SyncTypeOK, CallsOn, StraysOn, Accepting,
           Busy
  <2>4. ASSUME NEW c \in Caller, Send(c) PROVE Stays(e)
    BY <1>a, <2>4
       DEF Send, Orphan, SyncInv, SyncTypeOK, CallsOn, StraysOn, Accepting,
           Busy
  <2>5. ASSUME NEW c \in Caller, SendFails(c) PROVE Stays(e)
    BY <1>a, <2>5
       DEF SendFails, Return, Orphan, SyncInv, SyncTypeOK, CallsOn, StraysOn,
           Accepting, Busy
  <2>6. ASSUME NEW c \in Caller, CoreApply(c) PROVE Stays(e)
    BY <1>a, <2>6, NoneIsNoRequest, RequestType
       DEF CoreApply, Alter, Granted, Verdict, Orphan, SyncInv, SyncTypeOK,
           CallsOn, StraysOn, Accepting, Busy
  <2>7. ASSUME NEW c \in Caller, CoreApplyStray(c) PROVE Stays(e)
    BY <1>a, <2>7, NoneIsNoRequest, RequestType
       DEF CoreApplyStray, Alter, Granted, Verdict, Orphan, SyncInv,
           SyncTypeOK,
           CallsOn, StraysOn, Accepting, Busy
  <2>8. ASSUME NEW c \in Caller, Receive(c) PROVE Stays(e)
    BY <1>a, <2>8
       DEF Receive, Answered, Orphan, SyncInv, SyncTypeOK, CallsOn, StraysOn,
           Accepting, Busy
  <2>9. ASSUME NEW c \in Caller, Refused(c) PROVE Stays(e)
    BY <1>a, <2>9
       DEF Refused, Answered, Return, Orphan, SyncInv, SyncTypeOK, CallsOn,
           StraysOn, Accepting, Busy
  <2>10. ASSUME NEW c \in Caller, GiveUp(c) PROVE Stays(e)
    BY <1>a, <2>10, NoneIsNoRequest, RequestType
       DEF GiveUp, Return, Orphan, SyncInv, SyncTypeOK, CallsOn, StraysOn,
           Accepting, Busy
  <2>11. ASSUME NEW c \in Caller, TablePut(c) PROVE Stays(e)
    BY <1>a, <2>11
       DEF TablePut, Succeed, Return, Accepted, Orphan, SyncInv, SyncTypeOK,
           CallsOn, StraysOn, Accepting, Busy
  <2>12. ASSUME NEW c \in Caller, TableDelete(c) PROVE Stays(e)
    BY <1>a, <2>12
       DEF TableDelete, Succeed, Return, Orphan, SyncInv, SyncTypeOK, CallsOn,
           StraysOn, Accepting, Busy
  <2>13. ASSUME CoreExit PROVE Stays(e)
    BY <1>a, <2>13
       DEF CoreExit, Orphan, SyncInv, SyncTypeOK, CallsOn, StraysOn, Accepting,
           Busy
  <2>14. ASSUME CoreBoot PROVE Stays(e)
    BY <1>a, <2>14
       DEF CoreBoot, Orphan, SyncInv, SyncTypeOK, CallsOn, StraysOn, Accepting,
           Busy
  <2>15. ASSUME UNCHANGED syncVars PROVE Stays(e)
    BY <1>a, <2>15
       DEF syncVars, Orphan, SyncInv, SyncTypeOK, CallsOn, StraysOn,
           Accepting, Busy
  <2> QED
    BY <1>a, <2>1, <2>2, <2>3, <2>4, <2>5, <2>6, <2>7, <2>8, <2>9, <2>10,
       <2>11, <2>12, <2>13, <2>14, <2>15
       DEF SyncNext, Progress
<1>b. SyncInv /\ [SyncNext]_syncVars =>
        [\A e \in Emails :
           Orphan(e) => Orphan(e)' \/ ~up' \/ RemoveBegins(e)]_syncVars
  BY <1>a
<1> QED
  BY <1>b, SyncInvariant, PTL DEF SyncSpec, OrphanStays
=============================================================================
