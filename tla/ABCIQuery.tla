----------------------------- MODULE ABCIQuery -----------------------------
(***************************************************************************)
(* The queries of client/: Context.ABCIQueryWithOptions with its retries   *)
(* (client/query.go), the QueryOptions it runs with (client/options/       *)
(* query.go) and the endpoint methods above it.                            *)
(*                                                                         *)
(* A QueryOptions is reached by pointer, and With... changes it in place,  *)
(* so that goroutines may share one and change it while others query.  A   *)
(* query reads it bit by bit: the page once, when the endpoint builds its  *)
(* request; the timeout and the address once, when it makes its client;    *)
(* the height and the number of attempts again on every attempt.  So of    *)
(* the fields that are read together one stands for all: Page for the five *)
(* Page..., Timeout for RPCAddr and WSEndpoint, Height for Prove.          *)
(*                                                                         *)
(* pc of a goroutine:                                                      *)
(*   "idle"   outside a query (it may call With...);                       *)
(*   "built"  the request is built, its client is not made;                *)
(*   "loop"   at the head of the retry loop;                               *)
(*   "wait"   an attempt is with the node;                                 *)
(*   "unpack" the endpoint decodes the items of the response.              *)
(***************************************************************************)
EXTENDS Endpoints, Integers, FiniteSets

CONSTANTS
  Client,      \* the goroutines
  Options,     \* the QueryOptions objects
  NilOptions,  \* the nil pointer
  Endpoint,    \* the endpoints in use
  Height, MaxRetries, Timeout, Page,   \* values With... is called with
  NoPage,      \* the page of a request that has none
  Defaults     \* what Query() returns

ASSUME EndpointType == Endpoint \subseteq AllEndpoints
ASSUME NilIsNoOptions == NilOptions \notin Options

Settings == [Height : Int, MaxRetries : Int, Timeout : Nat, Page : Page]

ASSUME SettingsType ==
  /\ Defaults \in Settings
  /\ Height \subseteq Int
  /\ MaxRetries \subseteq Int
  /\ Timeout \subseteq Nat

VARIABLES
  opts,       \* the fields of each QueryOptions
  pc, ep, handle,   \* per client: where it is, its endpoint, its options
  request,    \* the page in the request
  tries,      \* t, the attempts that ended in a retry
  timeout,    \* seconds the HTTP client waits, 0 for ever
  reply,      \* the response whose items are decoded
  res,        \* the items decoded so far, "nil" in the places still empty
  at,         \* i, the next item to decode; 0 outside the loop
  result,     \* what the last query returned
  asked,      \* history: the heights and pages the query asked for
  errors,     \* history: the errors its attempts ended with
  touched     \* history: clients whose options another changed while they ran

unpacking == <<reply, res, at>>
call == <<pc, ep, handle, request, tries, timeout, unpacking>>
history == <<asked, errors, touched>>
vars == <<opts, call, result, history>>

\* In ABCIQueryWithOptions, or about to call it: the options are in use.
Asking(c) == pc[c] \in {"built", "loop", "wait"}

Running(c) == Asking(c) \/ pc[c] = "unpack"

(***************************************************************************)
(* utils.UIntSecondsFromDuration: the timeout, in milliseconds here, loses *)
(* its fraction of a second; http.NewWithTimeout waits for ever on 0.      *)
(***************************************************************************)
UIntSecondsFromDuration(d) == d \div 1000

\* Mutant: the first attempt does not count as one of the MaxRetries.
MoreAttemptsPlusOne(c) == tries[c] <= opts[handle[c]].MaxRetries

MoreAttempts(c) == tries[c] < opts[handle[c]].MaxRetries

\* Mutant: an attempt that failed for good is tried again.
RetryableAny(error) == error # "none"

\* The errors the loop goes round again on: "EOF", and the JSON error of a
\* reply that is a page of HTML.
Retryable(error) == error \in {"eof", "html"}

-----------------------------------------------------------------------------

NoReply == [code |-> 0, items |-> <<>>]
NoResult == [outcome |-> "none", code |-> 0, items |-> <<>>]
Err(outcome) == [NoResult EXCEPT !.outcome = outcome]
Ok(code, items) == [outcome |-> "ok", code |-> code, items |-> items]

\* What an attempt may end with.  "other" is a refused connection, a timeout,
\* a context that is done.  A node that fails a query sends a code and no
\* value, and no value decodes as a message that holds nothing.
Failures == [error : {"eof", "html", "other"}, form : {"nil"}, code : {0},
             items : {<<>>}]
NilResult == [error |-> "none", form |-> "nil", code |-> 0, items |-> <<>>]
Garbled == [NilResult EXCEPT !.form = "garbled"]
Refusal == [NilResult EXCEPT !.form = "message", !.code = 1]
Messages(e) == [error : {"none"}, form : {"message"}, code : {0},
                items : Responses(e)]

Answers(e) == Failures \cup {NilResult, Garbled, Refusal} \cup Messages(e)

-----------------------------------------------------------------------------

Init ==
  /\ opts = [h \in Options |-> Defaults]
  /\ pc = [c \in Client |-> "idle"]
  /\ ep = [c \in Client |-> "none"]
  /\ handle = [c \in Client |-> NilOptions]
  /\ request = [c \in Client |-> NoPage]
  /\ tries = [c \in Client |-> 0]
  /\ timeout = [c \in Client |-> 0]
  /\ reply = [c \in Client |-> NoReply]
  /\ res = [c \in Client |-> <<>>]
  /\ at = [c \in Client |-> 0]
  /\ result = [c \in Client |-> NoResult]
  /\ asked = [c \in Client |-> {}]
  /\ errors = [c \in Client |-> {}]
  /\ touched = {}

\* One of the With..., on the shared object.
Change(c, h, new) ==
  /\ pc[c] = "idle"
  /\ opts' = [opts EXCEPT ![h] = new]
  /\ touched' = touched \cup {d \in Client : Asking(d) /\ handle[d] = h}
  /\ UNCHANGED <<call, result, asked, errors>>

With(c) ==
  \E h \in Options :
    \/ \E v \in Height : Change(c, h, [opts[h] EXCEPT !.Height = v])
    \/ \E v \in MaxRetries : Change(c, h, [opts[h] EXCEPT !.MaxRetries = v])
    \/ \E v \in Timeout : Change(c, h, [opts[h] EXCEPT !.Timeout = v])
    \/ \E v \in Page : Change(c, h, [opts[h] EXCEPT !.Page = v])

\* ABCIQueryWithOptions returns, and what it held is gone.
Forget(c) ==
  /\ handle' = [handle EXCEPT ![c] = NilOptions]
  /\ request' = [request EXCEPT ![c] = NoPage]
  /\ tries' = [tries EXCEPT ![c] = 0]
  /\ timeout' = [timeout EXCEPT ![c] = 0]
  /\ asked' = [asked EXCEPT ![c] = {}]
  /\ errors' = [errors EXCEPT ![c] = {}]
  /\ touched' = touched \ {c}

\* The endpoint returns.
Return(c, r) ==
  /\ Forget(c)
  /\ result' = [result EXCEPT ![c] = r]
  /\ pc' = [pc EXCEPT ![c] = "idle"]
  /\ ep' = [ep EXCEPT ![c] = "none"]
  /\ reply' = [reply EXCEPT ![c] = NoReply]
  /\ res' = [res EXCEPT ![c] = <<>>]
  /\ at' = [at EXCEPT ![c] = 0]

\* The methods take a nil *QueryOptions; Client does not.
QueryNil(c) ==
  /\ pc[c] = "idle"
  /\ Return(c, Err("failed"))
  /\ UNCHANGED opts

\* The page of the lists; the others have none.
PageRequest(e, o) == IF Shape[e].page THEN o.Page ELSE NoPage

\* An endpoint builds its request, with the page of the options.
Query(c) ==
  /\ pc[c] = "idle"
  /\ \E h \in Options, e \in Endpoint :
       /\ handle' = [handle EXCEPT ![c] = h]
       /\ ep' = [ep EXCEPT ![c] = e]
       /\ request' = [request EXCEPT ![c] = PageRequest(e, opts[h])]
  /\ pc' = [pc EXCEPT ![c] = "built"]
  /\ result' = [result EXCEPT ![c] = NoResult]
  /\ UNCHANGED <<opts, tries, timeout, unpacking, history>>

\* opts.Client() makes the HTTP client.
Connect(c) ==
  /\ pc[c] = "built"
  /\ timeout' = [timeout EXCEPT ![c] =
                   UIntSecondsFromDuration(opts[handle[c]].Timeout)]
  /\ pc' = [pc EXCEPT ![c] = "loop"]
  /\ UNCHANGED <<opts, ep, handle, request, tries, unpacking, result, history>>

\* The address makes no URL.
ConnectFails(c) ==
  /\ pc[c] = "built"
  /\ Return(c, Err("failed"))
  /\ UNCHANGED opts

\* An attempt puts a question to the node.
Ask(c, height, page) ==
  /\ pc[c] = "loop"
  /\ MoreAttempts(c)
  /\ asked' = [asked EXCEPT ![c] = @ \cup {[height |-> height, page |-> page]}]
  /\ pc' = [pc EXCEPT ![c] = "wait"]
  /\ UNCHANGED <<opts, ep, handle, request, tries, timeout, unpacking, result,
                 errors, touched>>

\* Mutant: an attempt after the first asks for the latest height.
AttemptAtLatest(c) ==
  Ask(c, IF tries[c] = 0 THEN opts[handle[c]].Height ELSE 0, request[c])

\* Mutant: the request is built again for every attempt.
AttemptRebuilt(c) ==
  Ask(c, opts[handle[c]].Height, PageRequest(ep[c], opts[handle[c]]))

\* ABCIQueryOptions of one attempt, with the request of the query.
Attempt(c) == Ask(c, opts[handle[c]].Height, request[c])

Exhausted(c) ==
  /\ pc[c] = "loop"
  /\ ~MoreAttempts(c)
  /\ Return(c, Err("exhausted"))
  /\ UNCHANGED opts

\* Mutant: an attempt that is tried again does not count.
RetryUncounted(c, a) ==
  /\ Retryable(a.error)
  /\ errors' = [errors EXCEPT ![c] = @ \cup {a.error}]
  /\ pc' = [pc EXCEPT ![c] = "loop"]
  /\ UNCHANGED <<opts, ep, handle, request, tries, timeout, unpacking, result,
                 asked, touched>>

Retry(c, a) ==
  /\ Retryable(a.error)
  /\ tries' = [tries EXCEPT ![c] = @ + 1]
  /\ errors' = [errors EXCEPT ![c] = @ \cup {a.error}]
  /\ pc' = [pc EXCEPT ![c] = "loop"]
  /\ UNCHANGED <<opts, ep, handle, request, timeout, unpacking, result,
                 asked, touched>>

\* The response is what the endpoint asked for, as far as it looks: its code
\* is never looked at.
Usable(e, a) == a.error = "none" /\ (Shape[e].raw \/ a.form = "message")

\* An endpoint with nothing to decode returns what it got.
Finish(c, a) ==
  /\ ~Retryable(a.error)
  /\ ~(Usable(ep[c], a) /\ Shape[ep[c]].any)
  /\ Return(c, IF Usable(ep[c], a) THEN Ok(a.code, a.items) ELSE Err("failed"))
  /\ UNCHANGED opts

\* The others make room for as many results as there are items.
Unpack(c, a) ==
  /\ Usable(ep[c], a) /\ Shape[ep[c]].any
  /\ reply' = [reply EXCEPT ![c] = [code |-> a.code, items |-> a.items]]
  /\ res' = [res EXCEPT ![c] = [i \in 1 .. Len(a.items) |-> "nil"]]
  /\ at' = [at EXCEPT ![c] = 1]
  /\ pc' = [pc EXCEPT ![c] = "unpack"]
  /\ Forget(c)
  /\ UNCHANGED <<opts, ep, result>>

Answer(c) ==
  /\ pc[c] = "wait"
  /\ \E a \in Answers(ep[c]) : Retry(c, a) \/ Finish(c, a) \/ Unpack(c, a)

\* There is an item left, and it is of this kind.
AtItem(c, kinds) ==
  /\ pc[c] = "unpack"
  /\ at[c] <= Len(reply[c].items)
  /\ reply[c].items[at[c]] \in kinds

\* UnpackAny of the item, into its place.
UnpackAny(c) ==
  /\ AtItem(c, {"first", "second"})
  /\ res' = [res EXCEPT ![c][at[c]] = reply[c].items[at[c]]]
  /\ at' = [at EXCEPT ![c] = @ + 1]
  /\ UNCHANGED <<opts, pc, ep, handle, request, tries, timeout, reply, result,
                 history>>

\* Mutant: the loop goes on after an item that it cannot decode.
UnpackFailsUnnoticed(c) ==
  /\ AtItem(c, {"foreign"})
  /\ at' = [at EXCEPT ![c] = @ + 1]
  /\ UNCHANGED <<opts, pc, ep, handle, request, tries, timeout, reply, res,
                 result, history>>

\* The first item that it cannot decode ends the query.
UnpackFails(c) ==
  /\ AtItem(c, {"foreign"})
  /\ Return(c, Err("failed"))
  /\ UNCHANGED opts

Unpacked(c) ==
  /\ pc[c] = "unpack"
  /\ at[c] > Len(reply[c].items)
  /\ Return(c, Ok(reply[c].code, res[c]))
  /\ UNCHANGED opts

\* The HTTP client gives up; its error is none of those the loop retries.
TimeOut(c) ==
  /\ pc[c] = "wait"
  /\ timeout[c] > 0
  /\ Return(c, Err("failed"))
  /\ UNCHANGED opts

Step(c) ==
  \/ Connect(c) \/ Attempt(c) \/ Exhausted(c) \/ TimeOut(c)
  \/ UnpackAny(c) \/ UnpackFails(c) \/ Unpacked(c)

Next ==
  \E c \in Client :
    \/ With(c) \/ QueryNil(c) \/ Query(c) \/ ConnectFails(c)
    \/ Answer(c) \/ Step(c)

Spec == Init /\ [][Next]_vars

(***************************************************************************)
(* A goroutine in a query runs on and the HTTP client keeps its timeout.   *)
(* Nothing is assumed of the node: it may never answer.                    *)
(***************************************************************************)
Fairness == \A c \in Client : WF_vars(Step(c))

FairSpec == Spec /\ Fairness

-----------------------------------------------------------------------------

Item == {"first", "second", "foreign", "nil"}

(***************************************************************************)
(* Types.  Once the node has answered nothing is left of the asking, and   *)
(* outside a query nothing but its result.                                 *)
(***************************************************************************)
TypeOK ==
  /\ opts \in [Options -> Settings]
  /\ pc \in [Client -> {"idle", "built", "loop", "wait", "unpack"}]
  /\ ep \in [Client -> Endpoint \cup {"none"}]
  /\ handle \in [Client -> Options \cup {NilOptions}]
  /\ request \in [Client -> Page \cup {NoPage}]
  /\ tries \in [Client -> Nat]
  /\ timeout \in [Client -> Nat]
  /\ result \in [Client -> [outcome : {"none", "ok", "failed", "exhausted"},
                            code : {0, 1}, items : Seq(Item)]]
  /\ reply \in [Client -> [code : {0, 1}, items : Seq(Item)]]
  /\ res \in [Client -> Seq(Item)]
  /\ at \in [Client -> Nat]
  /\ \A c \in Client :
       pc[c] # "unpack" => reply[c] = NoReply /\ res[c] = <<>> /\ at[c] = 0
  /\ asked \in [Client -> SUBSET [height : Int, page : Page \cup {NoPage}]]
  /\ errors \in [Client -> SUBSET {"eof", "html"}]
  /\ \A c \in Client :
       /\ IF Running(c) THEN ep[c] \in Endpoint /\ result[c] = NoResult
                         ELSE ep[c] = "none"
       /\ IF Asking(c) THEN handle[c] \in Options
          ELSE /\ handle[c] = NilOptions
               /\ tries[c] = 0 /\ asked[c] = {} /\ errors[c] = {}
       /\ pc[c] = "built" =>
            tries[c] = 0 /\ asked[c] = {} /\ errors[c] = {}
  /\ touched \subseteq {c \in Client : Asking(c)}

(***************************************************************************)
(* A query runs with one set of options from its first attempt to its      *)
(* last, unless another goroutine changes them in place meanwhile: every   *)
(* attempt asks for the height and the page the options hold, the budget   *)
(* of attempts and the timeout are theirs.                                 *)
(***************************************************************************)
OneSetOfOptions ==
  \A c \in Client \ touched :
    Asking(c) =>
      LET o == opts[handle[c]] IN
        /\ request[c] = PageRequest(ep[c], o)
        /\ asked[c] \subseteq {[height |-> o.Height, page |-> request[c]]}
        /\ tries[c] <= IF o.MaxRetries < 0 THEN 0 ELSE o.MaxRetries
        /\ pc[c] = "wait" => tries[c] < o.MaxRetries
        /\ pc[c] # "built" => timeout[c] = UIntSecondsFromDuration(o.Timeout)

\* The numbers of attempts that a QueryOptions can ever hold.
Budgets == MaxRetries \cup {Defaults.MaxRetries}

(***************************************************************************)
(* The loop reads MaxRetries again on every attempt, so a goroutine that   *)
(* changes the shared options can move the limit of a query under way; but *)
(* never so far that it makes more attempts than some limit it was given.  *)
(***************************************************************************)
AttemptsBounded ==
  \A c \in Client :
    /\ tries[c] > 0 => \E limit \in Budgets : tries[c] <= limit
    /\ pc[c] = "wait" => \E limit \in Budgets : tries[c] < limit

\* What makes it inductive: no QueryOptions holds any other limit.
BudgetsKnown == \A h \in Options : opts[h].MaxRetries \in Budgets

(***************************************************************************)
(* All attempts of one query ask for one page, also when another goroutine *)
(* moves the shared options on to the next page between two of them.       *)
(***************************************************************************)
AttemptsShareAPage ==
  \A c \in Client : \A a \in asked[c] : a.page = request[c]

(***************************************************************************)
(* "reached max retry limit" is said only after MaxRetries attempts, each  *)
(* of which ended with an error worth another attempt (query.go:25-49).    *)
(***************************************************************************)
ExhaustedMeansRetried ==
  [][\A c \in Client \ touched :
       (pc[c] = "loop" /\ result'[c].outcome = "exhausted") =>
         LET limit == opts[handle[c]].MaxRetries IN
           /\ tries[c] = IF limit < 0 THEN 0 ELSE limit
           /\ errors[c] \subseteq {"eof", "html"}]_vars

(***************************************************************************)
(* All or nothing: an endpoint that decodes the items of its response and  *)
(* returns no error returns every one of them, in its place, and none that *)
(* it could not decode; no place is left empty.                            *)
(***************************************************************************)
AllItemsDecoded ==
  [][\A c \in Client :
       (Running(c) /\ Shape[ep[c]].any /\ result'[c].outcome = "ok") =>
         /\ result'[c].items = reply[c].items
         /\ "foreign" \notin ToSet(reply[c].items)]_vars

\* What makes it hold: where the loop has been, the items are decoded.
DecodedTo(c) ==
  /\ Len(res[c]) = Len(reply[c].items)
  /\ at[c] \in 1 .. Len(res[c]) + 1
  /\ \A i \in 1 .. at[c] - 1 :
       res[c][i] = reply[c].items[i] /\ reply[c].items[i] # "foreign"

DecodedSoFar == \A c \in Client : pc[c] = "unpack" => DecodedTo(c)

(***************************************************************************)
(* Every query returns, even when the node never answers and another       *)
(* goroutine keeps changing the number of attempts.                        *)
(***************************************************************************)
EveryQueryReturns ==
  \A c \in Client : Running(c) ~> ~Running(c)

(***************************************************************************)
(* "WithTimeout sets the timeout in the current QueryOptions" (options/    *)
(* query.go:135): as long as every QueryOptions has one, every query       *)
(* returns, even when the node never answers.                              *)
(***************************************************************************)
QueriesTimeOut ==
  [](\A h \in Options : opts[h].Timeout > 0) => EveryQueryReturns

(***************************************************************************)
(* "The result is ... and an error if the query fails" (client/auth.go:14, *)
(* and the comment of every endpoint): a response with the code of a       *)
(* failed query is not a success.                                          *)
(***************************************************************************)
FailedQueryIsAnError ==
  \A c \in Client : result[c].outcome = "ok" => result[c].code = 0
=============================================================================
