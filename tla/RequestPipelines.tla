-------------------------- MODULE RequestPipelines --------------------------
(***************************************************************************)
(* Requests on the VWS and VWQ apps and on the routes that create Model    *)
(* Target datasets, each with a few things that are special about it: how  *)
(* the validators of its app, run one after another, and the handler       *)
(* behind them answer it.                                                  *)
(***************************************************************************)
EXTENDS Naturals, Sequences, FiniteSets

CONSTANT MaxFaults  \* bound on what is special about a request

ASSUME PipelinesAssumption == MaxFaults \in Nat

Services == INSTANCE ServicesValidators
Query == INSTANCE QueryValidators
Datasets == INSTANCE DatasetValidators

Crash == "Crash"

VARIABLES
    place,   \* where the request is: with its client, or in the app
    app,     \* which one
    request,
    answer,
    stored   \* whether the target manager did what it was called for

vars == <<place, app, request, answer, stored>>

\* A request with nothing special about it.
Plain(op, attributes) ==
    [attribute \in attributes \cup {"op"} |-> IF attribute = "op" THEN op ELSE "ok"]

NoRequest == Plain("none", {})

Special == {attribute \in DOMAIN request \ {"op"} : request[attribute] # "ok"}

Begin ==
    /\ place = "idle"
    /\ \/ /\ app' = "vws"
          /\ \E op \in Services!Endpoints : request' = Plain(op, Services!Attributes)
       \/ /\ app' = "query"
          /\ request' = Plain("query", Query!Attributes)
       \/ /\ app' = "dataset"
          /\ \E op \in Datasets!Types : request' = Plain(op, Datasets!Attributes)
    /\ place' = "client"
    /\ UNCHANGED <<answer, stored>>

FaultsOf(attribute) ==
    IF app = "vws" THEN Services!FaultsOf(attribute)
    ELSE IF app = "query" THEN Query!FaultsOf(attribute)
    ELSE Datasets!FaultsOf(attribute)

\* One more thing is special about the request before it is sent.
MakeSpecial ==
    /\ place = "client" /\ Cardinality(Special) < MaxFaults
    /\ \E attribute \in DOMAIN request \ ({"op"} \cup Special) :
         /\ app = "vws" => Services!Concerns(request, attribute)
         /\ \E value \in FaultsOf(attribute) :
              request' = [request EXCEPT ![attribute] = value]
    /\ UNCHANGED <<place, app, answer, stored>>

Verdicts ==
    IF app = "vws" THEN Services!run_services_validators(request)
    ELSE IF app = "query" THEN Query!run_query_validators(request)
    ELSE Datasets!create_model_target_dataset(request)

\* The validators run until one raises an error.
Validate ==
    /\ place = "client"
    /\ \E verdicts \in {Verdicts} :
         \/ /\ \A i \in DOMAIN verdicts : verdicts[i] = ""
            /\ place' = "handler" /\ UNCHANGED answer
         \/ \E i \in DOMAIN verdicts :
               /\ verdicts[i] # "" /\ \A j \in 1 .. (i - 1) : verdicts[j] = ""
               /\ answer' = verdicts[i]
               /\ place' = "answer"
    /\ UNCHANGED <<app, request, stored>>

\* A handler answers, and with success it has called the target manager.
Handle ==
    /\ place = "handler"
    /\ answer' = IF app = "vws" THEN Services!Handled(request)
                 ELSE IF app = "query" THEN Query!query(request)
                 ELSE Datasets!add_model_target_dataset(request)
    /\ stored' = (/\ request.op \in {"add", "update"}
                  /\ answer' \in {"TargetCreated", "Success"}
                  /\ Services!Stored(request))
    /\ place' = "answer"
    /\ UNCHANGED <<app, request>>

\* Mutant: the answer of a request is left for the next one.
AnswerKeepingResult ==
    /\ place = "answer"
    /\ place' = "idle" /\ app' = "none"
    /\ request' = NoRequest
    /\ UNCHANGED <<answer, stored>>

\* The client has its answer.
Answer ==
    /\ place = "answer"
    /\ place' = "idle" /\ app' = "none"
    /\ request' = NoRequest
    /\ answer' = "" /\ stored' = FALSE

Init ==
    /\ place = "idle" /\ app = "none"
    /\ request = NoRequest
    /\ answer = "" /\ stored = FALSE

Next == Begin \/ MakeSpecial \/ Validate \/ Handle \/ Answer

Spec == Init /\ [][Next]_vars

-----------------------------------------------------------------------------
\* The uncaught exceptions there are.  Of the VWS app: an Authorization header
\* without its two parts, bytes that are no text, no body where keys have to be
\* given, a flag that cannot be in a set, a name which two targets have, and
\* what the client library or ImageTarget refuses to take on.
UncaughtByServices(req) ==
    \/ req.authorization = "not_two_parts"
    \/ req.body = "not_text"
    \/ req.body = "none" /\ Services!Allowed(req) # {}
    \/ req.active_flag = "not_hashable"
    \/ req.name = "taken_twice" /\ req.op = "update"
    \/ req.width = "infinite"
    \/ req.op = "add" /\ (req.image = "unpadded" \/ req.active_flag = "number")

UncaughtByQuery(req) ==
    req.content_length = "missing" \/ req.authorization = "space_after_colon"

\* requests refuses to post the number to the target manager.
UncaughtByDatasets(req) == req.numbers = "infinite"

\* Every validator, and every handler, works on what those before it have let
\* through: whatever faults of those named a request has, at once, it is refused
\* with an error of its own, but for the exceptions which nothing catches today.
OnlyKnownCrashes ==
    place = "answer" /\ answer = Crash =>
       \/ app = "vws" /\ UncaughtByServices(request)
       \/ app = "query" /\ UncaughtByQuery(request)
       \/ app = "dataset" /\ UncaughtByDatasets(request)

\* What the validators accept the target manager accepts as well, although it
\* decodes and types everything anew and nobody looks at its answer.  But an
\* update with an image that lacks its padding, or with 1 or 0 for a flag, is
\* answered with success and lost.
AcknowledgedIsStored ==
    place = "answer" /\ request.op \in {"add", "update"} =>
       \/ stored <=> answer \in {"TargetCreated", "Success"}
       \/ /\ request.op = "update"
          /\ request.image = "unpadded" \/ request.active_flag = "number"

\* What a caller of the VWS app is told who does not hold the keys.
ToStranger ==
    [missing |-> "AuthenticationFailure", no_signature |-> "Fail",
     not_two_parts |-> Crash, unknown_key |-> "Fail",
     wrong_signature |-> "AuthenticationFailure"]

\* A caller without the keys of a database, or without a token, is told only
\* that: what is in its request, and the state of the database, have no bearing
\* on the answer, but for the length of a query or of a dataset's description.
KeysComeFirst ==
    place = "answer" =>
       /\ app = "vws" /\ request.authorization # "ok" =>
            answer = ToStranger[request.authorization]
       /\ app = "query" /\ request.authorization # "ok" =>
            answer \in {"AuthHeaderMissing", "MalformedAuthHeader", Crash,
                        "AuthenticationFailure", "AuthenticationFailureGoodFormatting",
                        "ContentLengthHeaderNotInt", "ContentLengthHeaderTooLarge"}
       /\ app = "dataset" /\ request.token \in {"missing", "malformed"} =>
            answer \in {"Unauthorized", "ContentLengthHeaderNotInt"}

\* The operations of an app, and the attributes of its requests.
Operations ==
    IF app = "none" THEN {"none"}
    ELSE IF app = "vws" THEN Services!Endpoints
    ELSE IF app = "query" THEN {"query"} ELSE Datasets!Types

Attributes ==
    IF app = "none" THEN {}
    ELSE IF app = "vws" THEN Services!Attributes
    ELSE IF app = "query" THEN Query!Attributes ELSE Datasets!Attributes

\* A request has the attributes of its app, each with a value it can have, and at
\* most MaxFaults special ones; and only one that a handler took is ever stored.
TypeOK ==
    /\ place \in {"idle", "client", "handler", "answer"}
    /\ app \in {"none", "vws", "query", "dataset"}
    /\ app = "none" <=> place = "idle"
    /\ DOMAIN request = Attributes \cup {"op"}
    /\ request.op \in Operations
    /\ \A attribute \in Attributes :
          request[attribute] \in FaultsOf(attribute) \cup {"ok"}
    /\ IsFiniteSet(Special) /\ Cardinality(Special) <= MaxFaults
    /\ answer # "" <=> place = "answer"
    /\ stored => place = "answer"
=============================================================================
