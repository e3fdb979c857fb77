----------------------------- MODULE Receivers -----------------------------
(***************************************************************************)
(* The front door of the ingest gateway: the HTTP, gRPC and StatsD         *)
(* receivers under src/services/ingest-gateway, the key and scope checks   *)
(* of src/pkg/auth in front of them, and main's shutdown behind them.  A   *)
(* call carries a batch of signals, each of which the handler offers to    *)
(* the engine; what the engine does with them is module Engine.            *)
(***************************************************************************)
EXTENDS Integers, Sequences, FiniteSets

CONSTANTS
    Calls,          \* the requests and packets that reach the gateway
    Keys,           \* the API keys clients present
    KeyRow,         \* [Keys -> the key's tenant, its scopes as stored, is it valid]
    Claims,         \* the tenants that bodies name, "none" among them
    DefaultTenant,  \* OBSERVE_X_DEFAULT_TENANT, the tenant of StatsD packets
    Packets,        \* the StatsD packets, each a sequence of lines
    BatchSize,      \* signals of a request other than a packet (/v1/ingest has one)
    QueueSize,      \* IngestBufferSize
    MaxTries        \* bound on the attempts of a client

Http == {"/v1/ingest", "otlp/http"}
Grpc == {"otlp/grpc", "ingest.v1"}

AllScopes == {"ingest", "query", "alert.read", "alert.write", "tenant.admin"}
DefaultScopes == {"ingest"}

ASSUME ReceiversAssumption ==
    /\ Calls \subseteq Nat /\ BatchSize \in Nat \ {0} /\ QueueSize \in Nat \ {0} /\ MaxTries \in Nat \ {0}
    /\ \A k \in Keys : /\ DOMAIN KeyRow[k] = {"tenant", "scopes", "live"}
                       /\ KeyRow[k].live \in BOOLEAN

VARIABLES
    calls,     \* the handlers: route, credentials, body, place and answer
    queue,     \* the number of signals in ingestCh
    gateway,   \* where main is
    grpc,      \* the gRPC server: up, draining or down
    statsd,    \* the packet loop: up, leaving or down
    overdue,   \* HTTP calls that Shutdown did not wait for (history)
    taken      \* what was sent on ingestCh: call, attempt, place and tenant (history)

receiverVars == <<calls, queue, gateway, grpc, statsd, overdue, taken>>

NoCall == [route |-> "none", cred |-> "none", claim |-> "none", lines |-> <<>>,
           tenant |-> "none", pc |-> "idle", next |-> 1, accepted |-> 0,
           try |-> 1, answer |-> "none"]

ReceiversInit ==
    /\ calls = [c \in Calls |-> NoCall]
    /\ queue = 0 /\ gateway = "serving" /\ grpc = "up" /\ statsd = "up"
    /\ overdue = {} /\ taken = {}

Running(c) == calls[c].pc = "ingest"
ClosedIngestCh == gateway = "closed"

----------------------------------------------------------------------------
(* Who may ingest: keys and scopes *)

\* An unknown scope is an error, and the caller goes on without any scope.
ParseScopes(in) ==
    IF in = {} THEN DefaultScopes ELSE IF in \subseteq AllScopes THEN in ELSE {}

\* In the key store for development every key has AllScopes in its row.
ScopesOf(key) == ParseScopes(KeyRow[key].scopes)

HasScope(granted, required) == required \subseteq granted

\* No scopes in the context count as the default ones.
ScopesFromContext(granted) == IF granted = {} THEN DefaultScopes ELSE granted

GinRequireScope(granted) == HasScope(ScopesFromContext(granted), {"ingest"})

\* A bearer key that the store finds valid; anything else is a 401 or 403.
Middleware(k) == k.cred \in Keys /\ KeyRow[k.cred].live

ginAuth(k) == Middleware(k) /\ GinRequireScope(ScopesOf(k.cred))

\* The interceptor asks for the scope itself, without that default.
authInterceptor(k) == Middleware(k) /\ HasScope(ScopesOf(k.cred), {"ingest"})

\* The header or metadata that the key check has set, whatever the client set.
SignalTenant(k) == KeyRow[k.cred].tenant

\* ingestHandler refuses a body that names another tenant.
TenantMismatch(k) ==
    k.route = "/v1/ingest" /\ k.claim # "none" /\ k.claim # KeyRow[k.cred].tenant

LetIn(k) ==
    \/ k.route \in Http /\ ginAuth(k) /\ ~TenantMismatch(k)
    \/ k.route \in Grpc /\ authInterceptor(k)

Enters(k) == [k EXCEPT !.pc = "ingest", !.tenant = SignalTenant(k)]

\* A call refused at its first attempt leaves no trace.
Refused(k) == [(IF k.try = 1 THEN NoCall ELSE k) EXCEPT !.pc = "answered", !.answer = "refused"]

\* What becomes of a call at the checks in front of its handler and at the
\* handler's own checks of the body.  The lookup of a key may fail, a body
\* may not decode: any call may be refused.
Admitted(k) == {Refused(k)} \union (IF LetIn(k) THEN {Enters(k)} ELSE {})

----------------------------------------------------------------------------
(* Calls arrive *)

Listening(route) ==
    \/ route \in Http /\ gateway \in {"serving", "cancelled"}
    \/ route \in Grpc /\ grpc = "up"
    \/ route = "statsd" /\ statsd = "up" /\ ~ \E c \in Calls : calls[c].route = "statsd" /\ Running(c)

\* Calls are numbered as they come.
Free(c) == calls[c].pc = "idle" /\ \A d \in Calls : d < c => calls[d].pc # "idle"

\* claim: the tenant that the body names; an OTLP body names none.  A call comes
\* with its message: one whose message never comes would hold GracefulStop,
\* which has no deadline.
Arrive(c, route, cred, claim) ==
    /\ Free(c) /\ Listening(route) /\ route # "statsd"
    /\ claim = "none" \/ route \in {"/v1/ingest", "ingest.v1"}
    /\ \E k \in Admitted([NoCall EXCEPT !.route = route, !.cred = cred, !.claim = claim]) :
         calls' = [calls EXCEPT ![c] = k]
    /\ UNCHANGED <<queue, gateway, grpc, statsd, overdue, taken>>

\* ReadFromUDP returns a packet; the loop looks at the context before the next.
Packet(c, lines) ==
    /\ Free(c) /\ Listening("statsd")
    /\ calls' = [calls EXCEPT ![c] = [NoCall EXCEPT !.route = "statsd", !.lines = lines,
                                                     !.tenant = DefaultTenant, !.pc = "ingest"]]
    /\ statsd' = IF gateway = "serving" THEN "up" ELSE "leaving"
    /\ UNCHANGED <<queue, gateway, grpc, overdue, taken>>

Answer(c, what) == calls' = [calls EXCEPT ![c].pc = "answered", ![c].answer = what]

----------------------------------------------------------------------------
(* The handlers, one ProcessSignal at a time *)

SizeOf(c) == CASE calls[c].route = "/v1/ingest" -> 1
                [] calls[c].route = "statsd" -> Len(calls[c].lines)
                [] OTHER -> BatchSize

More(c) == calls[c].pc = "ingest" /\ calls[c].next <= SizeOf(c)

Taken(c) ==
    /\ ~ClosedIngestCh /\ queue < QueueSize
    /\ queue' = queue + 1
    /\ taken' = taken \union {[call |-> c, try |-> calls[c].try, place |-> calls[c].next,
                               tenant |-> calls[c].tenant]}
    /\ calls' = [calls EXCEPT ![c].next = @ + 1, ![c].accepted = @ + 1]
    /\ UNCHANGED gateway

Overloaded == ~ClosedIngestCh /\ queue = QueueSize

Skip(c) == calls' = [calls EXCEPT ![c].next = @ + 1]

\* The send on the closed channel panics.  gin.Recovery answers 500; in any
\* other goroutine the panic ends the process.
Panics(c) ==
    /\ ClosedIngestCh
    /\ IF calls[c].route \in Http THEN Answer(c, "failed") /\ UNCHANGED gateway
       ELSE gateway' = "crashed" /\ UNCHANGED calls
    /\ UNCHANGED <<queue, taken>>

\* A mutant of ingestAll: a refused signal is skipped, as the legacy service does.
ingestAllSkipping(c) ==
    \/ Taken(c)
    \/ Overloaded /\ Skip(c) /\ UNCHANGED <<queue, taken, gateway>>
    \/ Panics(c)

\* The first refused signal ends the call with 429 or ResourceExhausted.
ingestAll(c) ==
    \/ Taken(c)
    \/ Overloaded /\ Answer(c, "overloaded") /\ UNCHANGED <<queue, taken, gateway>>
    \/ Panics(c)

handle(c) == More(c) /\ calls[c].route = "otlp/http" /\ ingestAll(c)
OtlpExport(c) == More(c) /\ calls[c].route = "otlp/grpc" /\ ingestAll(c)

\* One signal: 202 or 429.
ingestHandler(c) == More(c) /\ calls[c].route = "/v1/ingest" /\ ingestAll(c)

\* The legacy service goes on behind a refused signal, and counts.
Export(c) ==
    /\ More(c) /\ calls[c].route = "ingest.v1"
    /\ \/ Taken(c)
       \/ Overloaded /\ Skip(c) /\ UNCHANGED <<queue, taken, gateway>>
       \/ Panics(c)

\* name:value|type and optional parts, none of which can make a line wrong.
parseStatsDLine(line) ==
    /\ line.name # "" /\ Len(line.parts) >= 2
    /\ line.parts[2] \in {"c", "g", "ms", "h", "s"}

\* Lines that do not parse and signals that are refused are dropped.
processPacket(c) ==
    /\ More(c) /\ calls[c].route = "statsd"
    /\ IF parseStatsDLine(calls[c].lines[calls[c].next])
       THEN \/ Taken(c)
            \/ Overloaded /\ Skip(c) /\ UNCHANGED <<queue, taken, gateway>>
            \/ Panics(c)
       ELSE Skip(c) /\ UNCHANGED <<queue, taken, gateway>>

Finish(c) ==
    /\ calls[c].pc = "ingest" /\ ~More(c)
    /\ Answer(c, "ok")
    /\ UNCHANGED <<queue, taken, gateway>>

Handle(c) ==
    /\ \/ ingestHandler(c) \/ handle(c) \/ OtlpExport(c) \/ Export(c) \/ processPacket(c)
       \/ Finish(c)
    /\ UNCHANGED <<grpc, statsd, overdue>>

\* A client that was told to retry sends its batch again.
Retry(c) ==
    /\ calls[c].answer = "overloaded" /\ calls[c].try < MaxTries
    /\ Listening(calls[c].route)
    /\ \E k \in Admitted([calls[c] EXCEPT !.answer = "none", !.next = 1,
                                            !.accepted = 0, !.try = @ + 1]) :
         calls' = [calls EXCEPT ![c] = k]
    /\ UNCHANGED <<queue, gateway, grpc, statsd, overdue, taken>>

\* The pipeline takes a signal off ingestCh; after the cancel it may not.
PipelineReceives ==
    /\ queue > 0
    /\ queue' = queue - 1
    /\ UNCHANGED <<calls, gateway, grpc, statsd, overdue, taken>>

----------------------------------------------------------------------------
(* main's shutdown *)

Main(from, to) == gateway = from /\ gateway' = to

\* SIGTERM: cancel ends the context of the engine, of gRPC and of StatsD.
Cancel ==
    /\ Main("serving", "cancelled")
    /\ UNCHANGED <<calls, queue, grpc, statsd, overdue, taken>>

\* Shutdown closes the listeners, ...
ShutdownBegins ==
    /\ Main("cancelled", "draining")
    /\ UNCHANGED <<calls, queue, grpc, statsd, overdue, taken>>

HttpRunning == {c \in Calls : calls[c].route \in Http /\ Running(c)}

\* ... and returns when the calls are over or ten seconds have passed.
ShutdownReturns ==
    /\ Main("draining", "httpDown")
    /\ overdue' = HttpRunning
    /\ UNCHANGED <<calls, queue, grpc, statsd, taken>>

\* On the cancelled context, or from grpcReceiver.Stop: no new calls ...
GracefulStop ==
    /\ gateway # "serving" /\ grpc = "up"
    /\ grpc' = "draining"
    /\ UNCHANGED <<calls, queue, gateway, statsd, overdue, taken>>

\* ... and Start returns when the last one is over.
GrpcReturns ==
    /\ grpc = "draining" /\ ~ \E c \in Calls : calls[c].route \in Grpc /\ Running(c)
    /\ grpc' = "down"
    /\ UNCHANGED <<calls, queue, gateway, statsd, overdue, taken>>

StatsdReturns ==
    /\ gateway # "serving" /\ statsd # "down"
    /\ ~ \E c \in Calls : calls[c].route = "statsd" /\ Running(c)
    /\ statsd' = "down"
    /\ UNCHANGED <<calls, queue, gateway, grpc, overdue, taken>>

\* A mutant of WaitGroup: gRPC is not waited for.
WaitStatsdOnly == statsd = "down"

WaitGroup == grpc = "down" /\ statsd = "down"

\* The deferred Stop of the engine closes ingestCh, and later main returns.
EngineCloses ==
    /\ WaitGroup /\ Main("httpDown", "closed")
    /\ UNCHANGED <<calls, queue, grpc, statsd, overdue, taken>>

MainReturns ==
    /\ Main("closed", "ended")
    /\ UNCHANGED <<calls, queue, grpc, statsd, overdue, taken>>

CallStep == \E c \in Calls : Handle(c)

StopStep ==
    \/ ShutdownBegins \/ ShutdownReturns \/ GracefulStop \/ GrpcReturns \/ StatsdReturns
    \/ EngineCloses \/ MainReturns

Alive == gateway \notin {"ended", "crashed"}

ReceiversNext ==
    /\ Alive
    /\ \/ \E c \in Calls :
            \/ \E route \in Http \union Grpc, cred \in Keys \union {"none", "basic"},
                  claim \in Claims :
                    Arrive(c, route, cred, claim)
            \/ \E lines \in Packets : Packet(c, lines)
            \/ Retry(c)
       \/ CallStep \/ PipelineReceives \/ Cancel \/ StopStep

ReceiversSpec == ReceiversInit /\ [][ReceiversNext]_receiverVars

----------------------------------------------------------------------------
(* Properties *)

Places(c, n) == {s.place : s \in {x \in taken : x.call = c /\ x.try = n}}
Prefixes(n) == {1 .. k : k \in 0 .. n - 1}

\* What a row of known scopes says, read for itself: it lets the key ingest.
RowAllows(key) ==
    LET in == KeyRow[key].scopes
    IN  in \subseteq AllScopes => in = {} \/ "ingest" \in in

Truthful(c) ==
    LET k == calls[c]
    IN  /\ k.answer = "ok" /\ k.route \in Http \union {"otlp/grpc"}
             => Places(c, k.try) = 1 .. SizeOf(c)
        /\ k.route = "ingest.v1" => Cardinality(Places(c, k.try)) = k.accepted
        /\ k.answer \in {"overloaded", "failed"} => Places(c, k.try) \in Prefixes(SizeOf(c))
        /\ k.answer = "refused" => Places(c, k.try) = {}
        /\ k.answer = "failed" => c \in overdue
        /\ \A n \in 1 .. k.try - 1 : Places(c, n) \in Prefixes(SizeOf(c))
        /\ \A s \in taken : s.call = c /\ k.route # "statsd" =>
              /\ KeyRow[k.cred].live /\ s.tenant = KeyRow[k.cred].tenant
              /\ RowAllows(k.cred)

(***************************************************************************)
(* What clients are told is what the engine has, although the queue fills  *)
(* and drains between two signals of a batch.  Success means all of the    *)
(* batch (for the legacy service, as many signals as it counts), refusal   *)
(* nothing, and "retry later" a proper prefix, so that a retry can double  *)
(* the front of a batch and nothing else; a panic answers 500 only to a    *)
(* call that Shutdown gave up on.  And everything a key brings in has the  *)
(* key's tenant, under a live row that, if the code knows its scopes,      *)
(* lets the key ingest.                                                    *)
(***************************************************************************)
AnswersTruthful == \A c \in Calls : Truthful(c)

(***************************************************************************)
(* "every ingest endpoint requires the `ingest` scope", and the scope      *)
(* opens the POST routes and the gRPC services alike: a key that brought   *)
(* something in passes the check in front of each of them.                 *)
(***************************************************************************)
ScopeOpensEveryEndpoint ==
    \A s \in taken : calls[s.call].route # "statsd" =>
        ginAuth(calls[s.call]) /\ authInterceptor(calls[s.call])

(***************************************************************************)
(* A gateway that is told to stop ends in order: no handler keeps it       *)
(* waiting, although after the cancel nobody need read the full queue, and *)
(* no gRPC call or packet is still sending when the engine closes          *)
(* ingestCh, which would crash the process.                                *)
(***************************************************************************)
OrderlyEnd == []<>(gateway \in {"serving", "ended"})

----------------------------------------------------------------------------
(* The inductive invariant behind AnswersTruthful; GatewayProofs uses it *)

\* The routes whose handler ends the call at the first refused signal.
EndsEarly == Http \union {"otlp/grpc"}

CallTypes ==
    /\ DOMAIN calls = Calls
    /\ \A c \in Calls :
         /\ DOMAIN calls[c] = DOMAIN NoCall
         /\ calls[c].next \in Nat \ {0} /\ calls[c].try \in Nat \ {0} /\ calls[c].accepted \in Nat
         /\ calls[c].pc \in {"idle", "ingest", "answered"}
         /\ calls[c].pc = "answered" <=> calls[c].answer # "none"
         /\ calls[c].pc = "idle" => calls[c] = NoCall

\* How far a handler has come tells what of its batch the engine has; a handler
\* that runs has passed the checks in front of it.
CallInv(c) ==
    LET k == calls[c]
    IN  /\ \A s \in taken : s.call = c =>
              s.try \in Nat /\ s.try <= k.try /\ k.pc # "idle" /\ s.place \in Nat
        /\ Places(c, k.try) \subseteq 1 .. k.next - 1
        /\ k.pc = "ingest" /\ k.route \in EndsEarly =>
              Places(c, k.try) = 1 .. k.next - 1 /\ k.next <= SizeOf(c) + 1
        /\ k.pc = "ingest" /\ k.route # "statsd" =>
              /\ k.route \in Http \union Grpc
              /\ KeyRow[k.cred].live /\ k.tenant = KeyRow[k.cred].tenant
              /\ RowAllows(k.cred)

\* When the engine closes ingestCh, Shutdown has given up on every HTTP call
\* that still runs; before Shutdown returns it has given up on none.
OverdueInv ==
    IF gateway \in {"serving", "cancelled", "draining"} THEN overdue = {}
                                                       ELSE HttpRunning \subseteq overdue

ReceiversInv ==
    CallTypes /\ OverdueInv /\ \A c \in Calls : CallInv(c) /\ Truthful(c)
=============================================================================
