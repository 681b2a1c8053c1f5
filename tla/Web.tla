--------------------------------- MODULE Web ---------------------------------
(***************************************************************************)
(* The HTTP side of a web or backstage node: HttpServer with its pool of   *)
(* HttpRequest objects, the middleware, the handlers, and the coroutines   *)
(* among them that wait for the answer of another node (NetClientModule)   *)
(* or of another HTTP server (HttpClient).  All of it runs on the main     *)
(* thread; between two of these steps any answer may arrive, late, never,  *)
(* and for a coroutine that is gone.  The names that every specification   *)
(* has say Web here, so that its proofs can stand beside NetClient's.      *)
(***************************************************************************)
EXTENDS Integers, Sequences, FiniteSets, Functions

CONSTANTS
  Frame,           \* addresses the allocator gives to coroutines
  Batch,           \* objects made at a time (100)
  MaxRequest,      \* bound: requests that arrive
  None

ASSUME FrameAssumption == IsFiniteSet(Frame) /\ None \notin Frame
ASSUME BoundAssumption == Batch \in Nat \ {0} /\ MaxRequest \in Nat

VARIABLES
  mxHttpRequestPool, \* objects that are free, the next one first
  mIndex,            \* objects made so far
  req,               \* the evhttp_request each object stands for
  coroutines_,       \* the frames of the coroutines, in order of their start
  coro,              \* the coroutine that lives at an address, or None
  co_awaitbles_,     \* the address of the coroutine that waits for an answer
  last_req_id_,
  acks,              \* questions to nodes whose answer may still come
  mlHttpObject,      \* HttpObjects that are free, the next one first
  asks,              \* the question each HttpObject was last used for
  flying,            \* HttpObjects that evhttp has
  asked,             \* what each client asked for
  answers,           \* what each client was answered
  doubled,           \* history: was an object answered twice for one request?
  dangling,          \* history: did an answer come for a coroutine that is gone?
  mute               \* history: clients whose OnLuaExecute ended with nothing to say

webVars == <<mxHttpRequestPool, mIndex, req, coroutines_, coro, co_awaitbles_, last_req_id_, acks,
          mlHttpObject, asks, flying, asked, answers, doubled, dangling, mute>>
client == <<acks, mlHttpObject, asks, flying>>

(* What can become of a request: a coroutine that asks another node (as    *)
(* OnLuaExecute does, "lua") or an HTTP server; an answer at once, also for*)
(* want of a handler; no session; OPTIONS; a filter that throws before such*)
(* a coroutine is started.                                                 *)
Waiting == {"node", "lua", "http"}
Twice == {"auth", "options", "throws"}
Kind == Waiting \cup {"call"} \cup Twice

(* Bound: one request whose object goes back twice.                        *)
Once(kind) == kind \in Twice => ~doubled

Clients == 1 .. Len(asked)
Coro == [client : 1 .. MaxRequest, object : Nat, req_id : 1 .. MaxRequest, via : {"node", "http"},
         done : BOOLEAN]
Answer == [of : 1 .. MaxRequest, ok : BOOLEAN, data : (1 .. MaxRequest) \cup {None}]
ASSUME NoneAssumption == None \notin Coro

WebInit ==
  /\ mxHttpRequestPool = <<>>
  /\ mIndex = 0
  /\ req = <<>>
  /\ coroutines_ = <<>>
  /\ coro = [f \in Frame |-> None]
  /\ co_awaitbles_ = [k \in 1 .. MaxRequest |-> None]
  /\ last_req_id_ = 0
  /\ acks = {}
  /\ mlHttpObject = <<>>
  /\ asks = <<>>
  /\ flying = {}
  /\ asked = <<>>
  /\ answers = [r \in 1 .. MaxRequest |-> <<>>]
  /\ doubled = FALSE
  /\ dangling = FALSE
  /\ mute = {}

-----------------------------------------------------------------------------
(* HttpServer. *)

(* AllocHttpRequest: from an empty pool a batch is made first.             *)
Filled ==
  IF mxHttpRequestPool = <<>> THEN [i \in 1 .. Batch |-> mIndex + i] ELSE mxHttpRequestPool

Alloc(back) ==
  /\ mxHttpRequestPool' = Tail(Filled) \o back
  /\ mIndex' = IF mxHttpRequestPool = <<>> THEN mIndex + Batch ELSE mIndex
  /\ req' = [o \in 1 .. mIndex' |-> IF o = Head(Filled) THEN Len(asked) + 1
                                    ELSE IF o <= mIndex THEN req[o] ELSE 0]

Told(of, ok, data) == [of |-> of, ok |-> ok, data |-> data]

(* listener_cb when the handler has answered before it returns.  Every     *)
(* ResponseMsg puts the object back; so does the refusal of the middleware,*)
(* and then answers.  OPTIONS is answered by the middleware, and as its    *)
(* WEB_RETURN is WEB_IGNORE once more by the server, which has no handler. *)
Times(kind) ==
  CASE kind = "call" -> [back |-> 1, told |-> 1]
    [] kind = "auth" -> [back |-> 2, told |-> 1]
    [] kind = "options" -> [back |-> 2, told |-> 2]

Listener(kind) ==
  LET r == Len(asked) + 1
      n == Times(kind)
  IN /\ r <= MaxRequest
     /\ kind \notin Waiting \cup {"throws"} /\ Once(kind)
     /\ asked' = Append(asked, kind)
     /\ Alloc([i \in 1 .. n.back |-> Head(Filled)])
     /\ answers' = [answers EXCEPT ![r] = [i \in 1 .. n.told |-> Told(r, kind = "call", None)]]
     /\ doubled' = (doubled \/ kind \in Twice)
     /\ UNCHANGED <<coroutines_, coro, co_awaitbles_, last_req_id_, client, dangling, mute>>

-----------------------------------------------------------------------------
(* Questions to others. *)

GenerateRequestID == last_req_id_ + 1

(* A request to a node.  Nobody looks whether it could be sent: if not, as *)
(* when it is lost, the answer that is waited for never comes.             *)
SendRequest(k) ==
  /\ acks' = acks \cup {k}
  /\ UNCHANGED <<mlHttpObject, asks, flying>>

(* HttpClient: a request that cannot be made is given up before it has an  *)
(* HttpObject, or keeps it for ever.                                       *)
MakeRequest(k, sent) ==
  LET h == IF mlHttpObject = <<>> THEN Len(asks) + 1 ELSE Head(mlHttpObject)
      Take ==
        /\ mlHttpObject' = IF mlHttpObject = <<>> THEN <<>> ELSE Tail(mlHttpObject)
        /\ asks' = IF mlHttpObject = <<>> THEN Append(asks, k) ELSE [asks EXCEPT ![h] = k]
  IN /\ UNCHANGED acks
     /\ IF sent THEN Take /\ flying' = flying \cup {h}
        ELSE \/ Take /\ UNCHANGED flying
             \/ UNCHANGED <<mlHttpObject, asks, flying>>

(* CoroutineBinder: who waits for the answer, unless somebody does.        *)
Bind(k, f) == co_awaitbles_' = [co_awaitbles_ EXCEPT ![k] = IF @ = None THEN f ELSE @]

(* Request, RequestPB; CoGet, CoPost.                                      *)
Request(k, sent) == SendRequest(k) /\ sent
CoGet(k, sent) == MakeRequest(k, sent)

-----------------------------------------------------------------------------
(* Coroutines. *)

(* The elements of a sequence that are in a set, in their order. *)
Among(s, S) ==
  LET chosen[n \in 0 .. Len(s)] ==
        IF n = 0 THEN <<>>
        ELSE IF s[n] \in S THEN Append(chosen[n - 1], s[n]) ELSE chosen[n - 1]
  IN chosen[Len(s)]

(* A coroutine is started, asks and waits: the binder of the client it asks*)
(* with knows it under the number of its question (each client counts for  *)
(* itself; one count stands for both).  After a filter that threw, the     *)
(* HTTP client is answered already.                                        *)
Start(kind, f, sent) ==
  LET r == Len(asked) + 1
      k == GenerateRequestID
      threw == kind = "throws"
      via == IF kind = "http" THEN "http" ELSE "node"
  IN /\ r <= MaxRequest
     /\ kind \in Waiting \cup {"throws"} /\ Once(kind)
     /\ coro[f] = None
     /\ asked' = Append(asked, kind)
     /\ Alloc(IF threw THEN <<Head(Filled)>> ELSE <<>>)
     /\ answers' = IF threw THEN [answers EXCEPT ![r] = <<Told(r, FALSE, None)>>] ELSE answers
     /\ coroutines_' = Append(coroutines_, f)
     /\ coro' = [coro EXCEPT ![f] = [client |-> r, object |-> Head(Filled), req_id |-> k,
                                     via |-> via, done |-> FALSE]]
     /\ last_req_id_' = k
     /\ IF via = "node" THEN Request(k, sent) ELSE CoGet(k, sent)
     /\ Bind(k, f)
     /\ doubled' = (doubled \/ threw)
     /\ UNCHANGED <<dangling, mute>>

(* An answer is in: the coroutine found at the address is resumed with it  *)
(* and answers its HTTP client through its object.  The address may be that*)
(* of a coroutine that is over, or of the next one at the same place; of   *)
(* one that was freed nothing is assumed but that it is left alone.        *)
(* OnLuaExecute says nothing when it cannot parse what came, and keeps its *)
(* object; the others answer that with an error of their own.              *)
Speaks(c, parsed) == asked[c.client] = "lua" => parsed

Resume(k, parsed) ==
  LET f == co_awaitbles_[k]
      c == coro[f]
      runs == coro[f] # None /\ ~coro[f].done
  IN /\ f # None
     /\ co_awaitbles_' = [co_awaitbles_ EXCEPT ![k] = None]
     /\ dangling' = (dangling \/ c = None \/ (runs /\ c.req_id # k))
     /\ coro' = IF runs THEN [coro EXCEPT ![f].done = TRUE] ELSE coro
     /\ IF runs /\ Speaks(c, parsed)
        THEN /\ answers' = [answers EXCEPT ![req[c.object]] =
                              Append(@, Told(c.client, TRUE, k))]
             /\ mxHttpRequestPool' = Append(mxHttpRequestPool, c.object)
             /\ UNCHANGED mute
        ELSE /\ mute' = mute \cup (IF runs THEN {c.client} ELSE {})
             /\ UNCHANGED <<answers, mxHttpRequestPool>>
     /\ UNCHANGED <<mIndex, req, coroutines_, last_req_id_, asked, doubled>>

OnAckHandler(k, parsed) ==
  /\ k \in acks
  /\ Resume(k, parsed)
  /\ acks' = acks \ {k}
  /\ UNCHANGED <<mlHttpObject, asks, flying>>

(* evhttp is done with a request.  If it failed nobody is told.            *)
OnHttpReqDone(h, failed, parsed) ==
  /\ h \in flying
  /\ IF failed
     THEN UNCHANGED <<mxHttpRequestPool, mIndex, req, coroutines_, coro, co_awaitbles_,
                      last_req_id_, asked, answers, doubled, dangling, mute>>
     ELSE Resume(asks[h], parsed)
  /\ flying' = flying \ {h}
  /\ mlHttpObject' = Append(mlHttpObject, h)
  /\ UNCHANGED <<acks, asks>>

(* FixCoroutines: coroutines that are done are destroyed; those that are   *)
(* `late', started more than ten seconds ago, are resumed without answer.  *)
(* NetClientModule has set data_.error, so they answer with an error, but  *)
(* OnLuaExecute, which ends without a word and keeps its object; HttpClient*)
(* has not, and they see what happens to be there.  The binder's entry     *)
(* stays as it is.                                                         *)
Living == {f \in Frame : coro[f] # None}
OverdueDone(late) == late  \* mutant
Overdue(late) == {f \in late : ~coro[f].done}
Kept(late) == {f \in Living : ~coro[f].done}
Answering(late) == {f \in Overdue(late) : Speaks(coro[f], FALSE)}

ErrorUnset(late) == late  \* mutant
SeenOk(late) == {f \in late : coro[f].via = "http"}

FixCoroutines(late, wrong) ==
  LET resumed == Among(coroutines_, Answering(late))
      Of(r) == Among(resumed, {f \in Answering(late) : req[coro[f].object] = r})
  IN /\ late # {} \/ \E i \in DOMAIN coroutines_ : coro[coroutines_[i]].done
     /\ coroutines_' = Among(coroutines_, Kept(late))
     /\ coro' = [f \in Frame |->
                   IF coro[f] = None THEN None ELSE IF coro[f].done THEN None
                   ELSE IF f \in Overdue(late) THEN [coro[f] EXCEPT !.done = TRUE] ELSE coro[f]]
     /\ answers' = [r \in 1 .. MaxRequest |-> answers[r] \o
                      [i \in DOMAIN Of(r) |-> Told(coro[Of(r)[i]].client, Of(r)[i] \in wrong, None)]]
     /\ mxHttpRequestPool' =
          mxHttpRequestPool \o [i \in DOMAIN resumed |-> coro[resumed[i]].object]
     /\ mute' = mute \cup {coro[f].client : f \in Overdue(late) \ Answering(late)}
     /\ UNCHANGED <<mIndex, req, co_awaitbles_, last_req_id_, client, asked, doubled, dangling>>

WebNext ==
  \/ \E kind \in Kind : Listener(kind)
  \/ \E kind \in Kind, f \in Frame, sent \in BOOLEAN : Start(kind, f, sent)
  \/ \E k \in 1 .. MaxRequest, parsed \in BOOLEAN : OnAckHandler(k, parsed)
  \/ \E h \in 1 .. Len(asks), failed, parsed \in BOOLEAN : OnHttpReqDone(h, failed, parsed)
  \/ \E late \in SUBSET Living : \E wrong \in SUBSET SeenOk(late) : FixCoroutines(late, wrong)

(* Time passes and HttpServerModule::Update checks the coroutines every    *)
(* second: in the end each one is late.  Nothing makes an answer come.     *)
CheckLate(f) ==
  \E late \in SUBSET Living : \E wrong \in SUBSET SeenOk(late) :
    f \in late /\ FixCoroutines(late, wrong)
WebFairness == \A f \in Frame : WF_webVars(CheckLate(f))

WebSpec == WebInit /\ [][WebNext]_webVars /\ WebFairness

-----------------------------------------------------------------------------
(* Correctness. *)

WebTypeOK ==
  /\ mIndex \in Nat
  /\ mxHttpRequestPool \in Seq(1 .. mIndex)
  /\ req \in [1 .. mIndex -> 0 .. MaxRequest]
  /\ coroutines_ \in Seq(Frame)
  /\ coro \in [Frame -> Coro \cup {None}]
  /\ \A f \in Frame : coro[f] # None <=> \E i \in DOMAIN coroutines_ : coroutines_[i] = f
  /\ co_awaitbles_ \in [1 .. MaxRequest -> Frame \cup {None}]
  /\ last_req_id_ \in 0 .. MaxRequest
  /\ acks \subseteq 1 .. MaxRequest
  /\ asks \in Seq(1 .. MaxRequest)
  /\ mlHttpObject \in Seq((1 .. Len(asks)) \ flying)
  /\ flying \subseteq 1 .. Len(asks)
  /\ asked \in Seq(Kind)
  /\ answers \in [1 .. MaxRequest -> Seq(Answer)]
  /\ {doubled, dangling} \subseteq BOOLEAN
  /\ mute \subseteq 1 .. MaxRequest

Unanswered == {r \in Clients : answers[r] = <<>>}

(* As long as no request was answered twice by the server itself, an       *)
(* object is in the pool once or stands for one client that still waits;   *)
(* two clients never share one.                                            *)
ObjectsExclusive ==
  ~doubled =>
    /\ IsInjective(mxHttpRequestPool)
    /\ \A o \in 1 .. mIndex : req[o] \in Unanswered => o \notin Range(mxHttpRequestPool)
    /\ \A o, p \in 1 .. mIndex : req[o] = req[p] /\ req[o] # 0 => o = p

(* So each client gets at most one answer, the one its own coroutine made, *)
(* whatever happens to the questions in between.                           *)
AnsweredOnce ==
  ~doubled => \A r \in Clients :
    /\ Len(answers[r]) <= 1
    /\ \A i \in DOMAIN answers[r] : answers[r][i].of = r

(* The objects and the answers of the HTTP server are right.               *)
AnsweredRight == WebTypeOK /\ ObjectsExclusive /\ AnsweredOnce

(* A coroutine that asked a node takes for the answer only the answer to   *)
(* its own question: until an answer meets a coroutine that is gone, which *)
(* takes FixCoroutines to resume one whose question is still out.          *)
OwnAnswer ==
  ~dangling => \A f \in Frame, r \in Clients : \A i \in DOMAIN answers[r] :
    /\ coro[f] # None /\ coro[f].via = "node"
    /\ answers[r][i].of = coro[f].client /\ answers[r][i].ok
    => answers[r][i].data = coro[f].req_id


=============================================================================
