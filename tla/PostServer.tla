----------------------------- MODULE PostServer -----------------------------
(***************************************************************************)
(* The HTTP server of cpp/server: SimplePostServer with SpecialPostHandler.*)
(* The thread of libmicrohttpd (MHD_USE_SELECT_INTERNALLY) calls EntryPoint*)
(* for the connections in any order: once when a request begins, once per  *)
(* piece of its body as the network delivers it, once when the body is     *)
(* complete; it sends what was queued, and at the end of every request     *)
(* calls RequestComplete.                                                  *)
(***************************************************************************)
EXTENDS QueryReader

CONSTANTS
  Connections,
  Bodies,     \* the bodies clients send: [key, value]
  MaxRequests \* bound: requests of all connections together

ASSUME BodiesAssumption ==
  \A body \in Bodies : body.value \in Seq(ToSet(body.value))

VARIABLES
  request,   \* connection -> [method, body], what its client has sent
  pieces,    \* connection -> pieces of the value still to arrive
  first,     \* ghost: connection -> the first piece that arrived
  phase,     \* connection -> "idle", "sent", "post", "reply", "refused"
  con_cls,   \* connection -> [query_cache, error, buffer], or None
  response,  \* connection -> the response queued, or None
  running,   \* the server process is
  requests   \* requests so far

vars == <<request, pieces, first, phase, con_cls, response, running, requests>>
client == <<request, pieces, first>>

None == [is |-> "none"]
Info == [is |-> "info", query_cache |-> <<>>, error |-> FALSE, buffer |-> None]
ErrorGet == [is |-> "error", what |-> "GET is not supported"]
NoQuery == [is |-> "error", what |-> "no query received"]
Corrupted == [is |-> "error", what |-> "Corrupted Query"]
ArmorSets(query) == [is |-> "result", query |-> query]

NoBody == [key |-> "none", value |-> <<>>]
NoRequest == [method |-> "none", body |-> NoBody]

Init ==
  /\ request = [c \in Connections |-> NoRequest]
  /\ pieces = [c \in Connections |-> <<>>]
  /\ first = [c \in Connections |-> <<>>]
  /\ phase = [c \in Connections |-> "idle"]
  /\ con_cls = [c \in Connections |-> None]
  /\ response = [c \in Connections |-> None]
  /\ running = TRUE
  /\ requests = 0

(* A client sends a request; its value arrives whole or in two pieces.     *)
Connect(c, method, body) ==
  /\ running
  /\ phase[c] = "idle"
  /\ requests < MaxRequests
  /\ request' = [request EXCEPT ![c] = [method |-> method, body |-> body]]
  /\ \E p \in (IF body.value = <<>> THEN { <<>> }
               ELSE {<<body.value>>} \union Cuts(body.value)) :
       pieces' = [pieces EXCEPT ![c] = p]
  /\ phase' = [phase EXCEPT ![c] = "sent"]
  /\ requests' = requests + 1
  /\ UNCHANGED <<first, con_cls, response, running>>

(* Nothing of the request is left for the next one on the connection.      *)
Forget(cs) ==
  /\ request' = [c \in Connections |-> IF c \in cs THEN NoRequest ELSE request[c]]
  /\ pieces' = [c \in Connections |-> IF c \in cs THEN <<>> ELSE pieces[c]]
  /\ first' = [c \in Connections |-> IF c \in cs THEN <<>> ELSE first[c]]
  /\ phase' = [c \in Connections |-> IF c \in cs THEN "idle" ELSE phase[c]]
  /\ response' = [c \in Connections |-> IF c \in cs THEN None ELSE response[c]]

-----------------------------------------------------------------------------
(* SendResponse: MHD_RESPMEM_PERSISTENT keeps a pointer to the content.    *)
Queue(c, content) ==
  /\ response' = [response EXCEPT ![c] = content]
  /\ phase' = [phase EXCEPT ![c] = "reply"]

(* EntryPoint, when con_cls is null.  A method that is neither POST nor GET *)
(* is answered MHD_NO, and the connection is closed.                       *)
Begin(c) ==
  /\ running
  /\ phase[c] = "sent"
  /\ CASE request[c].method = "POST" ->
            /\ con_cls' = [con_cls EXCEPT ![c] = Info]
            /\ phase' = [phase EXCEPT ![c] = "post"]
            /\ UNCHANGED response
       [] request[c].method = "GET" -> Queue(c, ErrorGet) /\ UNCHANGED con_cls
       [] OTHER -> /\ phase' = [phase EXCEPT ![c] = "refused"]
                   /\ UNCHANGED <<con_cls, response>>
  /\ UNCHANGED <<client, running, requests>>

(* A mutant: MHD_YES, so that MHD_post_process goes on with later pieces.  *)
ProcessKeyValue_GoesOn(info, key, value) ==
  [info EXCEPT !.query_cache = IF key = "query" THEN value ELSE @]

(* ProcessKeyValue always returns MHD_NO: the post processor is in error   *)
(* from then on and takes nothing more.                                    *)
ProcessKeyValue(info, key, value) ==
  [info EXCEPT !.query_cache = IF key = "query" THEN value ELSE @,
               !.error = TRUE]

(* EntryPoint, with upload data: MHD_post_process calls IteratePostData.   *)
PostData(c) ==
  /\ running
  /\ phase[c] = "post"
  /\ pieces[c] # <<>>
  /\ con_cls' = [con_cls EXCEPT ![c] =
       IF @.error THEN @
       ELSE ProcessKeyValue(@, request[c].body.key, Head(pieces[c]))]
  /\ first' = [first EXCEPT ![c] = IF @ = <<>> THEN Head(pieces[c]) ELSE @]
  /\ pieces' = [pieces EXCEPT ![c] = Tail(@)]
  /\ UNCHANGED <<request, phase, response, running, requests>>

-----------------------------------------------------------------------------
(* Texts that can be all there is of a query, and what Parse makes of them *)
(* with a new Query object.                                                *)
Texts == UNION { {body.value} \union UNION { ToSet(cut) : cut \in Cuts(body.value) } :
                   body \in Bodies }
Parsed == [text \in Texts |-> Parse(text, NewQuery)]

(* GenerateResponse, but for what ends the process in it.                  *)
GenerateResponse(query_cache) ==
  IF query_cache = <<>> THEN NoQuery
  ELSE IF Parsed[query_cache].status = "SUCCESS"
       THEN ArmorSets(Parsed[query_cache].query)
  ELSE Corrupted

ParserAborts(query_cache) ==
  query_cache # <<>> /\ Parsed[query_cache].status = "ABORT"

(* Without an effect no armor set has a jewel key, and the Finalizer reads  *)
(* the last of them all the same as soon as a set comes to it.  The armors  *)
(* decide whether one does: the answer is that there is none, or a fault.   *)
SearchFaults(query_cache) ==
  /\ query_cache # <<>>
  /\ Parsed[query_cache].status = "SUCCESS"
  /\ Parsed[query_cache].query.effects = <<>>

(* A mutant: the content is on the stack of HandleRequest.                 *)
HandleRequest_OnStack(c) ==
  /\ Queue(c, GenerateResponse(con_cls[c].query_cache))
  /\ UNCHANGED con_cls

(* The content is copied to buffer_ of the handler, and queued.            *)
HandleRequest(c) ==
  /\ Queue(c, GenerateResponse(con_cls[c].query_cache))
  /\ con_cls' = [con_cls EXCEPT ![c].buffer = response'[c]]

(* EntryPoint, when the body is complete.                                  *)
PostEnd(c) ==
  /\ running
  /\ phase[c] = "post"
  /\ pieces[c] = <<>>
  /\ ~ParserAborts(con_cls[c].query_cache)
  /\ HandleRequest(c)
  /\ UNCHANGED <<client, running, requests>>

(* exit(-1), an exception nobody catches, or a read behind an empty vector:*)
(* all connections are gone.                                               *)
PostAborts(c) ==
  /\ running
  /\ phase[c] = "post"
  /\ pieces[c] = <<>>
  /\ \/ ParserAborts(con_cls[c].query_cache)
     \/ SearchFaults(con_cls[c].query_cache)
  /\ running' = FALSE
  /\ con_cls' = [d \in Connections |-> None]
  /\ Forget(Connections)
  /\ UNCHANGED requests

(* A mutant: only requests that were answered are cleaned up.              *)
RequestComplete_Answered(c) ==
  con_cls' = [con_cls EXCEPT ![c] = IF response[c] # None THEN None ELSE @]

RequestComplete(c) == con_cls' = [con_cls EXCEPT ![c] = None]

(* The request has ended: the response has been sent, the connection was   *)
(* refused, or the client is gone, at any moment of it.                    *)
Complete(c) ==
  /\ running
  /\ phase[c] # "idle"
  /\ RequestComplete(c)
  /\ Forget({c})
  /\ UNCHANGED <<running, requests>>

Replied(c) == phase[c] \in {"reply", "refused"}

Serve(c) == Begin(c) \/ PostData(c) \/ PostEnd(c) \/ PostAborts(c)

Next ==
  \E c \in Connections :
    \/ \E body \in Bodies : Connect(c, "POST", body)
    \/ \E method \in {"GET", "PUT"} : Connect(c, method, NoBody)
    \/ Serve(c)
    \/ Complete(c)

(* The thread of the daemon serves every connection whose client goes on   *)
(* sending, and sends what is queued.  Nothing makes a client go away.     *)
Fairness ==
  \A c \in Connections :
    WF_vars(Serve(c)) /\ WF_vars(Replied(c) /\ Complete(c))

Spec == Init /\ [][Next]_vars /\ Fairness

-----------------------------------------------------------------------------
Answered(c) == phase[c] = "reply" /\ request[c].method = "POST"

(* However the pieces of several requests are interleaved, and whatever    *)
(* arrives after the first piece, a request is answered for its own query  *)
(* as far as the first piece brought it: the whole of it if there was one  *)
(* piece, an error if there was no query.                                  *)
AnswerIsItsOwn ==
  \A c \in Connections : Answered(c) =>
    response[c] = IF request[c].body.key = "query"
                  THEN GenerateResponse(first[c]) ELSE NoQuery

(* MHD sends from the memory of the handler: it must not have been freed   *)
(* or written before the response is gone.                                 *)
ResponseIsHeld ==
  \A c \in Connections : Answered(c) => con_cls[c].buffer = response[c]

(* The query `asked` is the query `whole` but for one number, which has    *)
(* lost its last digits: a member, or the points of the last effect.       *)
LastEffectCut(asked, whole) ==
  /\ Len(asked) = Len(whole)
  /\ \A e \in DOMAIN whole :
       \/ asked[e] = whole[e]
       \/ /\ e = Len(whole)
          /\ asked[e].id = whole[e].id
          /\ asked[e].points \in Shorter(whole[e].points)

OneNumberCut(asked, whole) ==
  \/ \E f \in {"defense", "max_results"} :
       /\ asked = [whole EXCEPT ![f] = asked[f]]
       /\ asked[f] \in Shorter(whole[f])
  \/ \E f \in {"min_rare", "max_rare", "weapon_slots"} :
       /\ asked = [whole EXCEPT !.armor_filter[f] = asked.armor_filter[f]]
       /\ asked.armor_filter[f] \in Shorter(whole.armor_filter[f])
  \/ /\ asked = [whole EXCEPT !.effects = asked.effects]
     /\ LastEffectCut(asked.effects, whole.effects)

(* The queries that the reader has made of a text after each round.        *)
Fronts ==
  [text \in { body.value : body \in Bodies } |->
     LET rounds == Rounds(text, NewQuery)
     IN  { rounds[n].query : n \in DOMAIN rounds }]

(* A query whose end is lost, and which is searched all the same, is a     *)
(* front of the query that was sent: what the first of its commands make,  *)
(* each of them complete but for the last digits of the very last number:  *)
(* no list comes out shorter, and no effect without its points.            *)
CutQueryIsAFront ==
  \A c \in Connections :
    Answered(c) /\ response[c].is = "result" =>
      \E front \in Fronts[request[c].body.value] :
        \/ response[c].query = front
        \/ OneNumberCut(response[c].query, front)

(* Every record that a POST was given is deleted.                          *)
RecordsAreFreed ==
  \A c \in Connections : con_cls[c] # None ~> con_cls[c] = None
=============================================================================
