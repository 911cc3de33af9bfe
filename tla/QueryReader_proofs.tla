------------------------- MODULE QueryReader_proofs -------------------------
(***************************************************************************)
(* Theorems about the two programs that call the query reader again and    *)
(* again: the HTTP server, once for every request (PostServer), and the    *)
(* driver of the regression queries, once for every file (Regression).     *)
(*                                                                         *)
(* PostServer: for any bodies, any number of connections and requests, and *)
(* calls of EntryPoint interleaved in any way.  The invariant says for each*)
(* phase of a request what its record is.  Of a POST that is arriving, the *)
(* query is the first piece if the key asks for one, and the post processor*)
(* is in error just when a piece has come.  For that no piece may be empty,*)
(* or the next one would be taken for the first.                           *)
(*                                                                         *)
(* Regression: however many query files are read into one Query object,    *)
(* whatever their texts, what stays of one in the next is avoid_negative   *)
(* and nothing else.  The invariant is that reader and fresh are twins:    *)
(* readers that may differ in query.avoid_negative only.  No test of the   *)
(* parser looks at that member, so every primitive of a reader, every      *)
(* command, and the loop of Parse take twins to twins.                     *)
(*                                                                         *)
(* The last part is about what Parse makes of the first piece of a text,   *)
(* wherever the text is cut.  A reader of the piece and one of the whole   *)
(* text are a pair that reads the same, up to the end of the piece or the  *)
(* lexeme that was cut.  From there the first one fails, or it has no more *)
(* to read, and its query is the one that the other has in that round, but *)
(* for a number that was cut.                                              *)
(***************************************************************************)
EXTENDS PostServer, Regression, RecursionLemmas, SequenceTheorems, TLAPS

(* What can arrive of a body at once.                                      *)
Pieces == { text \in Texts : text # <<>> }

TypeOK ==
  /\ request \in [Connections -> [method : {"none", "GET", "PUT", "POST"},
                                  body : Bodies \union {NoBody}]]
  /\ pieces \in [Connections -> Seq(Pieces)]
  /\ first \in [Connections -> Texts \union {<<>>}]
  /\ phase \in [Connections -> {"idle", "sent", "post", "reply", "refused"}]
  /\ DOMAIN con_cls = Connections
  /\ DOMAIN response = Connections
  /\ running \in BOOLEAN

(* What a request has brought of its query.                                *)
Brought(c) == IF request[c].body.key = "query" THEN first[c] ELSE <<>>

Answer(c) ==
  IF request[c].body.key = "query" THEN GenerateResponse(first[c]) ELSE NoQuery

(* The record of a POST, of which error tells that a piece has come.       *)
HasRecord(c) ==
  /\ DOMAIN con_cls[c] = DOMAIN Info
  /\ con_cls[c].is = "info"
  /\ con_cls[c].query_cache = Brought(c)
  /\ con_cls[c].error <=> first[c] # <<>>

(* A POST while its body arrives, and when it is answered.                 *)
Arriving(c) == request[c].method = "POST" /\ HasRecord(c)
Answering(c) ==
  /\ HasRecord(c)
  /\ con_cls[c].buffer = response[c]
  /\ response[c] = Answer(c)

(* A connection without a POST has no record.                              *)
RecordOK(c) ==
  /\ phase[c] = "post" => Arriving(c)
  /\ Answered(c) => Answering(c)
  /\ phase[c] # "post" /\ ~Answered(c) => con_cls[c] = None

(* Nothing has arrived before the post processor is made.                  *)
NothingArrived(c) == phase[c] \in {"idle", "sent"} => first[c] = <<>>

IInv == TypeOK /\ \A c \in Connections : RecordOK(c) /\ NothingArrived(c)

-----------------------------------------------------------------------------
(* No piece that a text is cut into is empty.                              *)
LEMMA CutsAreTwo ==
  ASSUME NEW S, NEW text \in Seq(S), NEW cut \in Cuts(text)
  PROVE  \E a, b : cut = <<a, b>> /\ a # <<>> /\ b # <<>>
<1>1. CASE \E n \in 1 .. Len(text) - 1 :
             cut = <<SubSeq(text, 1, n), SubSeq(text, n + 1, Len(text))>>
  <2>1. PICK n \in 1 .. Len(text) - 1 :
               cut = <<SubSeq(text, 1, n), SubSeq(text, n + 1, Len(text))>>
    BY <1>1
  <2>2. /\ Len(SubSeq(text, 1, n)) = n
        /\ Len(SubSeq(text, n + 1, Len(text))) = Len(text) - n
    BY SubSeqProperties, LenProperties, ElementOfSeq
  <2>3. n > 0 /\ Len(text) - n > 0 /\ Len(<<>>) = 0
    BY LenProperties
  <2>4. QED
    BY <2>1, <2>2, <2>3
<1>2. CASE \E n \in DOMAIN text : \E x \in CutLexeme(text[n]) :
             cut = <<Append(SubSeq(text, 1, n - 1), x[1]),
                     <<x[2]>> \o SubSeq(text, n + 1, Len(text))>>
  <2>0. PICK n \in DOMAIN text :
               \E x \in CutLexeme(text[n]) :
                 cut = <<Append(SubSeq(text, 1, n - 1), x[1]),
                         <<x[2]>> \o SubSeq(text, n + 1, Len(text))>>
    BY <1>2
  <2>1. PICK x \in CutLexeme(text[n]) :
               cut = <<Append(SubSeq(text, 1, n - 1), x[1]),
                       <<x[2]>> \o SubSeq(text, n + 1, Len(text))>>
    BY <2>0
  <2> DEFINE T == S \union {x[1], x[2]}
             before == SubSeq(text, 1, n - 1)
             behind == SubSeq(text, n + 1, Len(text))
  <2>2. n \in 1 .. Len(text) /\ Len(text) \in Nat
    BY LenProperties
  <2>3. before \in Seq(T) /\ behind \in Seq(T)
    BY <2>2, SubSeqProperties, ElementOfSeq
  <2>4. Append(before, x[1]) # <<>>
    <3>1. x[1] \in T
      OBVIOUS
    <3> HIDE DEF before, T
    <3>2. QED
      BY <2>3, <3>1, AppendProperties
  <2>5. <<x[2]>> \o behind # <<>>
    <3>1. <<x[2]>> \in Seq(T) /\ Len(<<x[2]>>) = 1
      OBVIOUS
    <3>2. Len(<<x[2]>> \o behind) = 1 + Len(behind)
      BY <2>3, <3>1, ConcatProperties
    <3>3. QED
      BY <2>3, <3>2, LenProperties
  <2>6. QED
    BY <2>1, <2>4, <2>5
<1>3. QED
  BY <1>1, <1>2 DEF Cuts

(* So what Connect chooses is a sequence of pieces.                        *)
LEMMA ArrivalsArePieces ==
  ASSUME NEW body \in Bodies, body.value # <<>>,
         NEW p \in {<<body.value>>} \union Cuts(body.value)
  PROVE  p \in Seq(Pieces)
<1>1. body.value \in Pieces
  BY DEF Pieces, Texts
<1>2. CASE p \in Cuts(body.value)
  <2>1. PICK a, b : p = <<a, b>> /\ a # <<>> /\ b # <<>>
    BY <1>2, CutsAreTwo, BodiesAssumption
  <2>2. ToSet(p) = {a, b}
    BY <2>1 DEF ToSet
  <2>3. a \in Pieces /\ b \in Pieces
    BY <1>2, <2>1, <2>2 DEF Pieces, Texts
  <2>4. QED
    BY <2>1, <2>3
<1>3. CASE p = <<body.value>>
  BY <1>1, <1>3
<1>4. QED
  BY <1>2, <1>3

-----------------------------------------------------------------------------
LEMMA InitInv == Init => IInv
BY DEF Init, IInv, TypeOK, RecordOK, NothingArrived, Answered, NoRequest, NoBody

(* The record of a connection that a step leaves alone is as good as it    *)
(* was.                                                                    *)
LEMMA OthersStay ==
  ASSUME NEW c \in Connections, RecordOK(c), NothingArrived(c),
         request'[c] = request[c], first'[c] = first[c], phase'[c] = phase[c],
         con_cls'[c] = con_cls[c], response'[c] = response[c]
  PROVE  RecordOK(c)' /\ NothingArrived(c)'
BY DEF RecordOK, NothingArrived, Arriving, Answering, Answered, Answer, Brought, HasRecord

LEMMA ConnectInv ==
  ASSUME IInv, NEW c \in Connections, NEW method \in {"GET", "PUT", "POST"},
         NEW body \in Bodies \union {NoBody},
         body \in Bodies \/ body = NoBody, Connect(c, method, body)
  PROVE  IInv'
<1> USE DEF IInv
<1>1. PICK p \in (IF body.value = <<>> THEN { <<>> }
                  ELSE {<<body.value>>} \union Cuts(body.value)) :
             pieces' = [pieces EXCEPT ![c] = p]
  BY DEF Connect
<1>2. p \in Seq(Pieces)
  <2>1. CASE body.value = <<>>
    BY <1>1, <2>1
  <2>2. CASE body.value # <<>>
    BY <1>1, <2>2, ArrivalsArePieces DEF NoBody
  <2>3. QED
    BY <2>1, <2>2
<1>3. TypeOK'
  BY <1>1, <1>2 DEF Connect, TypeOK
<1>4. ASSUME NEW d \in Connections PROVE RecordOK(d)' /\ NothingArrived(d)'
  <2>1. CASE d # c
    BY <2>1, OthersStay DEF Connect, TypeOK
  <2>2. CASE d = c
    BY <2>2 DEF Connect, TypeOK, RecordOK, NothingArrived, Answered
  <2>3. QED
    BY <2>1, <2>2
<1>5. QED
  BY <1>3, <1>4

LEMMA BeginInv ==
  ASSUME IInv, NEW c \in Connections, Begin(c)
  PROVE  IInv'
<1> USE DEF IInv
<1>1. TypeOK'
  BY DEF Begin, Queue, TypeOK, client
<1>2. ASSUME NEW d \in Connections PROVE RecordOK(d)' /\ NothingArrived(d)'
  <2>1. CASE d # c
    BY <2>1, OthersStay DEF Begin, Queue, TypeOK, client
  <2>2. CASE d = c /\ request[c].method = "POST"
    <3>1. /\ phase'[c] = "post" /\ con_cls'[c] = Info
          /\ UNCHANGED client
      BY <2>2 DEF Begin, TypeOK
    <3>2. first[c] = <<>>
      BY DEF Begin, NothingArrived
    <3>3. Arriving(c)'
      BY <2>2, <3>1, <3>2 DEF Arriving, Brought, HasRecord, Info, client
    <3>4. ~Answered(c)'
      BY <3>1 DEF Answered
    <3>5. QED
      BY <2>2, <3>1, <3>3, <3>4 DEF RecordOK, NothingArrived
  <2>3. CASE d = c /\ request[c].method # "POST"
    <3>1. /\ phase'[c] \in {"reply", "refused"} /\ UNCHANGED <<client, con_cls>>
      BY <2>3 DEF Begin, Queue, TypeOK
    <3>2. con_cls[c] = None
      BY DEF Begin, RecordOK, Answered
    <3>3. ~Answered(c)' /\ con_cls'[c] = None
      BY <2>3, <3>1, <3>2 DEF Answered, client
    <3>4. QED
      BY <2>3, <3>1, <3>3 DEF RecordOK, NothingArrived
  <2>4. QED
    BY <2>1, <2>2, <2>3
<1>3. QED
  BY <1>1, <1>2

LEMMA PostDataInv ==
  ASSUME IInv, NEW c \in Connections, PostData(c)
  PROVE  IInv'
<1> USE DEF IInv
<1>1. /\ phase[c] = "post" /\ Arriving(c)
      /\ pieces[c] \in Seq(Pieces) /\ pieces[c] # <<>>
      /\ Head(pieces[c]) \in Pieces
  BY HeadTailProperties DEF PostData, RecordOK, TypeOK
<1>2. TypeOK'
  <2>1. Tail(pieces[c]) \in Seq(Pieces)
    BY <1>1, HeadTailProperties
  <2>2. pieces' \in [Connections -> Seq(Pieces)]
    BY <2>1 DEF PostData, TypeOK
  <2>3. first' \in [Connections -> Texts \union {<<>>}]
    BY <1>1 DEF PostData, TypeOK, Pieces
  <2>4. QED
    BY <2>2, <2>3 DEF PostData, TypeOK
<1>3. HasRecord(c)'
  <2>1. CASE first[c] = <<>>
    <3>1. first'[c] = Head(pieces[c]) /\ Head(pieces[c]) # <<>>
      BY <1>1, <2>1 DEF PostData, TypeOK, Pieces
    <3>2. con_cls'[c] = ProcessKeyValue(con_cls[c], request[c].body.key,
                                        Head(pieces[c]))
      BY <1>1, <2>1 DEF PostData, TypeOK, Arriving, HasRecord
    <3>3. con_cls[c].query_cache = <<>>
      BY <1>1, <2>1 DEF Arriving, HasRecord, Brought
    <3>4. /\ DOMAIN con_cls'[c] = DOMAIN con_cls[c]
          /\ con_cls'[c].is = "info" /\ con_cls'[c].error
          /\ con_cls'[c].query_cache = IF request[c].body.key = "query"
                                       THEN Head(pieces[c]) ELSE <<>>
      BY <1>1, <3>2, <3>3 DEF ProcessKeyValue, Arriving, HasRecord, Info
    <3>5. QED
      BY <1>1, <3>1, <3>4 DEF PostData, Arriving, HasRecord, Brought
  <2>2. CASE first[c] # <<>>
    <3>1. first'[c] = first[c] /\ con_cls'[c] = con_cls[c]
      BY <1>1, <2>2 DEF PostData, TypeOK, Arriving, HasRecord
    <3>2. QED
      BY <1>1, <3>1 DEF PostData, Arriving, HasRecord, Brought
  <2>3. QED
    BY <2>1, <2>2
<1>4. ASSUME NEW d \in Connections PROVE RecordOK(d)' /\ NothingArrived(d)'
  <2>1. CASE d # c
    BY <2>1, OthersStay DEF PostData, TypeOK
  <2>2. CASE d = c
    BY <1>1, <1>3, <2>2 DEF PostData, RecordOK, NothingArrived, Answered, Arriving
  <2>3. QED
    BY <2>1, <2>2
<1>5. QED
  BY <1>2, <1>4

(* An answer is generated from what the record holds of the query.         *)
LEMMA GeneratedFromBrought ==
  ASSUME NEW c
  PROVE  GenerateResponse(Brought(c)) = Answer(c)
BY DEF GenerateResponse, Brought, Answer

LEMMA PostEndInv ==
  ASSUME IInv, NEW c \in Connections, PostEnd(c)
  PROVE  IInv'
<1> USE DEF IInv
<1>1. TypeOK'
  BY DEF PostEnd, HandleRequest, Queue, TypeOK, client
<1>2. Arriving(c)
  BY DEF PostEnd, RecordOK
<1>3. /\ response'[c] = GenerateResponse(con_cls[c].query_cache)
      /\ phase'[c] = "reply"
      /\ con_cls'[c] = [con_cls[c] EXCEPT !.buffer = response'[c]]
      /\ UNCHANGED client
  BY DEF PostEnd, HandleRequest, Queue, TypeOK
<1>4. response'[c] = Answer(c)
  BY <1>2, <1>3, GeneratedFromBrought DEF Arriving, HasRecord
<1>5. Answering(c)'
  BY <1>2, <1>3, <1>4 DEF Arriving, Answering, HasRecord, Answer, Brought, Info, client
<1>6. ASSUME NEW d \in Connections PROVE RecordOK(d)' /\ NothingArrived(d)'
  <2>1. CASE d # c
    BY <2>1, OthersStay DEF PostEnd, HandleRequest, Queue, TypeOK, client
  <2>2. CASE d = c
    <3>1. Answered(c)'
      BY <1>2, <1>3 DEF Answered, Arriving, client
    <3>2. QED
      BY <1>3, <1>5, <2>2, <3>1 DEF RecordOK, NothingArrived
  <2>3. QED
    BY <2>1, <2>2
<1>7. QED
  BY <1>1, <1>6

(* The end of the requests of some connections, with their records.        *)
LEMMA ForgetInv ==
  ASSUME IInv, NEW cs \in SUBSET Connections, Forget(cs),
         con_cls' = [c \in Connections |-> IF c \in cs THEN None ELSE con_cls[c]],
         running' \in BOOLEAN
  PROVE  IInv'
<1> USE DEF IInv
<1>1. TypeOK'
  BY DEF Forget, TypeOK, NoRequest
<1>2. ASSUME NEW d \in Connections PROVE RecordOK(d)' /\ NothingArrived(d)'
  <2>1. CASE d \notin cs
    BY <2>1, OthersStay DEF Forget
  <2>2. CASE d \in cs
    BY <2>2 DEF Forget, RecordOK, NothingArrived, Answered
  <2>3. QED
    BY <2>1, <2>2
<1>3. QED
  BY <1>1, <1>2

LEMMA StepInv == IInv /\ [Next]_vars => IInv'
<1> SUFFICES ASSUME IInv, [Next]_vars PROVE IInv'
  OBVIOUS
<1>1. ASSUME NEW c \in Connections, NEW body \in Bodies, Connect(c, "POST", body)
      PROVE  IInv'
  BY <1>1, ConnectInv
<1>2. ASSUME NEW c \in Connections, NEW method \in {"GET", "PUT"},
             Connect(c, method, NoBody)
      PROVE  IInv'
  BY <1>2, ConnectInv
<1>3. ASSUME NEW c \in Connections, PostAborts(c) PROVE IInv'
  <2>1. con_cls' = [d \in Connections |-> IF d \in Connections THEN None ELSE con_cls[d]]
    BY <1>3 DEF PostAborts
  <2>2. QED
    BY <1>3, <2>1, ForgetInv DEF PostAborts
<1>4. ASSUME NEW c \in Connections, Complete(c) PROVE IInv'
  <2>1. con_cls' = [d \in Connections |-> IF d \in {c} THEN None ELSE con_cls[d]]
    BY <1>4 DEF Complete, RequestComplete, IInv, TypeOK
  <2>2. running' \in BOOLEAN /\ Forget({c})
    BY <1>4 DEF Complete, IInv, TypeOK
  <2>3. QED
    BY <2>1, <2>2, ForgetInv
<1>5. CASE UNCHANGED vars
  BY <1>5 DEF vars, IInv, TypeOK, RecordOK, NothingArrived, Answered, Arriving,
              Answering, Answer, Brought, HasRecord
<1>6. QED
  BY <1>1, <1>2, <1>3, <1>4, <1>5, BeginInv, PostDataInv, PostEndInv DEF Next, Serve

LEMMA Invariance == Spec => []IInv
BY InitInv, StepInv, PTL DEF Spec

-----------------------------------------------------------------------------
(* The records of micro_http_server.h are of their types, and pieces and   *)
(* first piece are parts of bodies, none of the pieces empty.              *)
THEOREM TypeCorrect == Spec => []TypeOK
<1>1. IInv => TypeOK
  BY DEF IInv
<1>2. QED
  BY <1>1, Invariance, PTL

(* GenerateResponse and ProcessKeyValue: however the calls of EntryPoint   *)
(* for several connections are interleaved, and whatever comes after the   *)
(* first piece, the answer is for the request's own query as far as the    *)
(* first piece brought it.                                                 *)
THEOREM AnswersAreTheirOwn == Spec => []AnswerIsItsOwn
<1>1. IInv => AnswerIsItsOwn
  BY DEF IInv, AnswerIsItsOwn, RecordOK, Answering, Answer
<1>2. QED
  BY <1>1, Invariance, PTL

(* HandleRequest: what libmicrohttpd sends from is still in the buffer of  *)
(* the handler as long as the request is not complete.                     *)
THEOREM ResponsesAreHeld == Spec => []ResponseIsHeld
<1>1. ASSUME IInv, NEW c \in Connections, Answered(c)
      PROVE  con_cls[c].buffer = response[c]
  <2>1. Answering(c)
    BY <1>1 DEF IInv, RecordOK
  <2>2. QED
    BY <2>1 DEF Answering
<1>2. IInv => ResponseIsHeld
  BY <1>1 DEF ResponseIsHeld
<1>3. QED
  BY <1>2, Invariance, PTL

(* Every record belongs to a POST that is under way: EntryPoint makes none *)
(* for another method, and RequestComplete leaves none behind.             *)
RecordsHaveRequests ==
  \A c \in Connections :
    con_cls[c] # None => phase[c] \in {"post", "reply"} /\ request[c].method = "POST"

THEOREM NoRecordIsLeftBehind == Spec => []RecordsHaveRequests
<1>1. IInv => RecordsHaveRequests
  BY DEF IInv, RecordsHaveRequests, RecordOK, Arriving, Answered
<1>2. QED
  BY <1>1, Invariance, PTL

-----------------------------------------------------------------------------
(* r, with all its members, and b for avoid_negative.                      *)
With(r, b) ==
  [text |-> r.text, pos |-> r.pos, token |-> r.token, nums |-> r.nums,
   status |-> r.status,
   query |-> [effects |-> r.query.effects, amulets |-> r.query.amulets,
              defense |-> r.query.defense, max_results |-> r.query.max_results,
              avoid_negative |-> b, armor_filter |-> r.query.armor_filter,
              jewel_filter |-> r.query.jewel_filter]]

Twins(r, f) ==
  /\ r = With(r, r.query.avoid_negative)
  /\ f = With(r, f.query.avoid_negative)

-----------------------------------------------------------------------------
(* Twins look the same to every test of the parser.                        *)
LEMMA TwinsLook ==
  ASSUME NEW r, NEW f, Twins(r, f)
  PROVE  /\ Reading(r) = Reading(f)
         /\ AtEnd(r) = AtEnd(f)
         /\ Token(r) = Token(f)
         /\ r.text = f.text /\ r.pos = f.pos /\ r.status = f.status
         /\ r.token = f.token /\ r.nums = f.nums
         /\ r.query.effects = f.query.effects
         /\ r.query.amulets = f.query.amulets
         /\ r.query.armor_filter = f.query.armor_filter
         /\ r.query.jewel_filter = f.query.jewel_filter
  BY DEF Twins, With, Reading, AtEnd, Token

(* Storing one and the same value in a member of both keeps twins twins.   *)
LEMMA TwinsStore ==
  ASSUME NEW r, NEW f, Twins(r, f), NEW x
  PROVE  /\ Twins([r EXCEPT !.pos = x],
                  [f EXCEPT !.pos = x])
         /\ Twins([r EXCEPT !.token = x],
                  [f EXCEPT !.token = x])
         /\ Twins([r EXCEPT !.nums = x],
                  [f EXCEPT !.nums = x])
         /\ Twins([r EXCEPT !.query.effects = x],
                  [f EXCEPT !.query.effects = x])
         /\ Twins([r EXCEPT !.query.amulets = x],
                  [f EXCEPT !.query.amulets = x])
         /\ Twins([r EXCEPT !.query.defense = x],
                  [f EXCEPT !.query.defense = x])
         /\ Twins([r EXCEPT !.query.max_results = x],
                  [f EXCEPT !.query.max_results = x])
         /\ Twins([r EXCEPT !.query.avoid_negative = x],
                  [f EXCEPT !.query.avoid_negative = x])
         /\ Twins([r EXCEPT !.query.armor_filter.weapon_slots = x],
                  [f EXCEPT !.query.armor_filter.weapon_slots = x])
         /\ Twins([r EXCEPT !.query.armor_filter.min_rare = x],
                  [f EXCEPT !.query.armor_filter.min_rare = x])
         /\ Twins([r EXCEPT !.query.armor_filter.max_rare = x],
                  [f EXCEPT !.query.armor_filter.max_rare = x])
         /\ Twins([r EXCEPT !.query.armor_filter.weapon_type = x],
                  [f EXCEPT !.query.armor_filter.weapon_type = x])
         /\ Twins([r EXCEPT !.query.armor_filter.gender = x],
                  [f EXCEPT !.query.armor_filter.gender = x])
         /\ Twins([r EXCEPT !.query.armor_filter.blacklist = x],
                  [f EXCEPT !.query.armor_filter.blacklist = x])
         /\ Twins([r EXCEPT !.query.armor_filter.whitelist = x],
                  [f EXCEPT !.query.armor_filter.whitelist = x])
         /\ Twins([r EXCEPT !.query.jewel_filter.blacklist = x],
                  [f EXCEPT !.query.jewel_filter.blacklist = x])
<1>1. Twins([r EXCEPT !.pos = x],
            [f EXCEPT !.pos = x])
  BY DEF Twins, With
<1>2. Twins([r EXCEPT !.token = x],
            [f EXCEPT !.token = x])
  BY DEF Twins, With
<1>3. Twins([r EXCEPT !.nums = x],
            [f EXCEPT !.nums = x])
  BY DEF Twins, With
<1>4. Twins([r EXCEPT !.query.effects = x],
            [f EXCEPT !.query.effects = x])
  BY DEF Twins, With
<1>5. Twins([r EXCEPT !.query.amulets = x],
            [f EXCEPT !.query.amulets = x])
  BY DEF Twins, With
<1>6. Twins([r EXCEPT !.query.defense = x],
            [f EXCEPT !.query.defense = x])
  BY DEF Twins, With
<1>7. Twins([r EXCEPT !.query.max_results = x],
            [f EXCEPT !.query.max_results = x])
  BY DEF Twins, With
<1>8. Twins([r EXCEPT !.query.avoid_negative = x],
            [f EXCEPT !.query.avoid_negative = x])
  BY DEF Twins, With
<1>9. Twins([r EXCEPT !.query.armor_filter.weapon_slots = x],
            [f EXCEPT !.query.armor_filter.weapon_slots = x])
  BY DEF Twins, With
<1>10. Twins([r EXCEPT !.query.armor_filter.min_rare = x],
             [f EXCEPT !.query.armor_filter.min_rare = x])
  BY DEF Twins, With
<1>11. Twins([r EXCEPT !.query.armor_filter.max_rare = x],
             [f EXCEPT !.query.armor_filter.max_rare = x])
  BY DEF Twins, With
<1>12. Twins([r EXCEPT !.query.armor_filter.weapon_type = x],
             [f EXCEPT !.query.armor_filter.weapon_type = x])
  BY DEF Twins, With
<1>13. Twins([r EXCEPT !.query.armor_filter.gender = x],
             [f EXCEPT !.query.armor_filter.gender = x])
  BY DEF Twins, With
<1>14. Twins([r EXCEPT !.query.armor_filter.blacklist = x],
             [f EXCEPT !.query.armor_filter.blacklist = x])
  BY DEF Twins, With
<1>15. Twins([r EXCEPT !.query.armor_filter.whitelist = x],
             [f EXCEPT !.query.armor_filter.whitelist = x])
  BY DEF Twins, With
<1>16. Twins([r EXCEPT !.query.jewel_filter.blacklist = x],
             [f EXCEPT !.query.jewel_filter.blacklist = x])
  BY DEF Twins, With
<1> QED
  BY <1>1, <1>2, <1>3, <1>4, <1>5, <1>6, <1>7, <1>8,
     <1>9, <1>10, <1>11, <1>12, <1>13, <1>14, <1>15, <1>16

(* So does moving on in the text, or giving up.                            *)
LEMMA TwinsMove ==
  ASSUME NEW r, NEW f, Twins(r, f)
  PROVE  /\ Twins(Take(r), Take(f))
         /\ Twins(Fail(r), Fail(f))
         /\ Twins(Abort(r), Abort(f))
         /\ Twins([r EXCEPT !.status = "SUCCESS"], [f EXCEPT !.status = "SUCCESS"])
<1>1. Token(r) = Token(f) /\ r.pos = f.pos
  BY TwinsLook
<1> DEFINE p == IF Token(r) = Invalid THEN r.pos ELSE r.pos + 1
           x == Token(r)
           one(s) == [s EXCEPT !.pos = p]
           two(s) == [one(s) EXCEPT !.token = x]
<1>2. Take(r) = two(r) /\ Take(f) = two(f)
  BY <1>1 DEF Take
<1> HIDE DEF p, x
<1>3. Twins(one(r), one(f))
  BY TwinsStore
<1> HIDE DEF one
<1>4. Twins(two(r), two(f))
  BY <1>3, TwinsStore
<1> HIDE DEF two
<1>5. /\ Twins(Fail(r), Fail(f))
      /\ Twins(Abort(r), Abort(f))
      /\ Twins([r EXCEPT !.status = "SUCCESS"], [f EXCEPT !.status = "SUCCESS"])
  BY DEF Twins, With, Fail, Abort
<1> QED BY <1>2, <1>4, <1>5

-----------------------------------------------------------------------------
(* A token that is expected takes twins to twins.                          *)
LEMMA TwinsExpect ==
  ASSUME NEW r, NEW f, Twins(r, f), NEW name
  PROVE  Twins(Expect(r, name), Expect(f, name))
<1>1. /\ Reading(f) = Reading(r) /\ AtEnd(f) = AtEnd(r) /\ Token(f) = Token(r)
  BY TwinsLook
<1>2. /\ Twins(Take(r), Take(f)) /\ Twins(Fail(r), Fail(f))
      /\ Twins(Abort(r), Abort(f))
  BY TwinsMove
<1>3. Twins(Fail(Take(r)), Fail(Take(f)))
  BY <1>2, TwinsMove
<1> QED BY <1>1, <1>2, <1>3 DEF Expect

(* A number.                                                               *)
LEMMA TwinsInt ==
  ASSUME NEW r, NEW f, Twins(r, f)
  PROVE  Twins(ReadInt(r), ReadInt(f))
<1>1. /\ Reading(f) = Reading(r) /\ AtEnd(f) = AtEnd(r) /\ Token(f) = Token(r)
  BY TwinsLook
<1>2. /\ Twins(Abort(r), Abort(f))
      /\ Twins(Expect(r, "NUMBER"), Expect(f, "NUMBER"))
  BY TwinsMove, TwinsExpect
<1> QED BY <1>1, <1>2 DEF ReadInt

(* A word out of a few.                                                    *)
LEMMA TwinsChoice ==
  ASSUME NEW r, NEW f, Twins(r, f), NEW words
  PROVE  Twins(ReadChoice(r, words), ReadChoice(f, words))
<1>1. Twins(Expect(r, "STRING"), Expect(f, "STRING"))
  BY TwinsExpect
<1> QED BY <1>1, TwinsLook, TwinsMove DEF ReadChoice

(* So does a list: the same numbers follow in the text of both.            *)
LEMMA TwinsList ==
  ASSUME NEW r, NEW f, Twins(r, f)
  PROVE  Twins(ReadList(r), ReadList(f))
<1> DEFINE end == Min(Stops(r))
           At(s) == [s EXCEPT !.pos = end + 1, !.token = Close, !.nums = Items(r, end)]
           Outcome(s) == IF ~Reading(r) THEN s
                         ELSE IF AtEnd(r) THEN Abort(s)
                         ELSE IF Token(r) = Nil THEN [Take(s) EXCEPT !.nums = <<>>]
                         ELSE IF Token(r) # Open \/ Stops(r) = {} THEN Abort(s)
                         ELSE IF r.text[end] # Close THEN Abort(s)
                         ELSE At(s)
<1>1. /\ Reading(f) = Reading(r) /\ AtEnd(f) = AtEnd(r) /\ Token(f) = Token(r)
      /\ f.text = r.text /\ f.pos = r.pos
  BY TwinsLook
<1>2. Stops(f) = Stops(r) /\ Items(f, end) = Items(r, end)
  BY <1>1 DEF Stops, Items
<1>3. ReadList(r) = Outcome(r) /\ ReadList(f) = Outcome(f)
  BY <1>1, <1>2 DEF ReadList
<1>4. Twins([Take(r) EXCEPT !.nums = <<>>], [Take(f) EXCEPT !.nums = <<>>])
  BY TwinsMove, TwinsStore
<1>5. Twins(At(r), At(f))
  <2> DEFINE items == Items(r, end)
  <2> HIDE DEF end, items
  <2> DEFINE one(s) == [s EXCEPT !.pos = end + 1]
             two(s) == [one(s) EXCEPT !.token = Close]
             three(s) == [two(s) EXCEPT !.nums = items]
  <2>1. Twins(one(r), one(f))
    BY TwinsStore
  <2>2. Twins(two(r), two(f))
    BY <2>1, TwinsStore
  <2>3. Twins(three(r), three(f))
    BY <2>2, TwinsStore
  <2> QED BY <2>3 DEF items
<1>6. Twins(Abort(r), Abort(f))
  BY TwinsMove
<1> HIDE DEF end, At
<1>7. Twins(Outcome(r), Outcome(f))
  BY <1>4, <1>5, <1>6
<1> QED BY <1>3, <1>7

-----------------------------------------------------------------------------
(* The command :avoid-negative, which writes before it reads, takes twins  *)
(* to twins: it writes the same to both.                                   *)
LEMMA TwinsBool ==
  ASSUME NEW r, NEW f, Twins(r, f)
  PROVE  Twins(ReadBool(r), ReadBool(f))
<1> DEFINE No(s) == [s EXCEPT !.query.avoid_negative = FALSE]
           Yes(s) == [Take(No(s)) EXCEPT !.query.avoid_negative = TRUE]
<1>1. Twins(No(r), No(f))
  BY TwinsStore
<1>2. Twins(Yes(r), Yes(f))
  BY <1>1, TwinsMove, TwinsStore
<1>3. \A s : ReadBool(s) = IF AtEnd(No(s)) THEN Fail(No(s))
                           ELSE IF Token(No(s)) = Broken THEN Abort(No(s))
                           ELSE IF Token(No(s)) = True THEN Yes(s)
                           ELSE IF Token(No(s)) = Nil THEN Take(No(s))
                           ELSE Fail(Take(No(s)))
  BY DEF ReadBool
<1> HIDE DEF No, Yes
<1> QED BY <1>1, <1>2, <1>3, TwinsLook, TwinsMove

(* The command :skill takes twins to twins.                                *)
LEMMA TwinsSkill ==
  ASSUME NEW r, NEW f, Twins(r, f)
  PROVE  Twins(ReadSkill(r), ReadSkill(f))
<1> DEFINE s(x) == ReadInt(x)
           t(x) == ReadInt(s(x))
           e == Append(t(r).query.effects,
                       [id |-> Skills[s(r).token.number], points |-> t(r).token.number])
           Outcome(x) == IF ~Reading(t(r)) THEN t(x)
                         ELSE IF s(r).token.number \notin DOMAIN Skills THEN Abort(t(x))
                         ELSE [t(x) EXCEPT !.query.effects = e]
<1>1. Twins(s(r), s(f)) /\ Twins(t(r), t(f))
  BY TwinsInt
<1>2. /\ Reading(t(f)) = Reading(t(r)) /\ s(f).token = s(r).token
      /\ t(f).token = t(r).token /\ t(f).query.effects = t(r).query.effects
  BY <1>1, TwinsLook
<1>3. ReadSkill(r) = Outcome(r) /\ ReadSkill(f) = Outcome(f)
  BY <1>2 DEF ReadSkill
<1> HIDE DEF s, t, e
<1>4. /\ Twins(Abort(t(r)), Abort(t(f)))
      /\ Twins([t(r) EXCEPT !.query.effects = e], [t(f) EXCEPT !.query.effects = e])
  BY <1>1, TwinsMove, TwinsStore
<1>5. Twins(Outcome(r), Outcome(f))
  BY <1>1, <1>4
<1> QED BY <1>3, <1>5

(* The command :amulet, a number and a list, takes twins to twins.         *)
LEMMA TwinsAmulet ==
  ASSUME NEW r, NEW f, Twins(r, f)
  PROVE  Twins(ReadAmulet(r), ReadAmulet(f))
<1> DEFINE s(x) == ReadInt(x)
           t(x) == ReadList(s(x))
           Unknown(nums) == \E n \in 1 .. Len(nums) \div 2 :
                              nums[2 * n - 1] \notin DOMAIN Skills
           a == Append(t(r).query.amulets,
                       [slots |-> s(r).token.number, effects |-> PairUp(t(r).nums)])
           Outcome(x) == IF ~Reading(t(r)) THEN t(x)
                         ELSE IF Unknown(t(r).nums) THEN Abort(t(x))
                         ELSE [t(x) EXCEPT !.query.amulets = a]
<1>1. Twins(s(r), s(f)) /\ Twins(t(r), t(f))
  BY TwinsInt, TwinsList
<1>2. /\ Reading(t(f)) = Reading(t(r)) /\ s(f).token = s(r).token
      /\ t(f).nums = t(r).nums /\ t(f).query.amulets = t(r).query.amulets
  BY <1>1, TwinsLook
<1>3. ReadAmulet(r) = Outcome(r) /\ ReadAmulet(f) = Outcome(f)
  BY <1>2 DEF ReadAmulet
<1> HIDE DEF s, t, a, Unknown
<1>4. /\ Twins(Abort(t(r)), Abort(t(f)))
      /\ Twins([t(r) EXCEPT !.query.amulets = a], [t(f) EXCEPT !.query.amulets = a])
  BY <1>1, TwinsMove, TwinsStore
<1>5. Twins(Outcome(r), Outcome(f))
  BY <1>1, <1>4
<1> QED BY <1>3, <1>5

-----------------------------------------------------------------------------
(* The argument of the other commands is read by twins alike.              *)
LEMMA TwinsArgument ==
  ASSUME NEW r, NEW f, Twins(r, f), NEW word
  PROVE  Twins(ReadArgument(r, word), ReadArgument(f, word))
  BY TwinsMove, TwinsInt, TwinsChoice, TwinsList DEF ReadArgument

(* The words of the commands that store their argument.                    *)
Plain == {"defense", "max-results", "weapon-slots", "rare", "max-rare", "weapon-type",
          "gender", "blacklist", "specify-armor", "ban-jewels"}

(* Twins store the same argument in the same member.                       *)
LEMMA TwinsPlain ==
  ASSUME NEW r, NEW f, Twins(r, f), NEW word \in Plain
  PROVE  Twins(Store(r, word), Store(f, word))
<1>1. /\ f.token = r.token /\ f.nums = r.nums
      /\ f.query.armor_filter = r.query.armor_filter
      /\ f.query.jewel_filter = r.query.jewel_filter
  BY TwinsLook
<1>2. CASE word \in {"defense", "max-results", "weapon-slots", "rare", "max-rare"}
  BY <1>1, <1>2, TwinsStore DEF Store
<1>3. CASE word \in {"weapon-type", "gender"}
  BY <1>1, <1>3, TwinsStore DEF Store
<1>4. CASE word = "blacklist"
  <2> DEFINE x == r.query.armor_filter.blacklist \union Known(Armors, r.nums)
  <2>1. /\ Store(r, word) = [r EXCEPT !.query.armor_filter.blacklist = x]
        /\ Store(f, word) = [f EXCEPT !.query.armor_filter.blacklist = x]
    BY <1>1, <1>4 DEF Store
  <2> HIDE DEF x
  <2>2. Twins([r EXCEPT !.query.armor_filter.blacklist = x],
              [f EXCEPT !.query.armor_filter.blacklist = x])
    BY TwinsStore
  <2> QED BY <2>1, <2>2
<1>5. CASE word = "specify-armor"
  <2> DEFINE x == r.query.armor_filter.whitelist \union Known(Armors, r.nums)
  <2>1. /\ Store(r, word) = [r EXCEPT !.query.armor_filter.whitelist = x]
        /\ Store(f, word) = [f EXCEPT !.query.armor_filter.whitelist = x]
    BY <1>1, <1>5 DEF Store
  <2> HIDE DEF x
  <2>2. Twins([r EXCEPT !.query.armor_filter.whitelist = x],
              [f EXCEPT !.query.armor_filter.whitelist = x])
    BY TwinsStore
  <2> QED BY <2>1, <2>2
<1>6. CASE word = "ban-jewels"
  <2> DEFINE x == r.query.jewel_filter.blacklist \union Known(Jewels, r.nums)
  <2>1. /\ Store(r, word) = [r EXCEPT !.query.jewel_filter.blacklist = x]
        /\ Store(f, word) = [f EXCEPT !.query.jewel_filter.blacklist = x]
    BY <1>1, <1>6 DEF Store
  <2> HIDE DEF x
  <2>2. Twins([r EXCEPT !.query.jewel_filter.blacklist = x],
              [f EXCEPT !.query.jewel_filter.blacklist = x])
    BY TwinsStore
  <2> QED BY <2>1, <2>2
<1> QED BY <1>2, <1>3, <1>4, <1>5, <1>6 DEF Plain

(* Every command, and what is none, takes twins to twins.                  *)
LEMMA TwinsCommand ==
  ASSUME NEW r, NEW f, Twins(r, f), NEW word
  PROVE  Twins(ReadCommand(r, word), ReadCommand(f, word))
<1>1. CASE word = "skill"
  BY <1>1, TwinsSkill DEF ReadCommand
<1>2. CASE word = "amulet"
  BY <1>2, TwinsAmulet DEF ReadCommand
<1>3. CASE word = "avoid-negative"
  BY <1>3, TwinsBool DEF ReadCommand
<1>4. CASE word \notin {"skill", "amulet", "avoid-negative"}
  <2> DEFINE s(x) == ReadArgument(x, word)
             Outcome(x) == IF Reading(s(r)) THEN Store(s(x), word) ELSE s(x)
  <2>1. Twins(s(r), s(f))
    BY TwinsArgument
  <2>2. Reading(s(f)) = Reading(s(r))
    BY <2>1, TwinsLook
  <2>3. ReadCommand(r, word) = Outcome(r) /\ ReadCommand(f, word) = Outcome(f)
    BY <1>4, <2>2 DEF ReadCommand
  <2>4. CASE word \in Plain
    BY <2>1, <2>3, <2>4, TwinsPlain
  <2>5. CASE word \notin Plain
    <3>1. s(r) = Fail(r) /\ s(f) = Fail(f)
      BY <2>5 DEF ReadArgument, Plain
    <3>2. ~Reading(s(r))
      BY <3>1 DEF Twins, With, Fail, Reading
    <3> QED BY <2>1, <2>3, <3>2
  <2> QED BY <2>4, <2>5
<1> QED BY <1>1, <1>2, <1>3, <1>4

(* The ignored end of a command takes twins to twins.                      *)
LEMMA TwinsClose ==
  ASSUME NEW r, NEW f, Twins(r, f)
  PROVE  Twins(CloseCommand(r), CloseCommand(f))
<1>1. CASE ~Reading(r) \/ AtEnd(r)
  BY <1>1, TwinsLook DEF CloseCommand
<1>2. CASE Reading(r) /\ ~AtEnd(r) /\ Token(r) = Broken
  BY <1>2, TwinsLook, TwinsMove DEF CloseCommand
<1>3. CASE Reading(r) /\ ~AtEnd(r) /\ Token(r) # Broken
  BY <1>3, TwinsLook, TwinsMove DEF CloseCommand
<1> QED BY <1>1, <1>2, <1>3

(* A round of the loop of Parse takes twins to twins.                      *)
LEMMA TwinsReadOne ==
  ASSUME NEW r, NEW f, Twins(r, f)
  PROVE  Twins(ReadOne(r), ReadOne(f))
<1> DEFINE s(x) == Expect(Expect(x, "OPEN_PARENTHESIS"), "KEYWORD")
           Command(x) == CloseCommand(ReadCommand(s(x), s(r).token.word))
           Outcome(x) == IF ~Reading(r) THEN x
                         ELSE IF AtEnd(r) THEN [x EXCEPT !.status = "SUCCESS"]
                         ELSE IF ~Reading(s(r)) THEN s(x)
                         ELSE Command(x)
<1>1. Twins(s(r), s(f))
  BY TwinsExpect
<1>2. /\ Reading(f) = Reading(r) /\ AtEnd(f) = AtEnd(r)
      /\ Reading(s(f)) = Reading(s(r)) /\ s(f).token = s(r).token
  BY <1>1, TwinsLook
<1>3. ReadOne(r) = Outcome(r) /\ ReadOne(f) = Outcome(f)
  BY <1>2 DEF ReadOne
<1> HIDE DEF s
<1>4. Twins(Command(r), Command(f))
  BY <1>1, TwinsCommand, TwinsClose
<1> HIDE DEF Command
<1>5. Twins(Outcome(r), Outcome(f))
  BY <1>1, <1>4, TwinsMove
<1> QED BY <1>3, <1>5

-----------------------------------------------------------------------------
(* Twins at the start, after Clear, and in every step of the driver.       *)
LEMMA TwinsAlways == RegressionSpec => []Twins(reader, fresh)
<1>1. RegressionInit => Twins(reader, fresh)
  <2> SUFFICES ASSUME RegressionInit PROVE Twins(reader, fresh)
    OBVIOUS
  <2>1. reader = [text |-> <<>>, pos |-> 1, token |-> Invalid, nums |-> <<>>,
                  query |-> NewQuery, status |-> "READING"]
    BY DEF RegressionInit, Start
  <2>2. fresh = reader
    BY DEF RegressionInit
  <2> QED BY <2>1, <2>2 DEF NewQuery, Twins, With
<1>2. Twins(reader, fresh) /\ [RegressionNext]_regression_vars => Twins(reader, fresh)'
  <2> SUFFICES ASSUME Twins(reader, fresh), [RegressionNext]_regression_vars
               PROVE  Twins(reader', fresh')
    BY DEF Twins, With
  <2>1. ASSUME NEW text \in Files, ParseFile(text)
        PROVE  Twins(reader', fresh')
    BY <2>1 DEF ParseFile, Start, Clear, NewQuery, Twins, With
  <2>2. CASE ParseOne
    BY <2>2, TwinsReadOne DEF ParseOne
  <2>3. CASE Search
    BY <2>3 DEF Search
  <2>4. CASE UNCHANGED regression_vars
    BY <2>4 DEF regression_vars
  <2> QED BY <2>1, <2>2, <2>3, <2>4 DEF RegressionNext
<1> QED BY <1>1, <1>2, PTL DEF RegressionSpec

(* For all texts of all query files, any number of them, and all tables of *)
(* ids: Clear lets nothing of an earlier file through but avoid_negative.  *)
THEOREM NothingElseStays == RegressionSpec => []OnlyAvoidNegativeStays
<1>1. Twins(reader, fresh) => OnlyAvoidNegativeStays
  <2> SUFFICES ASSUME Twins(reader, fresh) PROVE OnlyAvoidNegativeStays
    OBVIOUS
  <2>1. Twins(Besides(reader), Besides(fresh))
    BY TwinsStore DEF Besides
  <2>2. /\ Besides(reader).query.avoid_negative = FALSE
        /\ Besides(fresh).query.avoid_negative = FALSE
    BY DEF Besides, Twins, With
  <2> QED BY <2>1, <2>2 DEF Twins, OnlyAvoidNegativeStays
<1> QED BY <1>1, TwinsAlways, PTL

-----------------------------------------------------------------------------
(* A finite sequence of any values.                                        *)
IsList(s) == s \in Seq(ToSet(s))

(* The list u begins with the list s.                                      *)
Begins(s, u) ==
  /\ IsList(s) /\ IsList(u)
  /\ Len(s) <= Len(u)
  /\ \A i \in 1 .. Len(s) : s[i] = u[i]

(* A reader with all its members.                                          *)
Formed(r) ==
  /\ r = With(r, r.query.avoid_negative)
  /\ r.pos \in Nat /\ r.pos >= 1
  /\ IsList(r.query.effects)
  /\ DOMAIN r.query.armor_filter = DOMAIN NoFilter

(* s is a reader that r can have become.                                   *)
Later(r, s) == Formed(r) /\ Formed(s) /\ s.text = r.text

(* A sequence of any values is a list.                                     *)
LEMMA ListOfAny ==
  ASSUME NEW S, NEW s \in Seq(S)
  PROVE  IsList(s)
<1>1. Len(s) \in Nat /\ s \in [1 .. Len(s) -> S] /\ DOMAIN s = 1 .. Len(s)
  BY LenProperties
<1>2. s \in [1 .. Len(s) -> ToSet(s)]
  BY <1>1 DEF ToSet
<1> QED BY <1>1, <1>2, SeqDef DEF IsList

(* Append makes a list one longer and leaves what was in it.               *)
LEMMA ListAppend ==
  ASSUME NEW s, NEW x, IsList(s)
  PROVE  /\ Begins(s, Append(s, x))
         /\ Len(Append(s, x)) = Len(s) + 1 /\ Append(s, x)[Len(s) + 1] = x
         /\ Len(s) \in Nat
<1> DEFINE T == ToSet(s) \union {x}
<1>1. s \in Seq(T)
  BY SeqMonotonic DEF IsList
<1>2. x \in T
  OBVIOUS
<1> HIDE DEF T
<1>3. /\ Append(s, x) \in Seq(T) /\ Len(Append(s, x)) = Len(s) + 1
      /\ \A i \in 1 .. Len(s) : Append(s, x)[i] = s[i]
      /\ Append(s, x)[Len(s) + 1] = x
  BY <1>1, <1>2, AppendProperties
<1>4. IsList(Append(s, x))
  BY <1>3, ListOfAny
<1>5. Len(s) \in Nat
  BY <1>1, LenProperties
<1> QED BY <1>3, <1>4, <1>5 DEF Begins

(* A reader is where it is.                                                *)
LEMMA LaterItself ==
  ASSUME NEW r, Formed(r)
  PROVE  Later(r, r)
BY DEF Later

(* Two steps of a parse are a parse.                                       *)
LEMMA LaterGoesOn ==
  ASSUME NEW r, NEW s, NEW t, Later(r, s), Later(s, t)
  PROVE  Later(r, t)
BY DEF Later

(* What a parse stores in a reader.                                        *)
LEMMA LaterStore ==
  ASSUME NEW r, Formed(r), NEW x
  PROVE  /\ x \in Nat /\ x >= 1 => Later(r, [r EXCEPT !.pos = x])
         /\ Later(r, [r EXCEPT !.token = x])
         /\ Later(r, [r EXCEPT !.nums = x])
         /\ Later(r, [r EXCEPT !.status = x])
         /\ Later(r, [r EXCEPT !.query.effects = Append(r.query.effects, x)])
         /\ Later(r, [r EXCEPT !.query.amulets = Append(r.query.amulets, x)])
         /\ Later(r, [r EXCEPT !.query.defense = x])
         /\ Later(r, [r EXCEPT !.query.max_results = x])
         /\ Later(r, [r EXCEPT !.query.avoid_negative = x])
         /\ Later(r, [r EXCEPT !.query.jewel_filter.blacklist = x])
<1>1. ASSUME x \in Nat, x >= 1
      PROVE  Later(r, [r EXCEPT !.pos = x])
  BY <1>1 DEF Formed, Later, With
<1>2. /\ Later(r, [r EXCEPT !.token = x]) /\ Later(r, [r EXCEPT !.nums = x])
      /\ Later(r, [r EXCEPT !.status = x])
  BY DEF Formed, Later, With
<1>3. Later(r, [r EXCEPT !.query.effects = Append(r.query.effects, x)])
  <2> DEFINE y == Append(r.query.effects, x)
  <2>1. IsList(y)
    BY ListAppend DEF Formed, Begins
  <2> HIDE DEF y
  <2>2. Later(r, [r EXCEPT !.query.effects = y])
    BY <2>1 DEF Formed, Later, With
  <2> QED BY <2>2 DEF y
<1>4. Later(r, [r EXCEPT !.query.amulets = Append(r.query.amulets, x)])
  <2> DEFINE y == Append(r.query.amulets, x)
  <2> HIDE DEF y
  <2>1. Later(r, [r EXCEPT !.query.amulets = y])
    BY DEF Formed, Later, With
  <2> QED BY <2>1 DEF y
<1>5. /\ Later(r, [r EXCEPT !.query.defense = x])
      /\ Later(r, [r EXCEPT !.query.max_results = x])
  BY DEF Formed, Later, With
<1>6. /\ Later(r, [r EXCEPT !.query.avoid_negative = x])
      /\ Later(r, [r EXCEPT !.query.jewel_filter.blacklist = x])
  BY DEF Formed, Later, With
<1> QED BY <1>1, <1>2, <1>3, <1>4, <1>5, <1>6

(* And in the filter of the armors.                                        *)
LEMMA LaterFilter ==
  ASSUME NEW r, Formed(r), NEW x
  PROVE  /\ Later(r, [r EXCEPT !.query.armor_filter.weapon_slots = x])
         /\ Later(r, [r EXCEPT !.query.armor_filter.min_rare = x])
         /\ Later(r, [r EXCEPT !.query.armor_filter.max_rare = x])
         /\ Later(r, [r EXCEPT !.query.armor_filter.weapon_type = x])
         /\ Later(r, [r EXCEPT !.query.armor_filter.gender = x])
         /\ Later(r, [r EXCEPT !.query.armor_filter.whitelist = x])
         /\ Later(r, [r EXCEPT !.query.armor_filter.blacklist = x])
<1> DEFINE F == r.query.armor_filter
           Put(g) == [r EXCEPT !.query.armor_filter = g]
<1>2. ASSUME NEW g, DOMAIN g = DOMAIN NoFilter
      PROVE  Later(r, Put(g))
  BY <1>2 DEF Formed, Later, With
<1>3. DOMAIN F = DOMAIN NoFilter
  BY DEF Formed
<1>4. /\ [r EXCEPT !.query.armor_filter.weapon_slots = x] = Put([F EXCEPT !.weapon_slots = x])
      /\ [r EXCEPT !.query.armor_filter.min_rare = x] = Put([F EXCEPT !.min_rare = x])
      /\ [r EXCEPT !.query.armor_filter.max_rare = x] = Put([F EXCEPT !.max_rare = x])
      /\ [r EXCEPT !.query.armor_filter.weapon_type = x] = Put([F EXCEPT !.weapon_type = x])
      /\ [r EXCEPT !.query.armor_filter.gender = x] = Put([F EXCEPT !.gender = x])
      /\ [r EXCEPT !.query.armor_filter.whitelist = x] = Put([F EXCEPT !.whitelist = x])
      /\ [r EXCEPT !.query.armor_filter.blacklist = x] = Put([F EXCEPT !.blacklist = x])
  BY DEF Formed, With
<1>5. /\ DOMAIN [F EXCEPT !.weapon_slots = x] = DOMAIN F
      /\ DOMAIN [F EXCEPT !.min_rare = x] = DOMAIN F
      /\ DOMAIN [F EXCEPT !.max_rare = x] = DOMAIN F
      /\ DOMAIN [F EXCEPT !.weapon_type = x] = DOMAIN F
      /\ DOMAIN [F EXCEPT !.gender = x] = DOMAIN F
      /\ DOMAIN [F EXCEPT !.whitelist = x] = DOMAIN F
      /\ DOMAIN [F EXCEPT !.blacklist = x] = DOMAIN F
  OBVIOUS
<1> HIDE DEF F
<1> HIDE DEF Put
<1>6. /\ Later(r, Put([F EXCEPT !.weapon_slots = x]))
      /\ Later(r, Put([F EXCEPT !.min_rare = x]))
      /\ Later(r, Put([F EXCEPT !.max_rare = x]))
      /\ Later(r, Put([F EXCEPT !.weapon_type = x]))
      /\ Later(r, Put([F EXCEPT !.gender = x]))
      /\ Later(r, Put([F EXCEPT !.whitelist = x]))
      /\ Later(r, Put([F EXCEPT !.blacklist = x]))
  BY <1>2, <1>3, <1>5
<1> QED BY <1>4, <1>6 DEF F

-----------------------------------------------------------------------------
(* Moving on in the text, and giving up.                                   *)
LEMMA LaterMove ==
  ASSUME NEW r, Formed(r)
  PROVE  /\ Later(r, Take(r)) /\ Later(r, Fail(r)) /\ Later(r, Abort(r))
         /\ Later(r, [r EXCEPT !.status = "SUCCESS"])
<1> DEFINE p == IF Token(r) = Invalid THEN r.pos ELSE r.pos + 1
           x == Token(r)
           one == [r EXCEPT !.pos = p]
           two == [one EXCEPT !.token = x]
<1>1. Take(r) = two
  BY DEF Take
<1>2. p \in Nat /\ p >= 1
  BY DEF Formed
<1> HIDE DEF p, x
<1>3. Later(r, one)
  BY <1>2, LaterStore
<1> HIDE DEF one
<1>4. Later(one, two)
  BY <1>3, LaterStore DEF Later
<1> HIDE DEF two
<1>5. Later(r, two)
  BY <1>3, <1>4, LaterGoesOn
<1> QED BY <1>1, <1>5, LaterStore DEF Fail, Abort

(* A token that is expected, and a number, leave the query alone.          *)
LEMMA LaterExpect ==
  ASSUME NEW r, Formed(r), NEW name
  PROVE  Later(r, Expect(r, name))
<1>1. Later(r, Fail(Take(r)))
  BY LaterMove, LaterGoesOn DEF Later
<1> QED BY <1>1, LaterItself, LaterMove DEF Expect

(* So does a number.                                                       *)
LEMMA LaterInt ==
  ASSUME NEW r, Formed(r)
  PROVE  Later(r, ReadInt(r))
BY LaterExpect, LaterMove DEF ReadInt

(* So does a word out of a few.                                            *)
LEMMA LaterChoice ==
  ASSUME NEW r, Formed(r), NEW words
  PROVE  Later(r, ReadChoice(r, words))
<1>1. Later(r, Expect(r, "STRING"))
  BY LaterExpect
<1>2. Later(r, Fail(Expect(r, "STRING")))
  BY <1>1, LaterMove, LaterGoesOn DEF Later
<1> QED BY <1>1, <1>2 DEF ReadChoice

(* The end of a list lies behind its beginning.                            *)
LEMMA EndOfList ==
  ASSUME NEW r, Formed(r), Stops(r) # {}
  PROVE  /\ Min(Stops(r)) \in Stops(r)
         /\ \A p \in Stops(r) : Min(Stops(r)) <= p
         /\ Min(Stops(r)) \in Nat /\ Min(Stops(r)) > r.pos
<1>1. Stops(r) \subseteq Nat
  BY DEF Stops, Formed
<1>2. PICK m \in Stops(r) : \A p \in Stops(r) : m <= p
  <2> DEFINE less == OpToRel(<, Nat)
  <2>1. IsWellFoundedOn(less, Nat)
    BY NatLessThanWellFounded
  <2>2. PICK m \in Stops(r) : \A p \in Stops(r) : ~ (<<p, m>> \in less)
    BY <1>1, <2>1, WFMin
  <2>3. ASSUME NEW p \in Stops(r), ~ (m <= p) PROVE FALSE
    <3>1. p \in Nat /\ m \in Nat /\ p < m
      BY <1>1, <2>3
    <3>2. <<p, m>> \in less
      BY <3>1 DEF OpToRel
    <3> QED BY <2>2, <3>2
  <2> QED BY <2>3
<1>3. Min(Stops(r)) \in Stops(r) /\ \A p \in Stops(r) : Min(Stops(r)) <= p
  BY <1>2 DEF Min
<1> QED BY <1>1, <1>3 DEF Stops, Formed

(* And a list.                                                             *)
LEMMA LaterList ==
  ASSUME NEW r, Formed(r)
  PROVE  Later(r, ReadList(r))
<1> DEFINE end == Min(Stops(r))
           items == Items(r, end)
           nil == [Take(r) EXCEPT !.nums = <<>>]
           one == [r EXCEPT !.pos = end + 1]
           two == [one EXCEPT !.token = Close]
           three == [two EXCEPT !.nums = items]
<1>1. Later(r, nil)
  <2> DEFINE s == Take(r)
  <2>1. Later(r, s) /\ Formed(s)
    BY LaterMove DEF Later
  <2> HIDE DEF s
  <2>2. Later(s, [s EXCEPT !.nums = <<>>])
    BY <2>1, LaterStore
  <2>3. Later(r, [s EXCEPT !.nums = <<>>])
    BY <2>1, <2>2, LaterGoesOn
  <2> QED BY <2>3 DEF s
<1>2. ASSUME Stops(r) # {}
      PROVE  Later(r, three)
  <2>1. end + 1 \in Nat /\ end + 1 >= 1
    BY <1>2, EndOfList
  <2> HIDE DEF end, items
  <2>2. Later(r, one)
    BY <2>1, LaterStore
  <2> HIDE DEF one
  <2>3. Later(one, two)
    BY <2>2, LaterStore DEF Later
  <2> HIDE DEF two
  <2>4. Later(two, three)
    BY <2>3, LaterStore DEF Later
  <2> QED BY <2>2, <2>3, <2>4, LaterGoesOn
<1>3. ReadList(r) = IF ~Reading(r) THEN r
                    ELSE IF AtEnd(r) THEN Abort(r)
                    ELSE IF Token(r) = Nil THEN nil
                    ELSE IF Token(r) # Open \/ Stops(r) = {} THEN Abort(r)
                    ELSE IF r.text[end] # Close THEN Abort(r)
                    ELSE three
  BY DEF ReadList
<1> HIDE DEF nil, three, end
<1> QED BY <1>1, <1>2, <1>3, LaterItself, LaterMove

(* All commands keep a reader complete: :avoid-negative,                   *)
LEMMA LaterBool ==
  ASSUME NEW r, Formed(r)
  PROVE  Later(r, ReadBool(r))
<1> DEFINE no == [r EXCEPT !.query.avoid_negative = FALSE]
           yes == [Take(no) EXCEPT !.query.avoid_negative = TRUE]
<1>1. ReadBool(r) = IF AtEnd(no) THEN Fail(no)
                    ELSE IF Token(no) = Broken THEN Abort(no)
                    ELSE IF Token(no) = True THEN yes
                    ELSE IF Token(no) = Nil THEN Take(no)
                    ELSE Fail(Take(no))
  BY DEF ReadBool
<1>2. Later(r, no)
  BY LaterStore
<1> HIDE DEF no
<1>3. /\ Later(r, Take(no)) /\ Later(r, Fail(no)) /\ Later(r, Abort(no))
  BY <1>2, LaterMove, LaterGoesOn DEF Later
<1>4. Later(r, yes)
  <2> DEFINE s == Take(no)
  <2>1. Later(r, s) /\ Formed(s)
    BY <1>3 DEF Later
  <2> HIDE DEF s
  <2>2. Later(s, [s EXCEPT !.query.avoid_negative = TRUE])
    BY <2>1, LaterStore
  <2>3. Later(r, [s EXCEPT !.query.avoid_negative = TRUE])
    BY <2>1, <2>2, LaterGoesOn
  <2> QED BY <2>3 DEF s
<1>5. Later(r, Fail(Take(no)))
  BY <1>3, LaterMove, LaterGoesOn DEF Later
<1> HIDE DEF yes
<1> QED BY <1>1, <1>3, <1>4, <1>5

(* :skill,                                                                 *)
LEMMA LaterSkill ==
  ASSUME NEW r, Formed(r)
  PROVE  Later(r, ReadSkill(r))
<1> DEFINE s == ReadInt(r)
           t == ReadInt(s)
           x == [id |-> Skills[s.token.number], points |-> t.token.number]
           u == [t EXCEPT !.query.effects = Append(t.query.effects, x)]
<1>1. ReadSkill(r) = IF ~Reading(t) THEN t
                     ELSE IF s.token.number \notin DOMAIN Skills THEN Abort(t)
                     ELSE u
  BY DEF ReadSkill
<1>2. Later(r, t)
  BY LaterInt, LaterGoesOn DEF Later
<1> HIDE DEF s, t, x
<1>3. Formed(t)
  BY <1>2 DEF Later
<1>4. Later(t, Abort(t)) /\ Later(t, u)
  BY <1>3, LaterMove, LaterStore
<1>5. Later(r, Abort(t)) /\ Later(r, u)
  BY <1>2, <1>4, LaterGoesOn
<1> HIDE DEF u
<1> QED BY <1>1, <1>2, <1>5

(* :amulet,                                                                *)
LEMMA LaterAmulet ==
  ASSUME NEW r, Formed(r)
  PROVE  Later(r, ReadAmulet(r))
<1> DEFINE s == ReadInt(r)
           t == ReadList(s)
           unknown == \E n \in 1 .. Len(t.nums) \div 2 : t.nums[2 * n - 1] \notin DOMAIN Skills
           x == [slots |-> s.token.number, effects |-> PairUp(t.nums)]
           u == [t EXCEPT !.query.amulets = Append(t.query.amulets, x)]
<1>1. ReadAmulet(r) = IF ~Reading(t) THEN t ELSE IF unknown THEN Abort(t) ELSE u
  BY DEF ReadAmulet
<1>2. Later(r, t)
  BY LaterInt, LaterList, LaterGoesOn DEF Later
<1> HIDE DEF s, t, x, unknown
<1>3. Formed(t)
  BY <1>2 DEF Later
<1>4. Later(t, Abort(t)) /\ Later(t, u)
  BY <1>3, LaterMove, LaterStore
<1>5. Later(r, Abort(t)) /\ Later(r, u)
  BY <1>2, <1>4, LaterGoesOn
<1> HIDE DEF u
<1> QED BY <1>1, <1>2, <1>5

(* those that store one argument,                                          *)
LEMMA LaterPlain ==
  ASSUME NEW r, Formed(r), NEW word \in Plain
  PROVE  Later(r, Store(r, word))
<1>1. CASE word \in {"defense", "max-results"}
  BY <1>1, LaterStore DEF Store
<1>2. CASE word \in {"weapon-slots", "rare", "max-rare", "weapon-type", "gender"}
  BY <1>2, LaterFilter DEF Store
<1>3. CASE word = "blacklist"
  <2> DEFINE x == r.query.armor_filter.blacklist \union Known(Armors, r.nums)
  <2>1. Store(r, word) = [r EXCEPT !.query.armor_filter.blacklist = x]
    BY <1>3 DEF Store
  <2> HIDE DEF x
  <2>2. Later(r, [r EXCEPT !.query.armor_filter.blacklist = x])
    BY LaterFilter
  <2> QED BY <2>1, <2>2
<1>4. CASE word = "specify-armor"
  <2> DEFINE x == r.query.armor_filter.whitelist \union Known(Armors, r.nums)
  <2>1. Store(r, word) = [r EXCEPT !.query.armor_filter.whitelist = x]
    BY <1>4 DEF Store
  <2> HIDE DEF x
  <2>3. Later(r, [r EXCEPT !.query.armor_filter.whitelist = x])
    BY LaterFilter
  <2> QED BY <2>1, <2>3
<1>5. CASE word = "ban-jewels"
  <2> DEFINE x == r.query.jewel_filter.blacklist \union Known(Jewels, r.nums)
  <2>1. Store(r, word) = [r EXCEPT !.query.jewel_filter.blacklist = x]
    BY <1>5 DEF Store
  <2> HIDE DEF x
  <2>3. Later(r, [r EXCEPT !.query.jewel_filter.blacklist = x])
    BY LaterStore
  <2> QED BY <2>1, <2>3
<1> QED BY <1>1, <1>2, <1>3, <1>4, <1>5 DEF Plain

(* An argument is read, or the command is none.                            *)
LEMMA LaterArgument ==
  ASSUME NEW r, Formed(r), NEW word
  PROVE  /\ Later(r, ReadArgument(r, word))
         /\ word \notin Plain => ReadArgument(r, word) = Fail(r)
BY LaterInt, LaterChoice, LaterList, LaterMove DEF ReadArgument, Plain

(* and so every command, and what is none.                                 *)
LEMMA LaterCommand ==
  ASSUME NEW r, Formed(r), NEW word
  PROVE  Later(r, ReadCommand(r, word))
<1>1. CASE word \in {"skill", "amulet", "avoid-negative"}
  BY <1>1, LaterSkill, LaterAmulet, LaterBool DEF ReadCommand
<1>2. CASE word \notin {"skill", "amulet", "avoid-negative"}
  <2> DEFINE s == ReadArgument(r, word)
  <2>1. ReadCommand(r, word) = IF Reading(s) THEN Store(s, word) ELSE s
    BY <1>2 DEF ReadCommand
  <2>2. Later(r, s)
    BY LaterArgument
  <2>3. CASE word \in Plain
    <3> HIDE DEF s
    <3>1. Later(s, Store(s, word))
      BY <2>2, <2>3, LaterPlain DEF Later
    <3> QED BY <2>1, <2>2, <3>1, LaterGoesOn
  <2>4. CASE word \notin Plain
    <3>1. ~Reading(s)
      BY <2>4, LaterArgument DEF Fail, Reading, Formed, With
    <3> QED BY <2>1, <2>2, <3>1
  <2> QED BY <2>3, <2>4
<1> QED BY <1>1, <1>2

(* The ignored end of a command, and a round of the loop.                  *)
LEMMA LaterClose ==
  ASSUME NEW r, Formed(r)
  PROVE  Later(r, CloseCommand(r))
BY LaterItself, LaterMove DEF CloseCommand

(* One round of the loop of Parse.                                         *)
LEMMA LaterReadOne ==
  ASSUME NEW r, Formed(r)
  PROVE  Later(r, ReadOne(r))
<1> DEFINE s == Expect(Expect(r, "OPEN_PARENTHESIS"), "KEYWORD")
           c == ReadCommand(s, s.token.word)
<1>1. ReadOne(r) = IF ~Reading(r) THEN r
                   ELSE IF AtEnd(r) THEN [r EXCEPT !.status = "SUCCESS"]
                   ELSE IF ~Reading(s) THEN s
                   ELSE CloseCommand(c)
  BY DEF ReadOne
<1>2. Later(r, s)
  BY LaterExpect, LaterGoesOn DEF Later
<1> HIDE DEF s
<1>3. Later(s, c)
  BY <1>2, LaterCommand DEF Later
<1> HIDE DEF c
<1>4. Later(c, CloseCommand(c))
  BY <1>3, LaterClose DEF Later
<1>5. Later(r, CloseCommand(c))
  BY <1>2, <1>3, <1>4, LaterGoesOn
<1> QED BY <1>1, <1>2, <1>5, LaterItself, LaterMove

-----------------------------------------------------------------------------
(* The lexeme x is what a cut leaves of y.                                 *)
CutAs(x, y) ==
  \/ x \in {Minus, Broken}
  \/ y.name = "NUMBER" /\ \E n \in Shorter(y.number) : x = Number(n)
  \/ y.name = "KEYWORD" /\ x = Keyword(Fragment)
  \/ y.name = "STRING" /\ x = String(Fragment)

(* The text p is the first piece of t: its last lexeme may be cut.         *)
FrontOf(p, t) ==
  /\ IsList(p) /\ IsList(t)
  /\ Len(p) <= Len(t)
  /\ \A i \in 1 .. Len(p) : p[i] = t[i] \/ (i = Len(p) /\ CutAs(p[i], t[i]))

(* The reader w of the whole text is where the reader r of its first piece *)
(* is, and has read the same.                                              *)
Pair(r, w) ==
  Formed(r) /\ w = [r EXCEPT !.text = w.text] /\ FrontOf(r.text, w.text)

(* The parse has failed or ended the process.                              *)
Lost(r) == r.status \in {"FAIL", "ABORT"}

(* Each has just read the lexeme at which the text was cut.                *)
AtCut(r, w) ==
  /\ Formed(r) /\ Formed(w) /\ Reading(r) /\ Reading(w) /\ AtEnd(r)
  /\ w.query = r.query /\ CutAs(r.token, w.token)

(* The lexeme is a number.                                                 *)
CutInt(r, w) == AtCut(r, w) /\ r.token.number \in Shorter(w.token.number)

(* They look the same but for their texts.                                 *)
LEMMA PairLook ==
  ASSUME NEW r, NEW w, Pair(r, w)
  PROVE  /\ Formed(r) /\ Formed(w)
         /\ w.pos = r.pos /\ w.token = r.token /\ w.nums = r.nums
         /\ w.query = r.query /\ w.status = r.status
         /\ Reading(w) = Reading(r)
BY DEF Pair, Formed, With, Reading

(* The next token of the piece is that of the text, or the one that was    *)
(* cut, which is its last.                                                 *)
LEMMA PairToken ==
  ASSUME NEW r, NEW w, Pair(r, w), ~AtEnd(r)
  PROVE  /\ ~AtEnd(w)
         /\ \/ Token(w) = Token(r)
            \/ CutAs(Token(r), Token(w)) /\ r.pos = Len(r.text)
<1>1. Len(r.text) \in Nat /\ Len(w.text) \in Nat /\ Len(r.text) <= Len(w.text)
  BY LenProperties DEF Pair, FrontOf, IsList
<1>2. w.pos = r.pos /\ r.pos \in 1 .. Len(r.text)
  BY <1>1, PairLook DEF Formed, AtEnd
<1> QED BY <1>1, <1>2 DEF Pair, FrontOf, AtEnd, Token

(* The same can be stored in both.                                         *)
LEMMA PairStore ==
  ASSUME NEW r, NEW w, Pair(r, w), NEW x
  PROVE  /\ x \in Nat /\ x >= 1 => Pair([r EXCEPT !.pos = x], [w EXCEPT !.pos = x])
         /\ Pair([r EXCEPT !.token = x], [w EXCEPT !.token = x])
         /\ Pair([r EXCEPT !.nums = x], [w EXCEPT !.nums = x])
         /\ Pair([r EXCEPT !.status = x], [w EXCEPT !.status = x])
         /\ Formed([r EXCEPT !.query = x]) =>
              Pair([r EXCEPT !.query = x], [w EXCEPT !.query = x])
<1>0. Formed(r)
  BY DEF Pair
<1>1. ASSUME x \in Nat, x >= 1 PROVE Pair([r EXCEPT !.pos = x], [w EXCEPT !.pos = x])
  <2>1. Formed([r EXCEPT !.pos = x])
    BY <1>0, <1>1, LaterStore DEF Later
  <2> QED BY <2>1 DEF Pair, Formed, With
<1>2. Pair([r EXCEPT !.token = x], [w EXCEPT !.token = x])
  <2>1. Formed([r EXCEPT !.token = x])
    BY <1>0, LaterStore DEF Later
  <2> QED BY <2>1 DEF Pair, Formed, With
<1>3. Pair([r EXCEPT !.nums = x], [w EXCEPT !.nums = x])
  <2>1. Formed([r EXCEPT !.nums = x])
    BY <1>0, LaterStore DEF Later
  <2> QED BY <2>1 DEF Pair, Formed, With
<1>4. Pair([r EXCEPT !.status = x], [w EXCEPT !.status = x])
  <2>1. Formed([r EXCEPT !.status = x])
    BY <1>0, LaterStore DEF Later
  <2> QED BY <2>1 DEF Pair, Formed, With
<1>5. ASSUME Formed([r EXCEPT !.query = x])
      PROVE  Pair([r EXCEPT !.query = x], [w EXCEPT !.query = x])
  BY <1>5 DEF Pair, Formed, With
<1> QED BY <1>1, <1>2, <1>3, <1>4, <1>5

(* They move on alike, as long as the token is the same.                   *)
LEMMA PairMove ==
  ASSUME NEW r, NEW w, Pair(r, w)
  PROVE  /\ Pair(Fail(r), Fail(w)) /\ Pair(Abort(r), Abort(w))
         /\ Pair([r EXCEPT !.status = "SUCCESS"], [w EXCEPT !.status = "SUCCESS"])
         /\ Token(w) = Token(r) => Pair(Take(r), Take(w))
<1>1. Pair(Fail(r), Fail(w)) /\ Pair(Abort(r), Abort(w))
  BY PairStore DEF Fail, Abort
<1>2. Pair([r EXCEPT !.status = "SUCCESS"], [w EXCEPT !.status = "SUCCESS"])
  BY PairStore
<1>3. ASSUME Token(w) = Token(r) PROVE Pair(Take(r), Take(w))
  <2> DEFINE p == IF Token(r) = Invalid THEN r.pos ELSE r.pos + 1
             x == Token(r)
             one(s) == [s EXCEPT !.pos = p]
             two(s) == [one(s) EXCEPT !.token = x]
  <2>1. Take(r) = two(r) /\ Take(w) = two(w)
    BY <1>3, PairLook DEF Take
  <2>2. p \in Nat /\ p >= 1
    BY PairLook DEF Formed
  <2> HIDE DEF p, x
  <2>3. Pair(one(r), one(w))
    BY <2>2, PairStore
  <2> HIDE DEF one
  <2>4. Pair(two(r), two(w))
    BY <2>3, PairStore
  <2> QED BY <2>1, <2>4
<1> QED BY <1>1, <1>2, <1>3

(* A parse that failed or aborted.                                         *)
LEMMA FailLost ==
  ASSUME NEW r, Formed(r)
  PROVE  Lost(Fail(r)) /\ Lost(Abort(r)) /\ ~Reading(Fail(r)) /\ ~Reading(Abort(r))
BY DEF Formed, With, Lost, Fail, Abort, Reading

(* It reads nothing more.                                                  *)
LEMMA LostStays ==
  ASSUME NEW r, Lost(r)
  PROVE  /\ ~Reading(r)
         /\ \A name : Expect(r, name) = r
         /\ ReadInt(r) = r
         /\ ReadList(r) = r
         /\ CloseCommand(r) = r
         /\ ReadOne(r) = r
<1>1. ~Reading(r)
  BY DEF Lost, Reading
<1> QED BY <1>1 DEF Expect, ReadInt, ReadList, CloseCommand, ReadOne

(* Taking the lexeme at which the text was cut.                            *)
LEMMA TakeAtCut ==
  ASSUME NEW r, NEW w, Pair(r, w), Reading(r), ~AtEnd(r),
         CutAs(Token(r), Token(w)), r.pos = Len(r.text)
  PROVE  /\ Formed(Take(r)) /\ Formed(Take(w))
         /\ Take(r).query = r.query /\ Take(w).query = r.query
         /\ Reading(Take(r)) /\ Reading(Take(w))
         /\ AtEnd(Take(r))
         /\ Take(r).token = Token(r) /\ Take(w).token = Token(w)
<1>1. Formed(Take(r)) /\ Formed(Take(w))
  BY PairLook, LaterMove DEF Later
<1>2. Token(r) # Invalid
  BY DEF CutAs, Minus, Broken, Number, Keyword, String, Invalid
<1>3. Len(r.text) \in Nat
  BY LenProperties DEF Pair, FrontOf, IsList
<1>4. AtEnd(Take(r))
  BY <1>2, <1>3 DEF Pair, Formed, With, Take, AtEnd
<1>5. \A s : Formed(s) => /\ Take(s).query = s.query /\ Take(s).status = s.status
                          /\ Take(s).token = Token(s)
  BY DEF Formed, With, Take
<1> QED BY <1>1, <1>4, <1>5, PairLook DEF Reading

(* The tokens that a parse expects by name.                                *)
Names == {"OPEN_PARENTHESIS", "KEYWORD", "NUMBER", "STRING"}

(* A token is expected in both, or the piece has an end or a cut where     *)
(* the text goes on.                                                       *)
LEMMA PairExpect ==
  ASSUME NEW r, NEW w, Pair(r, w), NEW name \in Names
  PROVE  LET s == Expect(r, name)
             u == Expect(w, name)
         IN  \/ Pair(s, u)
             \/ Lost(s)
             \/ AtCut(s, u) /\ name # "OPEN_PARENTHESIS" /\ s.token.name = name
<1>1. Formed(r) /\ Formed(w) /\ Reading(w) = Reading(r)
  BY PairLook
<1>2. CASE ~Reading(r)
  BY <1>1, <1>2 DEF Expect
<1>3. CASE Reading(r) /\ AtEnd(r)
  BY <1>1, <1>3, FailLost DEF Expect
<1>4. CASE Reading(r) /\ ~AtEnd(r) /\ Token(w) = Token(r)
  <2>1. Pair(Take(r), Take(w)) /\ Pair(Abort(r), Abort(w))
    BY <1>4, PairMove
  <2>2. Pair(Fail(Take(r)), Fail(Take(w)))
    BY <2>1, PairMove
  <2>3. ~AtEnd(w)
    BY <1>4, PairToken
  <2> QED BY <1>1, <1>4, <2>1, <2>2, <2>3 DEF Expect
<1>5. CASE /\ Reading(r) /\ ~AtEnd(r)
           /\ CutAs(Token(r), Token(w)) /\ r.pos = Len(r.text)
  <2>1. CASE Token(r) = Broken
    BY <1>1, <1>5, <2>1, FailLost DEF Expect
  <2>2. CASE Token(r) # Broken /\ Token(r).name # name
    <3>1. Expect(r, name) = Fail(Take(r))
      BY <1>5, <2>2 DEF Expect
    <3>2. Formed(Take(r))
      BY <1>5, TakeAtCut
    <3> QED BY <3>1, <3>2, FailLost
  <2>3. CASE Token(r) # Broken /\ Token(r).name = name
    <3>1. Expect(r, name) = Take(r)
      BY <1>5, <2>3 DEF Expect
    <3>2. Token(w).name = name /\ name # "OPEN_PARENTHESIS"
      BY <1>5, <2>3 DEF CutAs, Names, Minus, Number, Keyword, String
    <3>3. Token(w) # Broken
      BY <3>2 DEF Broken, Names
    <3>4. ~AtEnd(w)
      BY <1>5, PairToken
    <3>5. Expect(w, name) = Take(w)
      BY <1>1, <1>5, <3>2, <3>3, <3>4 DEF Expect
    <3>6. AtCut(Take(r), Take(w)) /\ Take(r).token.name = name
      BY <1>5, <2>3, TakeAtCut DEF AtCut
    <3> QED BY <3>1, <3>2, <3>5, <3>6
  <2> QED BY <2>1, <2>2, <2>3
<1> QED BY <1>2, <1>3, <1>4, <1>5, PairToken

(* A number may be cut and still be one.                                   *)
LEMMA PairInt ==
  ASSUME NEW r, NEW w, Pair(r, w)
  PROVE  LET s == ReadInt(r)
             u == ReadInt(w)
         IN  Pair(s, u) \/ Lost(s) \/ CutInt(s, u)
<1>1. Formed(r) /\ Formed(w) /\ Reading(w) = Reading(r)
  BY PairLook
<1>2. CASE Reading(r) /\ ~AtEnd(r) /\ Token(r) = Minus
  BY <1>1, <1>2, FailLost DEF ReadInt
<1>3. CASE ~(Reading(r) /\ ~AtEnd(r) /\ Token(r) = Minus)
  <2>1. ReadInt(r) = Expect(r, "NUMBER")
    BY <1>3 DEF ReadInt
  <2>2. "NUMBER" \in Names
    BY DEF Names
  <2>3. CASE ~(Reading(w) /\ ~AtEnd(w) /\ Token(w) = Minus)
    <3>1. ReadInt(w) = Expect(w, "NUMBER")
      BY <2>3 DEF ReadInt
    <3> DEFINE s == Expect(r, "NUMBER")
               u == Expect(w, "NUMBER")
    <3>2. Pair(s, u) \/ Lost(s) \/ (AtCut(s, u) /\ s.token.name = "NUMBER")
      BY <2>2, PairExpect
    <3> HIDE DEF s, u
    <3>3. ASSUME AtCut(s, u), s.token.name = "NUMBER" PROVE CutInt(s, u)
      <4> DEFINE x == s.token
                 y == u.token
      <4>1. CutAs(x, y) /\ x.name = "NUMBER"
        BY <3>3 DEF AtCut
      <4> HIDE DEF x, y
      <4>2. \E n \in Shorter(y.number) : x = Number(n)
        BY <4>1 DEF CutAs, Minus, Broken, Keyword, String
      <4>3. x.number \in Shorter(y.number)
        BY <4>2 DEF Number
      <4> QED BY <3>3, <4>3 DEF CutInt, x, y
    <3>4. Pair(s, u) \/ Lost(s) \/ CutInt(s, u)
      BY <3>2, <3>3
    <3> QED BY <2>1, <3>1, <3>4 DEF s, u
  <2>4. CASE Reading(w) /\ ~AtEnd(w) /\ Token(w) = Minus
    <3>1. CASE AtEnd(r)
      BY <1>1, <2>1, <2>4, <3>1, FailLost DEF Expect
    <3>2. CASE ~AtEnd(r)
      <4>1. CutAs(Token(r), Minus) /\ Token(r) # Minus
        BY <1>1, <1>3, <2>4, <3>2, PairToken
      <4>2. Token(r) = Broken
        BY <4>1 DEF CutAs, Minus
      <4> QED BY <1>1, <2>1, <2>4, <3>2, <4>2, FailLost DEF Expect
    <3> QED BY <3>1, <3>2
  <2> QED BY <2>3, <2>4
<1> QED BY <1>2, <1>3

(* A word that was cut is none of the few.                                 *)
LEMMA PairChoice ==
  ASSUME NEW r, NEW w, Pair(r, w), NEW words, Fragment \notin words
  PROVE  LET s == ReadChoice(r, words)
             u == ReadChoice(w, words)
         IN  Pair(s, u) \/ Lost(s)
<1> DEFINE s == Expect(r, "STRING")
           u == Expect(w, "STRING")
<1>1. /\ ReadChoice(r, words) = IF Reading(s) /\ s.token.word \notin words THEN Fail(s) ELSE s
      /\ ReadChoice(w, words) = IF Reading(u) /\ u.token.word \notin words THEN Fail(u) ELSE u
  BY DEF ReadChoice
<1>2. Pair(s, u) \/ Lost(s) \/ (AtCut(s, u) /\ s.token.name = "STRING")
  <2>1. "STRING" \in Names
    BY DEF Names
  <2> QED BY <2>1, PairExpect
<1> HIDE DEF s, u
<1>3. CASE Pair(s, u)
  <2>1. Reading(u) = Reading(s) /\ u.token = s.token
    BY <1>3, PairLook
  <2>2. Pair(Fail(s), Fail(u))
    BY <1>3, PairMove
  <2> QED BY <1>1, <1>3, <2>1, <2>2
<1>4. CASE Lost(s)
  BY <1>1, <1>4, LostStays
<1>5. CASE AtCut(s, u) /\ s.token.name = "STRING"
  <2> DEFINE x == s.token
             y == u.token
  <2>0. CutAs(x, y) /\ x.name = "STRING"
    BY <1>5 DEF AtCut
  <2> HIDE DEF x, y
  <2>1. x = String(Fragment)
    BY <2>0 DEF CutAs, Minus, Broken, Number, Keyword
  <2> USE DEF x
  <2>2. s.token.word = Fragment
    BY <2>1 DEF String
  <2>3. Formed(s) /\ Reading(s)
    BY <1>5 DEF AtCut
  <2> QED BY <1>1, <2>2, <2>3, FailLost
<1> QED BY <1>2, <1>3, <1>4, <1>5

-----------------------------------------------------------------------------
(* A list is read alike, or its end is not in the piece.                   *)
LEMMA PairList ==
  ASSUME NEW r, NEW w, Pair(r, w)
  PROVE  LET s == ReadList(r)
             u == ReadList(w)
         IN  Pair(s, u) \/ Lost(s)
<1>1. /\ Formed(r) /\ Formed(w) /\ Reading(w) = Reading(r) /\ w.pos = r.pos
  BY PairLook
<1>2. CASE ~Reading(r)
  BY <1>1, <1>2 DEF ReadList
<1>3. CASE Reading(r) /\ AtEnd(r)
  BY <1>1, <1>3, FailLost DEF ReadList
<1>4. CASE Reading(r) /\ ~AtEnd(r) /\ Token(r) = Nil
  <2>1. ~AtEnd(w) /\ Token(w) = Nil
    BY <1>4, PairToken DEF CutAs, Minus, Broken, Number, Keyword, String, Nil
  <2>2. ReadList(r) = [Take(r) EXCEPT !.nums = <<>>] /\ ReadList(w) = [Take(w) EXCEPT !.nums = <<>>]
    BY <1>1, <1>4, <2>1 DEF ReadList
  <2>3. Pair(Take(r), Take(w))
    BY <1>4, <2>1, PairMove
  <2>4. Pair([Take(r) EXCEPT !.nums = <<>>], [Take(w) EXCEPT !.nums = <<>>])
    BY <2>3, PairStore
  <2> QED BY <2>2, <2>4
<1> DEFINE end == Min(Stops(r))
           items == Items(r, end)
<1>5. CASE /\ Reading(r) /\ ~AtEnd(r) /\ Token(r) # Nil
           /\ ~ (Token(r) = Open /\ Stops(r) # {} /\ r.text[end] = Close)
  <2>1. ReadList(r) = Abort(r)
    BY <1>5 DEF ReadList
  <2> QED BY <1>1, <2>1, FailLost
<1>6. CASE /\ Reading(r) /\ ~AtEnd(r) /\ Token(r) # Nil
           /\ Token(r) = Open /\ Stops(r) # {} /\ r.text[end] = Close
  <2>1. /\ end \in Stops(r) /\ \A p \in Stops(r) : end <= p
        /\ end \in Nat /\ end > r.pos
    BY <1>1, <1>6, EndOfList
  <2>2. Len(r.text) \in Nat /\ Len(w.text) \in Nat /\ Len(r.text) <= Len(w.text)
    BY LenProperties DEF Pair, FrontOf, IsList
  <2>3. r.pos \in Nat /\ r.pos >= 1 /\ end \in r.pos + 1 .. Len(r.text)
    BY <1>1, <2>1 DEF Formed, Stops
  <2> HIDE DEF end
  <2>4. \A p \in 1 .. Len(r.text) : r.text[p] = w.text[p] \/ (p = Len(r.text) /\ CutAs(r.text[p], w.text[p]))
    BY DEF Pair, FrontOf
  <2>5. ~AtEnd(w) /\ Token(w) = Open
    BY <1>6, PairToken DEF CutAs, Minus, Broken, Number, Keyword, String, Open
  <2>6. w.text[end] = Close
    <3>1. end \in 1 .. Len(r.text)
      BY <2>2, <2>3
    <3>2. ~CutAs(Close, w.text[end])
      BY DEF CutAs, Minus, Broken, Number, Keyword, String, Close
    <3> QED BY <1>6, <2>4, <3>1, <3>2
  <2>7. \A p \in r.pos + 1 .. end - 1 : r.text[p] = w.text[p] /\ r.text[p].name = "NUMBER"
    <3> SUFFICES ASSUME NEW p \in r.pos + 1 .. end - 1
                 PROVE  r.text[p] = w.text[p] /\ r.text[p].name = "NUMBER"
      OBVIOUS
    <3>1. /\ p \in Nat /\ p \in 1 .. Len(r.text) /\ p # Len(r.text)
          /\ p \in r.pos + 1 .. Len(r.text) /\ p < end
      BY <2>1, <2>2, <2>3
    <3>2. r.text[p] = w.text[p]
      BY <2>4, <3>1
    <3>3. p \notin Stops(r)
      BY <2>1, <3>1
    <3> QED BY <3>1, <3>2, <3>3 DEF Stops
  <2>8. end \in Stops(w)
    <3>1. end \in w.pos + 1 .. Len(w.text)
      BY <1>1, <2>2, <2>3
    <3> QED BY <2>6, <3>1 DEF Stops, Close
  <2>9. Min(Stops(w)) = end
    <3> DEFINE m == Min(Stops(w))
    <3>1. m \in Stops(w) /\ m <= end /\ m \in Nat
      BY <1>1, <2>8, EndOfList
    <3> HIDE DEF m
    <3>2. ASSUME m < end PROVE FALSE
      <4>1. m \in r.pos + 1 .. end - 1 /\ w.text[m].name # "NUMBER"
        BY <1>1, <2>1, <2>3, <3>1, <3>2 DEF Stops
      <4> QED BY <2>7, <4>1
    <3>3. m = end
      BY <2>1, <3>1, <3>2
    <3> QED BY <3>3 DEF m
  <2>10. Items(w, end) = items
    <3>1. ASSUME NEW n \in 1 .. end - r.pos - 1
          PROVE  r.text[r.pos + n] = w.text[r.pos + n]
      <4>1. r.pos + n \in r.pos + 1 .. end - 1
        BY <2>1, <2>3
      <4> QED BY <2>7, <4>1
    <3> QED BY <1>1, <3>1 DEF Items
  <2> DEFINE At(s) == [s EXCEPT !.pos = end + 1, !.token = Close, !.nums = items]
  <2>11. ReadList(r) = At(r)
    BY <1>6 DEF ReadList, end
  <2>12. ReadList(w) = At(w)
    <3>1. Token(w) # Nil
      BY <2>5 DEF Open, Nil
    <3> QED BY <1>1, <1>6, <2>5, <2>6, <2>8, <2>9, <2>10, <3>1 DEF ReadList
  <2> HIDE DEF items
  <2> DEFINE one(s) == [s EXCEPT !.pos = end + 1]
             two(s) == [one(s) EXCEPT !.token = Close]
             three(s) == [two(s) EXCEPT !.nums = items]
  <2>13. Pair(one(r), one(w))
    <3>1. end + 1 \in Nat /\ end + 1 >= 1
      BY <2>1
    <3> QED BY <3>1, PairStore
  <2>14. Pair(two(r), two(w))
    BY <2>13, PairStore
  <2>15. Pair(three(r), three(w))
    BY <2>14, PairStore
  <2> QED BY <2>11, <2>12, <2>15
<1> QED BY <1>2, <1>3, <1>4, <1>5, <1>6

(* Behind the cut there is nothing left to read.                           *)
LEMMA CutEnds ==
  ASSUME NEW r, NEW w, AtCut(r, w)
  PROVE  Lost(ReadInt(r)) /\ Lost(ReadList(r))
<1>1. Formed(r) /\ Reading(r) /\ AtEnd(r)
  BY DEF AtCut
<1>2. ReadInt(r) = Fail(r) /\ ReadList(r) = Abort(r)
  BY <1>1 DEF ReadInt, ReadList, Expect
<1> QED BY <1>1, <1>2, FailLost

-----------------------------------------------------------------------------
(* What CutQueryIsAFront says of a query q and a front u.                  *)
AsFront(q, u) == q = u \/ OneNumberCut(q, u)

(* The reader of the piece is at its end or has ended, with the query that *)
(* the other one has.                                                      *)
Behind(r, w) ==
  /\ Formed(r) /\ Formed(w)
  /\ (Reading(r) /\ AtEnd(r)) \/ r.status = "SUCCESS"
  /\ AsFront(r.query, w.query)

(* The end of a command changes no query.                                  *)
LEMMA CloseKeeps ==
  ASSUME NEW r, Formed(r)
  PROVE  CloseCommand(r).query = r.query
<1>1. Take(r).query = r.query /\ Abort(r).query = r.query
  BY DEF Formed, With, Take, Abort
<1> QED BY <1>1 DEF CloseCommand

(* So the reader of the whole text can end the command.                    *)
LEMMA BehindCloses ==
  ASSUME NEW r, NEW w, Behind(r, w)
  PROVE  Behind(r, CloseCommand(w))
<1>1. Formed(CloseCommand(w)) /\ CloseCommand(w).query = w.query
  BY CloseKeeps, LaterClose DEF Behind, Later
<1> QED BY <1>1 DEF Behind

(* How two readers can come out of a command that they read together.      *)
Follows(r, w) == Pair(r, w) \/ Lost(r) \/ Behind(r, w)

(* What storing effects in a reader changes.                               *)
LEMMA EffectsPut ==
  ASSUME NEW r, Formed(r), NEW a
  PROVE  /\ [r EXCEPT !.query.effects = a].query = [r.query EXCEPT !.effects = a]
         /\ [r EXCEPT !.query.effects = a].query.effects = a
         /\ [r EXCEPT !.query.effects = a].status = r.status
         /\ [r EXCEPT !.query.effects = a].pos = r.pos
         /\ [r EXCEPT !.query.effects = a].text = r.text
<1>1. r = With(r, r.query.avoid_negative)
  BY DEF Formed
<1>2. /\ [r EXCEPT !.query.effects = a].query = [r.query EXCEPT !.effects = a]
      /\ [r EXCEPT !.query.effects = a].status = r.status
      /\ [r EXCEPT !.query.effects = a].pos = r.pos
      /\ [r EXCEPT !.query.effects = a].text = r.text
  BY <1>1 DEF With
<1>3. [r.query EXCEPT !.effects = a].effects = a
  BY <1>1 DEF With
<1> QED BY <1>2, <1>3

(* The effect with the points that were cut is the last one.               *)
LEMMA PairSkill ==
  ASSUME NEW r, NEW w, Pair(r, w)
  PROVE  Follows(ReadSkill(r), ReadSkill(w))
<1> DEFINE s(x) == ReadInt(x)
           t(x) == ReadInt(s(x))
           e(x) == [id |-> Skills[s(x).token.number], points |-> t(x).token.number]
           q(x) == Append(t(x).query.effects, e(x))
           More(x) == [t(x) EXCEPT !.query.effects = q(x)]
<1>1. \A x : ReadSkill(x) = IF ~Reading(t(x)) THEN t(x)
                            ELSE IF s(x).token.number \notin DOMAIN Skills THEN Abort(t(x))
                            ELSE More(x)
  BY DEF ReadSkill
<1>2. CASE Lost(s(r)) \/ CutInt(s(r), s(w))
  <2>1. Lost(t(r))
    BY <1>2, LostStays, CutEnds DEF CutInt
  <2>2. ReadSkill(r) = t(r)
    BY <1>1, <2>1, LostStays
  <2> QED BY <2>1, <2>2 DEF Follows
<1>3. CASE Pair(s(r), s(w))
  <2>1. s(w).token = s(r).token
    BY <1>3, PairLook
  <2>2. Pair(t(r), t(w)) \/ Lost(t(r)) \/ CutInt(t(r), t(w))
    BY <1>3, PairInt
  <2> HIDE DEF s, t
  <2>3. CASE Lost(t(r))
    <3>1. ReadSkill(r) = t(r)
      BY <1>1, <2>3, LostStays
    <3> QED BY <2>3, <3>1 DEF Follows
  <2>4. CASE Pair(t(r), t(w))
    <3>1. /\ t(w).query = t(r).query /\ t(w).token = t(r).token
          /\ Reading(t(w)) = Reading(t(r)) /\ Formed(t(r))
      BY <2>4, PairLook
    <3>2. e(w) = e(r)
      BY <2>1, <3>1
    <3> DEFINE x == e(r)
    <3> HIDE DEF e, x
    <3>3. Formed([t(r) EXCEPT !.query.effects = Append(t(r).query.effects, x)])
      BY <3>1, LaterStore DEF Later
    <3>4. Pair([t(r) EXCEPT !.query.effects = Append(t(r).query.effects, x)],
               [t(w) EXCEPT !.query.effects = Append(t(r).query.effects, x)])
      BY <2>4, <3>1, <3>3, PairStore
    <3>5. Pair(More(r), More(w))
      BY <3>1, <3>2, <3>4 DEF x
    <3>6. Pair(Abort(t(r)), Abort(t(w)))
      BY <2>4, PairMove
    <3> HIDE DEF More
    <3> QED BY <1>1, <2>1, <2>4, <3>1, <3>5, <3>6 DEF Follows
  <2>5. CASE CutInt(t(r), t(w)) /\ s(r).token.number \notin DOMAIN Skills
    <3>1. ReadSkill(r) = Abort(t(r)) /\ Formed(t(r))
      BY <1>1, <2>5 DEF CutInt, AtCut
    <3> QED BY <3>1, FailLost DEF Follows
  <2>6. CASE CutInt(t(r), t(w)) /\ s(r).token.number \in DOMAIN Skills
    <3>1. /\ Formed(t(r)) /\ Formed(t(w)) /\ Reading(t(r)) /\ Reading(t(w)) /\ AtEnd(t(r))
          /\ t(w).query = t(r).query /\ t(r).token.number \in Shorter(t(w).token.number)
      BY <2>6 DEF CutInt, AtCut
    <3>2. ReadSkill(r) = More(r) /\ ReadSkill(w) = More(w)
      BY <1>1, <2>1, <2>6, <3>1
    <3>3. e(r).id = e(w).id /\ e(r).points \in Shorter(e(w).points)
      BY <2>1, <3>1
    <3> HIDE DEF e
    <3> DEFINE old == t(r).query.effects
    <3>4. q(r) = Append(old, e(r)) /\ q(w) = Append(old, e(w))
      BY <3>1
    <3>5. Formed(More(r)) /\ Formed(More(w))
      BY <3>1, LaterStore DEF Later
    <3>6. /\ More(r).query.effects = q(r) /\ More(w).query.effects = q(w)
          /\ More(r).query = [More(w).query EXCEPT !.effects = q(r)]
          /\ More(r).status = t(r).status
          /\ More(r).pos = t(r).pos /\ More(r).text = t(r).text
      <4> DEFINE a == q(r)
                 b == q(w)
                 x == t(r)
                 y == t(w)
      <4>1. Formed(x) /\ Formed(y) /\ y.query = x.query
        BY <3>1
      <4>2. More(r) = [x EXCEPT !.query.effects = a] /\ More(w) = [y EXCEPT !.query.effects = b]
        OBVIOUS
      <4> HIDE DEF a, b, x, y, q, More
      <4>3. /\ More(r).query = [x.query EXCEPT !.effects = a] /\ More(r).query.effects = a
            /\ More(r).status = x.status /\ More(r).pos = x.pos /\ More(r).text = x.text
        <5>1. /\ [x EXCEPT !.query.effects = a].query = [x.query EXCEPT !.effects = a]
              /\ [x EXCEPT !.query.effects = a].query.effects = a
              /\ [x EXCEPT !.query.effects = a].status = x.status
              /\ [x EXCEPT !.query.effects = a].pos = x.pos
              /\ [x EXCEPT !.query.effects = a].text = x.text
          BY <4>1, EffectsPut
        <5> QED BY <4>2, <5>1, Zenon
      <4>4. More(w).query = [x.query EXCEPT !.effects = b] /\ More(w).query.effects = b
        <5>1. /\ [y EXCEPT !.query.effects = b].query = [y.query EXCEPT !.effects = b]
              /\ [y EXCEPT !.query.effects = b].query.effects = b
          BY <4>1, EffectsPut
        <5>2. More(w).query = [y.query EXCEPT !.effects = b] /\ More(w).query.effects = b
          BY <4>2, <5>1, Zenon
        <5> QED BY <4>1, <5>2, Zenon
      <4>5. [[x.query EXCEPT !.effects = b] EXCEPT !.effects = a]
              = [x.query EXCEPT !.effects = a]
        <5> DEFINE z == x.query
        <5> HIDE DEF z, x
        <5>1. [[z EXCEPT !.effects = b] EXCEPT !.effects = a] = [z EXCEPT !.effects = a]
          OBVIOUS
        <5> QED BY <5>1 DEF z
      <4> QED BY <4>3, <4>4, <4>5 DEF a, b, x, y
    <3>7. IsList(old)
      BY <3>1 DEF Formed
    <3> HIDE DEF q, old, More
    <3>8. /\ Begins(old, q(r)) /\ Begins(old, q(w))
          /\ Len(q(r)) = Len(old) + 1 /\ Len(q(w)) = Len(old) + 1 /\ Len(old) \in Nat
          /\ q(r)[Len(old) + 1] = e(r) /\ q(w)[Len(old) + 1] = e(w)
      BY <3>4, <3>7, ListAppend
    <3>9. DOMAIN q(w) = 1 .. Len(q(w))
      BY <3>8, LenProperties DEF Begins, IsList
    <3>10. ASSUME NEW i \in DOMAIN q(w)
           PROVE  \/ q(r)[i] = q(w)[i]
                  \/ /\ i = Len(q(w))
                     /\ q(r)[i].id = q(w)[i].id
                     /\ q(r)[i].points \in Shorter(q(w)[i].points)
      <4>1. CASE i = Len(q(w))
        BY <3>3, <3>8, <4>1
      <4>2. CASE i # Len(q(w))
        <5>1. i \in 1 .. Len(old)
          BY <3>8, <3>9, <4>2
        <5> QED BY <3>8, <5>1 DEF Begins
      <4> QED BY <4>1, <4>2
    <3>11. LastEffectCut(q(r), q(w))
      BY <3>8, <3>10 DEF LastEffectCut
    <3>12. AsFront(More(r).query, More(w).query)
      BY <3>6, <3>11 DEF AsFront, OneNumberCut
    <3>13. Reading(More(r)) /\ AtEnd(More(r))
      BY <3>1, <3>6 DEF Reading, AtEnd
    <3> QED BY <3>2, <3>5, <3>12, <3>13 DEF Follows, Behind
  <2> QED BY <2>2, <2>3, <2>4, <2>5, <2>6
<1> QED BY <1>2, <1>3, PairInt

(* An amulet is whole or not there: its list has to be closed.             *)
LEMMA PairAmulet ==
  ASSUME NEW r, NEW w, Pair(r, w)
  PROVE  Follows(ReadAmulet(r), ReadAmulet(w))
<1> DEFINE s(x) == ReadInt(x)
           t(x) == ReadList(s(x))
           Unknown(nums) == \E n \in 1 .. Len(nums) \div 2 : nums[2 * n - 1] \notin DOMAIN Skills
           a(x) == [slots |-> s(x).token.number, effects |-> PairUp(t(x).nums)]
           More(x) == [t(x) EXCEPT !.query.amulets = Append(t(x).query.amulets, a(x))]
<1>1. \A x : ReadAmulet(x) = IF ~Reading(t(x)) THEN t(x)
                             ELSE IF Unknown(t(x).nums) THEN Abort(t(x)) ELSE More(x)
  BY DEF ReadAmulet
<1>2. CASE Lost(t(r))
  <2>1. ReadAmulet(r) = t(r)
    BY <1>1, <1>2, LostStays
  <2> QED BY <1>2, <2>1 DEF Follows
<1>3. CASE Pair(s(r), s(w)) /\ Pair(t(r), t(w))
  <2>1. s(w).token = s(r).token
    BY <1>3, PairLook
  <2>2. /\ t(w).query = t(r).query /\ t(w).nums = t(r).nums
        /\ Reading(t(w)) = Reading(t(r)) /\ Formed(t(r))
    BY <1>3, PairLook
  <2> HIDE DEF s, t, Unknown
  <2>3. a(w) = a(r)
    BY <2>1, <2>2
  <2> DEFINE x == a(r)
  <2> HIDE DEF a, x
  <2>4. Formed([t(r) EXCEPT !.query.amulets = Append(t(r).query.amulets, x)])
    BY <2>2, LaterStore DEF Later
  <2>5. Pair([t(r) EXCEPT !.query.amulets = Append(t(r).query.amulets, x)],
             [t(w) EXCEPT !.query.amulets = Append(t(r).query.amulets, x)])
    BY <1>3, <2>2, <2>4, PairStore
  <2>6. Pair(More(r), More(w))
    BY <2>2, <2>3, <2>5 DEF x
  <2>7. Pair(Abort(t(r)), Abort(t(w)))
    BY <1>3, PairMove
  <2> HIDE DEF More
  <2> QED BY <1>1, <1>3, <2>2, <2>6, <2>7 DEF Follows
<1>4. Lost(t(r)) \/ (Pair(s(r), s(w)) /\ Pair(t(r), t(w)))
  <2>1. CASE Pair(s(r), s(w))
    BY <2>1, PairList
  <2>2. CASE Lost(s(r)) \/ CutInt(s(r), s(w))
    BY <2>2, LostStays, CutEnds DEF CutInt
  <2> QED BY <2>1, <2>2, PairInt
<1> QED BY <1>2, <1>3, <1>4

(* The switch :avoid-negative: a NIL that was cut is no token.             *)
LEMMA PairBool ==
  ASSUME NEW r, NEW w, Pair(r, w)
  PROVE  Follows(ReadBool(r), ReadBool(w))
<1> DEFINE No(x) == [x EXCEPT !.query.avoid_negative = FALSE]
           Yes(x) == [Take(No(x)) EXCEPT !.query.avoid_negative = TRUE]
<1>1. \A x : ReadBool(x) = IF AtEnd(No(x)) THEN Fail(No(x))
                           ELSE IF Token(No(x)) = Broken THEN Abort(No(x))
                           ELSE IF Token(No(x)) = True THEN Yes(x)
                           ELSE IF Token(No(x)) = Nil THEN Take(No(x))
                           ELSE Fail(Take(No(x)))
  BY DEF ReadBool
<1>2. Formed(r) /\ w.query = r.query
  BY PairLook
<1>3. Formed(No(r))
  BY <1>2, LaterStore DEF Later
<1>4. Pair(No(r), No(w))
  BY <1>2, <1>3, PairStore
<1> DEFINE s == No(r)
           u == No(w)
<1>5. /\ ReadBool(r) = IF AtEnd(s) THEN Fail(s)
                       ELSE IF Token(s) = Broken THEN Abort(s)
                       ELSE IF Token(s) = True THEN [Take(s) EXCEPT !.query.avoid_negative = TRUE]
                       ELSE IF Token(s) = Nil THEN Take(s)
                       ELSE Fail(Take(s))
      /\ ReadBool(w) = IF AtEnd(u) THEN Fail(u)
                       ELSE IF Token(u) = Broken THEN Abort(u)
                       ELSE IF Token(u) = True THEN [Take(u) EXCEPT !.query.avoid_negative = TRUE]
                       ELSE IF Token(u) = Nil THEN Take(u)
                       ELSE Fail(Take(u))
  BY <1>1
<1>6. Pair(s, u) /\ Formed(s)
  BY <1>3, <1>4
<1> HIDE DEF s, u, No
<1>7. CASE AtEnd(s)
  BY <1>5, <1>6, <1>7, FailLost DEF Follows
<1>8. CASE ~AtEnd(s) /\ Token(u) = Token(s)
  <2>1. Pair(Take(s), Take(u)) /\ Pair(Abort(s), Abort(u)) /\ ~AtEnd(u)
    BY <1>6, <1>8, PairMove, PairToken
  <2>2. Pair(Fail(Take(s)), Fail(Take(u)))
    BY <2>1, PairMove
  <2> DEFINE x == Take(s)
             y == Take(u)
  <2>3. Pair(x, y) /\ y.query = x.query /\ Formed(x)
    BY <2>1, PairLook
  <2> HIDE DEF x, y
  <2>4. Formed([x EXCEPT !.query.avoid_negative = TRUE])
    BY <2>3, LaterStore DEF Later
  <2>5. Pair([x EXCEPT !.query.avoid_negative = TRUE], [y EXCEPT !.query.avoid_negative = TRUE])
    BY <2>3, <2>4, PairStore
  <2> QED BY <1>5, <1>8, <2>1, <2>2, <2>5 DEF Follows, x, y
<1>9. CASE ~AtEnd(s) /\ CutAs(Token(s), Token(u))
  <2>1. Token(s) # True /\ Token(s) # Nil
    BY <1>9 DEF CutAs, Minus, Broken, Number, Keyword, String, Nil, True
  <2>2. Formed(Take(s))
    BY <1>6, LaterMove DEF Later
  <2> QED BY <1>5, <1>6, <1>9, <2>1, <2>2, FailLost DEF Follows
<1> QED BY <1>6, <1>7, <1>8, <1>9, PairToken

-----------------------------------------------------------------------------
(* The commands whose argument is a number.                                *)
Ints == {"defense", "max-results", "weapon-slots", "rare", "max-rare"}

(* Of the other commands, only a number can be cut.                        *)
LEMMA PairArgument ==
  ASSUME NEW r, NEW w, Pair(r, w), NEW word \in Plain
  PROVE  LET s == ReadArgument(r, word)
             u == ReadArgument(w, word)
         IN  Pair(s, u) \/ Lost(s) \/ (CutInt(s, u) /\ word \in Ints)
<1>1. CASE word \in Ints
  BY <1>1, PairInt DEF ReadArgument, Ints
<1>2. CASE word = "weapon-type"
  <2>1. Fragment \notin {"melee", "range"}
    BY DEF Fragment
  <2>2. Pair(ReadChoice(r, {"melee", "range"}), ReadChoice(w, {"melee", "range"}))
        \/ Lost(ReadChoice(r, {"melee", "range"}))
    BY <2>1, PairChoice
  <2> QED BY <1>2, <2>2 DEF ReadArgument
<1>3. CASE word = "gender"
  <2>1. Fragment \notin {"male", "female"}
    BY DEF Fragment
  <2>2. Pair(ReadChoice(r, {"male", "female"}), ReadChoice(w, {"male", "female"}))
        \/ Lost(ReadChoice(r, {"male", "female"}))
    BY <2>1, PairChoice
  <2> QED BY <1>3, <2>2 DEF ReadArgument
<1>4. CASE word \in {"blacklist", "specify-armor", "ban-jewels"}
  BY <1>4, PairList DEF ReadArgument
<1> QED BY <1>1, <1>2, <1>3, <1>4 DEF Plain, Ints

(* The same argument is stored in both.                                    *)
LEMMA PairPlain ==
  ASSUME NEW r, NEW w, Pair(r, w), NEW word \in Plain
  PROVE  Pair(Store(r, word), Store(w, word))
<1>1. /\ Formed(r) /\ w.token = r.token /\ w.nums = r.nums /\ w.query = r.query
  BY PairLook
<1>2. Formed(Store(r, word))
  BY <1>1, LaterPlain DEF Later
<1>3. \E q : Store(r, word) = [r EXCEPT !.query = q] /\ Store(w, word) = [w EXCEPT !.query = q]
  BY <1>1 DEF Store, Plain
<1>4. PICK q : Store(r, word) = [r EXCEPT !.query = q] /\ Store(w, word) = [w EXCEPT !.query = q]
  BY <1>3
<1>5. Pair([r EXCEPT !.query = q], [w EXCEPT !.query = q])
  BY <1>2, <1>4, PairStore
<1> QED BY <1>4, <1>5

(* A number that was cut is stored in a member of its own, and the rest    *)
(* of the query stays.                                                     *)
LEMMA StoreInt ==
  ASSUME NEW r, NEW w, Formed(r), Formed(w), w.query = r.query,
         r.token.number \in Shorter(w.token.number), NEW word \in Ints
  PROVE  LET s == Store(r, word)
         IN  /\ s.text = r.text /\ s.pos = r.pos /\ s.status = r.status
             /\ OneNumberCut(s.query, Store(w, word).query)
<1> DEFINE m == r.token.number
           n == w.token.number
           q == r.query
           F == q.armor_filter
<1>1. CASE word \in {"defense", "max-results"}
  <2> DEFINE f == IF word = "defense" THEN "defense" ELSE "max_results"
             a == [q EXCEPT ![f] = m]
             b == [q EXCEPT ![f] = n]
  <2>1. /\ Store(r, word) = [r EXCEPT !.query = a]
        /\ Store(w, word) = [w EXCEPT !.query = b]
    BY <1>1 DEF Store
  <2>2. /\ Store(r, word).query = a /\ Store(w, word).query = b
        /\ Store(r, word).text = r.text /\ Store(r, word).pos = r.pos
        /\ Store(r, word).status = r.status
    BY <2>1 DEF Formed, With
  <2>3. f \in {"defense", "max_results"} /\ f \in DOMAIN q
    BY DEF Formed, With
  <2> HIDE DEF f, q
  <2>4. a = [b EXCEPT ![f] = a[f]] /\ a[f] = m /\ b[f] = n
    BY <2>3
  <2>5. OneNumberCut(a, b)
    BY <2>3, <2>4 DEF OneNumberCut
  <2> QED BY <2>2, <2>5
<1>2. CASE word \in {"weapon-slots", "rare", "max-rare"}
  <2> DEFINE f == IF word = "weapon-slots" THEN "weapon_slots"
                  ELSE IF word = "rare" THEN "min_rare" ELSE "max_rare"
             a == [q EXCEPT !.armor_filter[f] = m]
             b == [q EXCEPT !.armor_filter[f] = n]
  <2>1. /\ Store(r, word) = [r EXCEPT !.query = a]
        /\ Store(w, word) = [w EXCEPT !.query = b]
    BY <1>2 DEF Store
  <2>2. /\ Store(r, word).query = a /\ Store(w, word).query = b
        /\ Store(r, word).text = r.text /\ Store(r, word).pos = r.pos
        /\ Store(r, word).status = r.status
    BY <2>1 DEF Formed, With
  <2>3. /\ f \in {"min_rare", "max_rare", "weapon_slots"}
        /\ f \in DOMAIN F /\ "armor_filter" \in DOMAIN q
    BY DEF Formed, With, NoFilter
  <2> HIDE DEF f, q
  <2>4. /\ a = [b EXCEPT !.armor_filter[f] = a.armor_filter[f]]
        /\ a.armor_filter[f] = m /\ b.armor_filter[f] = n
    BY <2>3
  <2>5. OneNumberCut(a, b)
    BY <2>3, <2>4 DEF OneNumberCut
  <2> QED BY <2>2, <2>5
<1> QED BY <1>1, <1>2 DEF Ints

(* So the queries differ in that number.                                   *)
LEMMA CutPlain ==
  ASSUME NEW r, NEW w, CutInt(r, w), NEW word \in Ints
  PROVE  Behind(Store(r, word), Store(w, word))
<1> DEFINE s == Store(r, word)
           u == Store(w, word)
<1>1. /\ Formed(r) /\ Formed(w) /\ Reading(r) /\ AtEnd(r) /\ w.query = r.query
      /\ r.token.number \in Shorter(w.token.number)
  BY DEF CutInt, AtCut
<1>2. word \in Plain
  BY DEF Ints, Plain
<1>3. Formed(s) /\ Formed(u)
  BY <1>1, <1>2, LaterPlain DEF Later
<1>4. /\ s.text = r.text /\ s.pos = r.pos /\ s.status = r.status
      /\ OneNumberCut(s.query, u.query)
  BY <1>1, StoreInt
<1> HIDE DEF s, u
<1>5. Reading(s) /\ AtEnd(s)
  BY <1>1, <1>4 DEF Reading, AtEnd
<1>6. Behind(s, u)
  BY <1>3, <1>4, <1>5 DEF Behind, AsFront
<1> QED BY <1>6 DEF s, u

(* Every command, and what is none.                                        *)
LEMMA PairCommand ==
  ASSUME NEW r, NEW w, Pair(r, w), NEW word
  PROVE  Follows(ReadCommand(r, word), ReadCommand(w, word))
<1>1. CASE word = "skill"
  BY <1>1, PairSkill DEF ReadCommand
<1>2. CASE word = "amulet"
  BY <1>2, PairAmulet DEF ReadCommand
<1>3. CASE word = "avoid-negative"
  BY <1>3, PairBool DEF ReadCommand
<1> DEFINE s(x) == ReadArgument(x, word)
<1>4. ASSUME word \notin {"skill", "amulet", "avoid-negative"}
      PROVE  \A x : ReadCommand(x, word) = IF Reading(s(x)) THEN Store(s(x), word) ELSE s(x)
  BY <1>4 DEF ReadCommand
<1>5. CASE word \notin {"skill", "amulet", "avoid-negative"} /\ word \in Plain
  <2>1. Pair(s(r), s(w)) \/ Lost(s(r)) \/ (CutInt(s(r), s(w)) /\ word \in Ints)
    BY <1>5, PairArgument
  <2> HIDE DEF s
  <2>2. CASE Pair(s(r), s(w))
    <3>1. Reading(s(w)) = Reading(s(r)) /\ Pair(Store(s(r), word), Store(s(w), word))
      BY <1>5, <2>2, PairLook, PairPlain
    <3> QED BY <1>4, <1>5, <2>2, <3>1 DEF Follows
  <2>3. CASE Lost(s(r))
    <3>1. ReadCommand(r, word) = s(r)
      BY <1>4, <1>5, <2>3, LostStays
    <3> QED BY <2>3, <3>1 DEF Follows
  <2>4. CASE CutInt(s(r), s(w)) /\ word \in Ints
    <3>1. Reading(s(r)) /\ Reading(s(w))
      BY <2>4 DEF CutInt, AtCut
    <3>2. Behind(Store(s(r), word), Store(s(w), word))
      BY <2>4, CutPlain
    <3> QED BY <1>4, <1>5, <3>1, <3>2 DEF Follows
  <2> QED BY <2>1, <2>2, <2>3, <2>4
<1>6. CASE word \notin {"skill", "amulet", "avoid-negative"} /\ word \notin Plain
  <2>1. Formed(r)
    BY PairLook
  <2>2. s(r) = Fail(r)
    BY <1>6, <2>1, LaterArgument
  <2>3. Lost(s(r))
    BY <2>1, <2>2, FailLost
  <2> HIDE DEF s
  <2>4. ReadCommand(r, word) = s(r)
    BY <1>4, <1>6, <2>3, LostStays
  <2> QED BY <2>3, <2>4 DEF Follows
<1> QED BY <1>1, <1>2, <1>3, <1>5, <1>6

(* The end of a command, at which the text may have been cut.              *)
LEMMA PairClose ==
  ASSUME NEW r, NEW w, Pair(r, w)
  PROVE  Follows(CloseCommand(r), CloseCommand(w))
<1>1. Formed(r) /\ Formed(w) /\ Reading(w) = Reading(r) /\ w.query = r.query
  BY PairLook
<1>2. AsFront(r.query, w.query)
  BY <1>1 DEF AsFront
<1>3. CASE ~Reading(r)
  BY <1>1, <1>3 DEF CloseCommand, Follows
<1>4. CASE Reading(r) /\ AtEnd(r)
  <2>1. Behind(r, w)
    BY <1>1, <1>2, <1>4 DEF Behind
  <2>2. CloseCommand(r) = r
    BY <1>4 DEF CloseCommand
  <2> QED BY <2>1, <2>2, BehindCloses DEF Follows
<1>5. CASE Reading(r) /\ ~AtEnd(r) /\ Token(w) = Token(r)
  <2>1. Pair(Take(r), Take(w)) /\ Pair(Abort(r), Abort(w)) /\ ~AtEnd(w)
    BY <1>5, PairMove, PairToken
  <2> QED BY <1>1, <1>5, <2>1 DEF CloseCommand, Follows
<1>6. CASE Reading(r) /\ ~AtEnd(r) /\ CutAs(Token(r), Token(w)) /\ r.pos = Len(r.text)
  <2>1. CASE Token(r) = Broken
    BY <1>1, <1>6, <2>1, FailLost DEF CloseCommand, Follows
  <2>2. CASE Token(r) # Broken
    <3>1. CloseCommand(r) = Take(r)
      BY <1>6, <2>2 DEF CloseCommand
    <3>2. /\ Formed(Take(r)) /\ Take(r).query = r.query
          /\ Reading(Take(r)) /\ AtEnd(Take(r))
      BY <1>6, TakeAtCut
    <3>3. Behind(Take(r), w)
      BY <1>1, <1>2, <3>2 DEF Behind
    <3> QED BY <3>1, <3>3, BehindCloses DEF Follows
  <2> QED BY <2>1, <2>2
<1> QED BY <1>3, <1>4, <1>5, <1>6, PairToken

-----------------------------------------------------------------------------
(* What has come out of a command goes through its end.                    *)
LEMMA FollowsCloses ==
  ASSUME NEW r, NEW w, Follows(r, w)
  PROVE  Follows(CloseCommand(r), CloseCommand(w))
<1>1. CASE Pair(r, w)
  BY <1>1, PairClose
<1>2. CASE Lost(r)
  BY <1>2, LostStays DEF Follows
<1>3. CASE Behind(r, w)
  <2>1. CloseCommand(r) = r
    BY <1>3 DEF Behind, CloseCommand, Reading
  <2> QED BY <1>3, <2>1, BehindCloses DEF Follows
<1> QED BY <1>1, <1>2, <1>3 DEF Follows

(* One that is behind a reader stays behind it in the rounds of the loop   *)
(* of Parse.                                                               *)
LEMMA BehindReads ==
  ASSUME NEW r, NEW w, Behind(r, w)
  PROVE  Behind(ReadOne(r), w)
<1>1. CASE Reading(r) /\ AtEnd(r)
  <2> DEFINE s == [r EXCEPT !.status = "SUCCESS"]
  <2>1. ReadOne(r) = s
    BY <1>1 DEF ReadOne
  <2>2. Formed(s)
    BY LaterMove DEF Behind, Later
  <2>3. s.query = r.query /\ s.status = "SUCCESS"
    BY DEF Behind, Formed, With
  <2> HIDE DEF s
  <2> QED BY <2>1, <2>2, <2>3 DEF Behind
<1>2. CASE r.status = "SUCCESS"
  <2>1. ReadOne(r) = r
    BY <1>2 DEF ReadOne, Reading
  <2> QED BY <2>1
<1> QED BY <1>1, <1>2 DEF Behind

(* A round in which both still read the same, or the piece has ended.      *)
LEMMA PairReads ==
  ASSUME NEW r, NEW w, Pair(r, w)
  PROVE  Follows(ReadOne(r), ReadOne(w)) \/ Behind(ReadOne(r), w)
<1> DEFINE o(x) == Expect(x, "OPEN_PARENTHESIS")
           s(x) == Expect(o(x), "KEYWORD")
           c(x) == ReadCommand(s(x), s(x).token.word)
<1>1. \A x : ReadOne(x) = IF ~Reading(x) THEN x
                          ELSE IF AtEnd(x) THEN [x EXCEPT !.status = "SUCCESS"]
                          ELSE IF ~Reading(s(x)) THEN s(x)
                          ELSE CloseCommand(c(x))
  BY DEF ReadOne
<1>2. Formed(r) /\ Formed(w) /\ Reading(w) = Reading(r) /\ w.query = r.query
  BY PairLook
<1>3. CASE ~Reading(r)
  BY <1>1, <1>2, <1>3 DEF Follows
<1>4. CASE Reading(r) /\ AtEnd(r)
  <2>1. Behind(r, w)
    BY <1>2, <1>4 DEF Behind, AsFront
  <2> QED BY <2>1, BehindReads
<1>5. CASE Reading(r) /\ ~AtEnd(r)
  <2>1. Pair(o(r), o(w)) \/ Lost(o(r))
    <3>1. "OPEN_PARENTHESIS" \in Names
      BY DEF Names
    <3> QED BY <3>1, PairExpect
  <2>2. Pair(s(r), s(w)) \/ Lost(s(r)) \/ (AtCut(s(r), s(w)) /\ s(r).token.name = "KEYWORD")
    <3> HIDE DEF o
    <3>1. "KEYWORD" \in Names
      BY DEF Names
    <3>2. CASE Pair(o(r), o(w))
      BY <3>1, <3>2, PairExpect
    <3>3. CASE Lost(o(r))
      BY <3>3, LostStays
    <3> QED BY <2>1, <3>2, <3>3
  <2>3. ~AtEnd(w)
    BY <1>5, PairToken
  <2> HIDE DEF s
  <2>4. CASE Pair(s(r), s(w))
    <3>1. Reading(s(w)) = Reading(s(r)) /\ s(w).token = s(r).token
      BY <2>4, PairLook
    <3>2. Follows(c(r), c(w))
      BY <2>4, <3>1, PairCommand
    <3> HIDE DEF c
    <3>3. Follows(CloseCommand(c(r)), CloseCommand(c(w)))
      BY <3>2, FollowsCloses
    <3> QED BY <1>1, <1>2, <1>5, <2>3, <2>4, <3>1, <3>3 DEF Follows
  <2>5. CASE Lost(s(r))
    <3>1. ReadOne(r) = s(r)
      BY <1>1, <1>5, <2>5, LostStays
    <3> QED BY <2>5, <3>1 DEF Follows
  <2>6. CASE AtCut(s(r), s(w)) /\ s(r).token.name = "KEYWORD"
    <3> DEFINE x == s(r).token
               y == s(w).token
    <3>1. CutAs(x, y) /\ x.name = "KEYWORD"
      BY <2>6 DEF AtCut
    <3> HIDE DEF x, y
    <3>2. x = Keyword(Fragment)
      BY <3>1 DEF CutAs, Minus, Broken, Number, String
    <3>3. x.word = Fragment
      BY <3>2 DEF Keyword
    <3>4. Formed(s(r)) /\ Reading(s(r))
      BY <2>6 DEF AtCut
    <3>5. Fragment \notin Plain /\ Fragment \notin {"skill", "amulet", "avoid-negative"}
      BY DEF Fragment, Plain
    <3>6. ReadArgument(s(r), Fragment) = Fail(s(r))
      BY <3>4, <3>5, LaterArgument
    <3>7. ReadCommand(s(r), Fragment) = Fail(s(r))
      BY <3>4, <3>5, <3>6, FailLost DEF ReadCommand
    <3>8. c(r) = Fail(s(r))
      BY <3>3, <3>7 DEF x
    <3>9. Lost(c(r))
      BY <3>4, <3>8, FailLost
    <3> HIDE DEF c
    <3>10. ReadOne(r) = c(r)
      BY <1>1, <1>5, <3>4, <3>9, LostStays
    <3> QED BY <3>9, <3>10 DEF Follows
  <2> QED BY <2>2, <2>4, <2>5, <2>6
<1> QED BY <1>3, <1>4, <1>5

-----------------------------------------------------------------------------
(* The rounds of Parse, one reader after the other.                        *)
LEMMA RoundsOfParse ==
  ASSUME NEW text, Len(text) \in Nat, NEW query
  PROVE  LET f == Rounds(text, query)
         IN  /\ DOMAIN f = 0 .. Len(text) + 1
             /\ f[0] = Start(text, query)
             /\ \A n \in 1 .. Len(text) + 1 : f[n] = ReadOne(f[n - 1])
<1> DEFINE L == Len(text) + 1
           Is(f, k) == f = [n \in 0 .. k |-> IF n = 0 THEN Start(text, query) ELSE ReadOne(f[n - 1])]
           T == { k \in 0 .. L : \E f : Is(f, k) }
<1>0. L \in Nat
  OBVIOUS
<1>1. 0 \in T
  <2> DEFINE f == [n \in 0 .. 0 |-> Start(text, query)]
  <2>1. Is(f, 0)
    OBVIOUS
  <2> HIDE DEF f, Is
  <2> QED BY <1>0, <2>1
<1>2. ASSUME NEW k \in 1 .. L, k - 1 \in T PROVE k \in T
  <2>1. PICK f : Is(f, k - 1)
    BY <1>2
  <2> DEFINE g == [n \in 0 .. k |-> IF n = k THEN ReadOne(f[k - 1]) ELSE f[n]]
  <2>2. ASSUME NEW n \in 0 .. k
        PROVE  g[n] = IF n = 0 THEN Start(text, query) ELSE ReadOne(g[n - 1])
    <3>1. CASE n = k
      <4>1. g[n] = ReadOne(f[k - 1]) /\ k - 1 \in 0 .. k /\ k - 1 # k /\ n # 0
        BY <3>1
      <4>2. g[n - 1] = f[k - 1]
        BY <3>1, <4>1
      <4> QED BY <4>1, <4>2
    <3>2. CASE n # k
      <4>1. n \in 0 .. k - 1
        BY <3>2
      <4>2. f[n] = IF n = 0 THEN Start(text, query) ELSE ReadOne(f[n - 1])
        BY <2>1, <4>1
      <4>3. g[n] = f[n]
        BY <3>2
      <4>4. n # 0 => g[n - 1] = f[n - 1]
        BY <4>1
      <4> HIDE DEF g
      <4> QED BY <4>2, <4>3, <4>4
    <3> QED BY <3>1, <3>2
  <2>3. g = [n \in 0 .. k |-> g[n]]
    OBVIOUS
  <2> HIDE DEF g
  <2>4. Is(g, k)
    BY <2>2, <2>3
  <2> HIDE DEF Is
  <2> QED BY <2>4
<1> HIDE DEF T
<1>3. L \in T
  <2> HIDE DEF L
  <2>1. \A n \in 0 .. L : n \in T
    BY <1>0, <1>1, <1>2, IntervalInduction
  <2> QED BY <1>0, <2>1
<1>4. PICK f : Is(f, L)
  BY <1>3 DEF T
<1> DEFINE after[n \in 0 .. Len(text) + 1] ==
             IF n = 0 THEN Start(text, query) ELSE ReadOne(after[n - 1])
<1>5. Is(after, L)
  BY <1>4, Zenon
<1>6. Rounds(text, query) = after
  BY Zenon DEF Rounds
<1> HIDE DEF after
<1>7. after[0] = Start(text, query) /\ DOMAIN after = 0 .. L
  BY <1>0, <1>5
<1>8. ASSUME NEW n \in 1 .. L PROVE after[n] = ReadOne(after[n - 1])
  BY <1>0, <1>5
<1> QED BY <1>6, <1>7, <1>8

(* Both begin with the same query.                                         *)
LEMMA PairStart ==
  ASSUME NEW p, NEW t, FrontOf(p, t)
  PROVE  Pair(Start(p, NewQuery), Start(t, NewQuery))
<1> DEFINE q == Clear(NewQuery)
           r == Start(p, NewQuery)
           w == Start(t, NewQuery)
<1>1. /\ r = [text |-> p, pos |-> 1, token |-> Invalid, nums |-> <<>>,
              query |-> q, status |-> "READING"]
      /\ w = [text |-> t, pos |-> 1, token |-> Invalid, nums |-> <<>>,
              query |-> q, status |-> "READING"]
  BY DEF Start
<1>2. IsList(<<>>)
  BY EmptySeq DEF IsList
<1>3. q = With([query |-> q, text |-> p, pos |-> 1, token |-> Invalid, nums |-> <<>>,
                status |-> "READING"], q.avoid_negative).query
  BY DEF Clear, NewQuery, With
<1>4. /\ q.effects = <<>> /\ q.amulets = <<>>
      /\ q.armor_filter = [NoFilter EXCEPT !.max_rare = 11]
  BY DEF Clear
<1>5. DOMAIN q.armor_filter = DOMAIN NoFilter
  BY <1>4 DEF NoFilter
<1> HIDE DEF q, r, w
<1>6. Formed(r)
  BY <1>1, <1>2, <1>3, <1>4, <1>5 DEF Formed, With
<1>7. w = [r EXCEPT !.text = t]
  BY <1>1
<1>8. Pair(r, w)
  BY <1>1, <1>6, <1>7 DEF Pair
<1> QED BY <1>8 DEF r, w

(* If the first piece of a text can be parsed, the query is a front of     *)
(* that of the text.                                                       *)
LEMMA PieceIsAFront ==
  ASSUME NEW p, NEW t, FrontOf(p, t), Parse(p, NewQuery).status = "SUCCESS"
  PROVE  LET rounds == Rounds(t, NewQuery)
         IN  \E k \in DOMAIN rounds : AsFront(Parse(p, NewQuery).query, rounds[k].query)
<1>1. Len(p) \in Nat /\ Len(t) \in Nat /\ Len(p) <= Len(t)
  BY LenProperties DEF FrontOf, IsList
<1> DEFINE M == Len(p) + 1
           N == Len(t) + 1
           f == Rounds(p, NewQuery)
           g == Rounds(t, NewQuery)
<1>2. M \in Nat /\ N \in Nat /\ M <= N
  BY <1>1
<1>3. /\ f[0] = Start(p, NewQuery)
      /\ \A n \in 1 .. M : f[n] = ReadOne(f[n - 1])
  BY <1>1, RoundsOfParse
<1>4. /\ DOMAIN g = 0 .. N
      /\ g[0] = Start(t, NewQuery)
      /\ \A n \in 1 .. N : g[n] = ReadOne(g[n - 1])
  BY <1>1, RoundsOfParse
<1>5. Parse(p, NewQuery) = f[M]
  BY DEF Parse
<1> HIDE DEF M, N, f, g
<1> DEFINE Goes(n) == \/ Pair(f[n], g[n])
                      \/ Lost(f[n])
                      \/ \E k \in 0 .. n : Behind(f[n], g[k])
<1>6. Goes(M)
  <2> DEFINE T == { n \in 0 .. M : Goes(n) }
  <2>1. 0 \in T
    BY <1>2, <1>3, <1>4, PairStart
  <2>2. ASSUME NEW n \in 1 .. M, n - 1 \in T PROVE n \in T
    <3>1. Goes(n - 1) /\ n - 1 \in 0 .. n /\ n \in 0 .. n
      BY <2>2
    <3>2. f[n] = ReadOne(f[n - 1]) /\ g[n] = ReadOne(g[n - 1])
      BY <1>2, <1>3, <1>4
    <3>3. CASE Pair(f[n - 1], g[n - 1])
      <4>1. Follows(f[n], g[n]) \/ Behind(f[n], g[n - 1])
        BY <3>2, <3>3, PairReads
      <4> QED BY <3>1, <4>1 DEF Follows
    <3>4. CASE Lost(f[n - 1])
      <4>1. Lost(f[n])
        BY <3>2, <3>4, LostStays
      <4> QED BY <4>1
    <3>5. CASE \E k \in 0 .. n - 1 : Behind(f[n - 1], g[k])
      <4>1. PICK k \in 0 .. n - 1 : Behind(f[n - 1], g[k])
        BY <3>5
      <4>2. Behind(f[n], g[k]) /\ k \in 0 .. n
        BY <3>2, <4>1, BehindReads
      <4> QED BY <4>2
    <3> QED BY <3>1, <3>3, <3>4, <3>5
  <2> HIDE DEF T, Goes
  <2>3. \A n \in 0 .. M : n \in T
    BY <1>2, <2>1, <2>2, IntervalInduction
  <2> QED BY <1>2, <2>3 DEF T
<1>7. \E k \in 0 .. M : AsFront(f[M].query, g[k].query)
  <2>1. CASE Pair(f[M], g[M])
    <3>1. g[M].query = f[M].query
      BY <2>1, PairLook
    <3> QED BY <1>2, <3>1 DEF AsFront
  <2>2. CASE Lost(f[M])
    BY <1>5, <2>2 DEF Lost
  <2>3. CASE \E k \in 0 .. M : Behind(f[M], g[k])
    BY <2>3 DEF Behind
  <2> QED BY <1>6, <2>1, <2>2, <2>3
<1>8. PICK k \in 0 .. M : AsFront(f[M].query, g[k].query)
  BY <1>7
<1>9. k \in DOMAIN g
  BY <1>2, <1>4
<1> QED BY <1>5, <1>8, <1>9 DEF g

-----------------------------------------------------------------------------
(* The first of two pieces stands at the front of the text.                *)
LEMMA CutsAreFronts ==
  ASSUME NEW text, IsList(text), NEW cut \in Cuts(text)
  PROVE  \E a, b : cut = <<a, b>> /\ FrontOf(a, text)
<1> DEFINE L == Len(text)
           S == ToSet(text)
<1>1. text \in Seq(S) /\ L \in Nat /\ DOMAIN text = 1 .. L
      /\ \A i \in 1 .. L : text[i] \in S
  BY LenProperties, ElementOfSeq DEF IsList
<1> HIDE DEF S
<1>2. CASE \E n \in 1 .. L - 1 :
             cut = <<SubSeq(text, 1, n), SubSeq(text, n + 1, L)>>
  <2>1. PICK n \in 1 .. L - 1 : cut = <<SubSeq(text, 1, n), SubSeq(text, n + 1, L)>>
    BY <1>2
  <2> DEFINE a == SubSeq(text, 1, n)
  <2>2. \A i \in 1 .. n : text[i] \in S
    BY <1>1
  <2>3. a \in Seq(S) /\ Len(a) = n /\ \A i \in 1 .. n : a[i] = text[i]
    BY <1>1, <2>2, SubSeqProperties
  <2> HIDE DEF a
  <2>4. IsList(a)
    BY <2>3, ListOfAny
  <2>5. FrontOf(a, text)
    BY <1>1, <2>3, <2>4 DEF FrontOf
  <2> QED BY <2>1, <2>5 DEF a
<1>3. CASE \E n \in DOMAIN text : \E x \in CutLexeme(text[n]) :
             cut = <<Append(SubSeq(text, 1, n - 1), x[1]),
                     <<x[2]>> \o SubSeq(text, n + 1, L)>>
  <2>1. PICK n \in 1 .. L : \E x \in CutLexeme(text[n]) :
             cut = <<Append(SubSeq(text, 1, n - 1), x[1]),
                     <<x[2]>> \o SubSeq(text, n + 1, L)>>
    BY <1>1, <1>3
  <2>2. PICK x \in CutLexeme(text[n]) :
             cut = <<Append(SubSeq(text, 1, n - 1), x[1]),
                     <<x[2]>> \o SubSeq(text, n + 1, L)>>
    BY <2>1
  <2> DEFINE b == SubSeq(text, 1, n - 1)
             a == Append(b, x[1])
  <2>3. \A i \in 1 .. n - 1 : text[i] \in S
    BY <1>1
  <2>4. b \in Seq(S) /\ Len(b) = n - 1 /\ \A i \in 1 .. n - 1 : b[i] = text[i]
    <3>1. n - 1 \in Int /\ 1 \in Int
      OBVIOUS
    <3>2. /\ b \in Seq(S)
          /\ Len(b) = IF 1 <= n - 1 THEN n - 1 - 1 + 1 ELSE 0
          /\ \A i \in 1 .. n - 1 - 1 + 1 : b[i] = text[1 + i - 1]
      BY <2>3, <3>1, SubSeqProperties
    <3> HIDE DEF b
    <3> QED BY <3>2
  <2> HIDE DEF b
  <2>5. IsList(b)
    BY <2>4, ListOfAny
  <2>6. Begins(b, a) /\ Len(a) = Len(b) + 1 /\ a[Len(b) + 1] = x[1]
    BY <2>5, ListAppend
  <2> HIDE DEF a
  <2>7. CutAs(x[1], text[n])
    <3> DEFINE y == text[n]
    <3>1. x \in CutLexeme(y)
      OBVIOUS
    <3> HIDE DEF y
    <3> SUFFICES CutAs(x[1], y)
      BY DEF y
    <3>2. CASE y.name = "NUMBER"
      <4> DEFINE Back(d) == Number((IF y.number < 0 THEN -y.number ELSE y.number) % d)
      <4>1. CutLexeme(y) = (IF y.number < 0 THEN { <<Minus, Number(-y.number)>> } ELSE {})
                           \union
                           { <<Number(Shortened(y.number, d)), Back(d)>> :
                               d \in LosesDigits(y.number) }
        BY <3>2 DEF CutLexeme
      <4> HIDE DEF Back
      <4>2. \/ x = <<Minus, Number(-y.number)>>
            \/ \E d \in LosesDigits(y.number) :
                 x = <<Number(Shortened(y.number, d)), Back(d)>>
        BY <3>1, <4>1
      <4>3. x[1] = Minus \/ \E d \in LosesDigits(y.number) : x[1] = Number(Shortened(y.number, d))
        BY <4>2
      <4>4. x[1] = Minus \/ \E k \in Shorter(y.number) : x[1] = Number(k)
        BY <4>3 DEF Shorter
      <4> QED BY <3>2, <4>4 DEF CutAs
    <3>3. CASE y.name = "KEYWORD"
      <4>1. CutLexeme(y) = { <<Keyword(Fragment), Invalid>> }
        BY <3>3 DEF CutLexeme
      <4>2. x[1] = Keyword(Fragment)
        BY <3>1, <4>1
      <4> QED BY <3>3, <4>2 DEF CutAs
    <3>4. CASE y.name = "STRING"
      <4>1. CutLexeme(y) = { <<String(Fragment), Invalid>> }
        BY <3>4 DEF CutLexeme
      <4>2. x[1] = String(Fragment)
        BY <3>1, <4>1
      <4> QED BY <3>4, <4>2 DEF CutAs
    <3>5. CASE y.name = "NIL"
      <4>1. CutLexeme(y) = { <<Broken, Invalid>> }
        BY <3>5 DEF CutLexeme
      <4>2. x[1] = Broken
        BY <3>1, <4>1
      <4> QED BY <4>2 DEF CutAs
    <3>6. CASE y.name \notin {"NUMBER", "KEYWORD", "STRING", "NIL"}
      <4>1. CutLexeme(y) = {}
        BY <3>6 DEF CutLexeme
      <4> QED BY <3>1, <4>1
    <3> QED BY <3>2, <3>3, <3>4, <3>5, <3>6
  <2>8. /\ Len(a) = n /\ a[n] = x[1]
        /\ \A i \in 1 .. n - 1 : a[i] = text[i]
    BY <2>4, <2>6 DEF Begins
  <2>9. \A i \in 1 .. Len(a) : a[i] = text[i] \/ (i = Len(a) /\ CutAs(a[i], text[i]))
    <3> SUFFICES ASSUME NEW i \in 1 .. n
                 PROVE  a[i] = text[i] \/ (i = n /\ CutAs(a[i], text[i]))
      BY <2>8
    <3>1. CASE i = n
      BY <2>7, <2>8, <3>1
    <3>2. CASE i # n
      <4>1. i \in 1 .. n - 1
        BY <3>2
      <4> QED BY <2>8, <4>1
    <3> QED BY <3>1, <3>2
  <2>10. FrontOf(a, text)
    <3>1. IsList(a) /\ Len(a) <= Len(text)
      BY <1>1, <2>6, <2>8 DEF Begins
    <3>2. IsList(text)
      OBVIOUS
    <3> QED BY <2>9, <3>1, <3>2 DEF FrontOf
  <2> QED BY <2>2, <2>10 DEF a, b
<1>4. QED
  BY <1>2, <1>3 DEF Cuts

(* The whole text, and nothing of it, stand at its front.                  *)
LEMMA FrontsOfOne ==
  ASSUME NEW text, IsList(text)
  PROVE  FrontOf(text, text) /\ FrontOf(<<>>, text)
<1>1. Len(text) \in Nat
  BY LenProperties DEF IsList
<1>2. IsList(<<>>) /\ Len(<<>>) = 0
  BY EmptySeq DEF IsList
<1> QED BY <1>1, <1>2 DEF FrontOf

-----------------------------------------------------------------------------
(* The pieces of the body of a POST arrive in order: the one that arrived  *)
(* first, or, before that, the one to arrive next, is the front of it.     *)
InOrder(c) ==
  request[c].method = "POST" =>
    LET value == request[c].body.value
    IN  /\ request[c].body \in Bodies
        /\ FrontOf(first[c], value)
        /\ first[c] = <<>> /\ pieces[c] # <<>> => FrontOf(Head(pieces[c]), value)

ArriveInOrder == \A c \in Connections : InOrder(c)

(* What clients send are lists of lexemes.                                 *)
LEMMA BodiesAreLists ==
  ASSUME NEW body \in Bodies
  PROVE  IsList(body.value)
BY BodiesAssumption DEF IsList

(* A step that takes no piece of a request keeps their order.              *)
LEMMA OrderStays ==
  ASSUME NEW c \in Connections, InOrder(c),
         request'[c] = request[c], first'[c] = first[c], pieces'[c] = pieces[c]
  PROVE  InOrder(c)'
BY DEF InOrder

(* A client sends the front of its text first.                             *)
LEMMA ConnectInOrder ==
  ASSUME IInv, ArriveInOrder, NEW c \in Connections, NEW method, NEW body,
         Connect(c, method, body), method = "POST" => body \in Bodies
  PROVE  ArriveInOrder'
<1>0. TypeOK /\ NothingArrived(c)
  BY DEF IInv
<1>1. PICK p \in (IF body.value = <<>> THEN { <<>> }
                  ELSE {<<body.value>>} \union Cuts(body.value)) :
             pieces' = [pieces EXCEPT ![c] = p]
  BY DEF Connect
<1>2. request'[c] = [method |-> method, body |-> body] /\ pieces'[c] = p /\ first'[c] = <<>>
  BY <1>0, <1>1 DEF Connect, TypeOK, NothingArrived
<1>3. ASSUME body \in Bodies
      PROVE  /\ FrontOf(<<>>, body.value)
             /\ p # <<>> => FrontOf(Head(p), body.value)
  <2>1. IsList(body.value)
    BY <1>3, BodiesAreLists
  <2>2. FrontOf(<<>>, body.value) /\ FrontOf(body.value, body.value)
    BY <2>1, FrontsOfOne
  <2>3. CASE p \in Cuts(body.value)
    <3>1. PICK a, b : p = <<a, b>> /\ FrontOf(a, body.value)
      BY <2>1, <2>3, CutsAreFronts
    <3>2. Head(p) = a
      BY <3>1
    <3> QED BY <2>2, <3>1, <3>2
  <2>4. CASE p = <<body.value>>
    <3>1. Head(p) = body.value
      BY <2>4
    <3> QED BY <2>2, <3>1
  <2> QED BY <1>1, <2>2, <2>3, <2>4
<1>4. InOrder(c)'
  BY <1>2, <1>3 DEF InOrder
<1>5. ASSUME NEW d \in Connections, d # c PROVE InOrder(d)'
  BY <1>0, <1>1, <1>5, OrderStays DEF ArriveInOrder, Connect, TypeOK
<1> QED BY <1>4, <1>5 DEF ArriveInOrder

(* The first piece that was sent is the first that arrives.                *)
LEMMA PostDataInOrder ==
  ASSUME IInv, ArriveInOrder, NEW c \in Connections, PostData(c)
  PROVE  ArriveInOrder'
<1>0. TypeOK
  BY DEF IInv
<1>1. Head(pieces[c]) \in Pieces
  BY <1>0, HeadTailProperties DEF TypeOK, PostData
<1>2. /\ request'[c] = request[c] /\ pieces[c] # <<>>
      /\ first'[c] = IF first[c] = <<>> THEN Head(pieces[c]) ELSE first[c]
  BY <1>0 DEF PostData, TypeOK
<1>3. first'[c] # <<>>
  BY <1>1, <1>2 DEF Pieces
<1>4. InOrder(c)'
  BY <1>2, <1>3 DEF InOrder, ArriveInOrder
<1>5. ASSUME NEW d \in Connections, d # c PROVE InOrder(d)'
  BY <1>0, <1>5, OrderStays DEF ArriveInOrder, PostData, TypeOK
<1> QED BY <1>4, <1>5 DEF ArriveInOrder

(* A connection without a request has no pieces.                           *)
LEMMA ForgetInOrder ==
  ASSUME ArriveInOrder, NEW cs \in SUBSET Connections, Forget(cs)
  PROVE  ArriveInOrder'
<1>1. ASSUME NEW d \in cs PROVE InOrder(d)'
  BY DEF Forget, InOrder, NoRequest
<1>2. ASSUME NEW d \in Connections, d \notin cs PROVE InOrder(d)'
  BY <1>2, OrderStays DEF Forget, ArriveInOrder
<1> QED BY <1>1, <1>2 DEF ArriveInOrder

(* No step of the server changes the order of the pieces.                  *)
LEMMA StepInOrder == IInv /\ ArriveInOrder /\ [Next]_vars => ArriveInOrder'
<1> SUFFICES ASSUME IInv, ArriveInOrder, [Next]_vars PROVE ArriveInOrder'
  OBVIOUS
<1>1. ASSUME NEW c \in Connections, NEW body \in Bodies, Connect(c, "POST", body)
      PROVE  ArriveInOrder'
  BY <1>1, ConnectInOrder
<1>2. ASSUME NEW c \in Connections, NEW method \in {"GET", "PUT"},
             Connect(c, method, NoBody)
      PROVE  ArriveInOrder'
  <2>1. method # "POST"
    OBVIOUS
  <2> QED BY <1>2, <2>1, ConnectInOrder
<1>3. ASSUME NEW c \in Connections, PostAborts(c) PROVE ArriveInOrder'
  BY <1>3, ForgetInOrder DEF PostAborts
<1>4. ASSUME NEW c \in Connections, Complete(c) PROVE ArriveInOrder'
  <2>1. Forget({c}) /\ {c} \in SUBSET Connections
    BY <1>4 DEF Complete
  <2> QED BY <2>1, ForgetInOrder
<1>5. ASSUME NEW c \in Connections, Begin(c) \/ PostEnd(c) \/ UNCHANGED vars
      PROVE  ArriveInOrder'
  <2>1. UNCHANGED client
    BY <1>5 DEF Begin, PostEnd, vars, client
  <2> QED BY <2>1, OrderStays DEF client, ArriveInOrder
<1>6. CASE UNCHANGED vars
  BY <1>6, OrderStays DEF vars, client, ArriveInOrder
<1> QED BY <1>1, <1>2, <1>3, <1>4, <1>5, <1>6, PostDataInOrder DEF Next, Serve

(* So they arrive in order always.                                         *)
LEMMA AlwaysInOrder == Spec => []ArriveInOrder
<1>1. Init => ArriveInOrder
  BY DEF Init, ArriveInOrder, InOrder, NoRequest
<1> QED BY <1>1, StepInOrder, Invariance, PTL DEF Spec

(* Parse and GenerateResponse, for any texts cut between two characters: a *)
(* query whose end is lost and which is searched all the same is what the  *)
(* first commands of the whole one make, but for the last number.          *)
THEOREM CutQueriesAreFronts == Spec => []CutQueryIsAFront
<1>1. ASSUME IInv, ArriveInOrder, NEW c \in Connections, Answered(c), response[c].is = "result"
      PROVE  \E front \in Fronts[request[c].body.value] :
               response[c].query = front \/ OneNumberCut(response[c].query, front)
  <2> DEFINE p == first[c]
             t == request[c].body.value
  <2>0. NoQuery.is # "result" /\ Corrupted.is # "result"
    BY DEF NoQuery, Corrupted
  <2>1. response[c] = Answer(c) /\ request[c].method = "POST"
    BY <1>1 DEF IInv, RecordOK, Answering, Answered
  <2>2. response[c] = GenerateResponse(p)
    <3>1. response[c] # NoQuery
      BY <1>1, <2>0
    <3> QED BY <2>1, <3>1 DEF Answer
  <2>3. p # <<>> /\ Parsed[p].status = "SUCCESS" /\ response[c] = ArmorSets(Parsed[p].query)
    <3> HIDE DEF p
    <3>1. response[c] # NoQuery /\ response[c] # Corrupted
      BY <1>1, <2>0
    <3> QED BY <2>2, <3>1 DEF GenerateResponse
  <2>4. request[c].body \in Bodies /\ FrontOf(p, t)
    BY <1>1, <2>1 DEF ArriveInOrder, InOrder
  <2>5. p \in Texts
    BY <1>1, <2>3 DEF IInv, TypeOK
  <2>6. Parsed[p] = Parse(p, NewQuery)
    BY <2>5 DEF Parsed
  <2>7. response[c].query = Parse(p, NewQuery).query
    BY <2>3, <2>6 DEF ArmorSets
  <2> HIDE DEF p, t
  <2> DEFINE rounds == Rounds(t, NewQuery)
  <2>8. Fronts[t] = { rounds[n].query : n \in DOMAIN rounds }
    BY <2>4 DEF Fronts, t
  <2>9. PICK k \in DOMAIN rounds : AsFront(Parse(p, NewQuery).query, rounds[k].query)
    BY <2>3, <2>4, <2>6, PieceIsAFront
  <2> HIDE DEF rounds
  <2>10. rounds[k].query \in Fronts[t]
    BY <2>8
  <2> QED BY <2>7, <2>9, <2>10 DEF AsFront, t
<1>2. IInv /\ ArriveInOrder => CutQueryIsAFront
  BY <1>1, Zenon DEF CutQueryIsAFront
<1> QED BY <1>2, Invariance, AlwaysInOrder, PTL
=============================================================================
