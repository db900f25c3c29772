---------------------------- MODULE ServiceProofs ----------------------------
(***************************************************************************)
(* Proofs about the state the Service keeps, for any number of requests,   *)
(* reports, sources and failures.                                          *)
(***************************************************************************)
EXTENDS MCService, RuntimeProofs, SequenceTheorems, WellFoundedInduction, TLAPS

-----------------------------------------------------------------------------
(* Calls over the pipe: an answer belongs to its call, and a request is    *)
(* executed once (IpcSession).                                             *)

Wires == [held : SUBSET {"agent", "service"}, request : AnyRequest, answer : [of : AnyRequest, ok : BOOLEAN]]

CallsTyped ==
    /\ calls \in [Requests -> {"idle", "ready", "sent", "returned"}]
    /\ turn \in AnyRequest /\ tries \in 0 .. Attempts /\ channel \in Links \cup {NoLink}
    /\ wires \in [Links -> Wires]
    /\ got \in [Requests -> [of : AnyRequest, ok : BOOLEAN]]

CacheTyped ==
    /\ workers \in [Links -> [id : AnyRequest, runs : BOOLEAN]]
    /\ running \subseteq Requests /\ completed \in Seq(Requests) /\ Len(completed) <= CacheLimit
    /\ executions \in [Requests -> Nat] /\ forgotten \subseteq Requests

\* Who holds serviceMu is the call that is under way; another attempt is left to one
\* that waits for an answer.
TurnIsHeld ==
    /\ \A r \in Requests : calls[r] \in {"ready", "sent"} <=> turn = r
    /\ \A r \in Requests : calls[r] = "sent" => tries < Attempts /\ channel # NoLink

\* The Agent holds one connection.
ChannelIsHeld == \A l \in Links : "agent" \in wires[l].held <=> channel = l

Clean(l) == wires[l].request = NoRequest /\ wires[l].answer = NoAnswer /\ workers[l].id = NoRequest

\* What is on the Agent's connection is of the call that waits there, in one place.
Carries(l, r) ==
    /\ wires[l].request \in {r, NoRequest} /\ workers[l].id \in {r, NoRequest} /\ wires[l].answer.of \in {r, NoRequest}
    /\ wires[l].request # NoRequest => workers[l].id = NoRequest /\ wires[l].answer = NoAnswer
    /\ workers[l].id # NoRequest => wires[l].answer = NoAnswer

ChannelIsClean ==
    channel # NoLink =>
        IF turn # NoRequest /\ calls[turn] = "sent" THEN Carries(channel, turn) ELSE Clean(channel)

\* A request that was executed is still remembered, unless it was evicted.
ExecutedIsKnown ==
    \A r \in Requests : executions[r] # 0 => Known(r) \/ r \in forgotten

IpcInv ==
    /\ CallsTyped /\ CacheTyped /\ TurnIsHeld /\ ChannelIsHeld /\ ChannelIsClean
    /\ ExecutedIsKnown /\ AnswersAreOwn /\ AtMostOnce

LEMMA IpcInitInv == ASSUME IpcInit PROVE IpcInv
<1>1. FreeWire \in Wires /\ IdleWorker \in [id : AnyRequest, runs : BOOLEAN] /\ NoAnswer \in [of : AnyRequest, ok : BOOLEAN]
  BY DEF FreeWire, IdleWorker, NoAnswer, AnswerOf, Wires, AnyRequest
<1>2. CallsTyped /\ CacheTyped
  BY <1>1, IpcAssumption DEF IpcInit, CallsTyped, CacheTyped, AnyRequest
<1>3. TurnIsHeld /\ ChannelIsHeld /\ ChannelIsClean
  BY IpcAssumption DEF IpcInit, TurnIsHeld, ChannelIsHeld, ChannelIsClean, FreeWire
<1>4. ExecutedIsKnown /\ AnswersAreOwn /\ AtMostOnce
  BY DEF IpcInit, ExecutedIsKnown, AnswersAreOwn, AtMostOnce, NoAnswer, AnswerOf
<1>. QED
  BY <1>2, <1>3, <1>4 DEF IpcInv

\* A step of the Agent leaves the Service alone, and the other way round.
LEMMA AgentKeepsCache ==
    ASSUME IpcInv, UNCHANGED serviceVars
    PROVE  CacheTyped' /\ ExecutedIsKnown' /\ AtMostOnce'
  BY DEF IpcInv, serviceVars, CacheTyped, ExecutedIsKnown, Known, Contains, AtMostOnce

LEMMA ServiceKeepsCalls ==
    ASSUME IpcInv, UNCHANGED <<callVars, channel>>
    PROVE  TurnIsHeld' /\ AnswersAreOwn' /\ (wires' \in [Links -> Wires] => CallsTyped')
  BY DEF IpcInv, callVars, TurnIsHeld, AnswersAreOwn, CallsTyped

LEMMA WireFields ==
    ASSUME CallsTyped, NEW l \in Links
    PROVE  /\ wires[l] \in Wires /\ wires[l].held \subseteq {"agent", "service"} /\ wires[l].request \in AnyRequest
           /\ wires[l].answer \in [of : AnyRequest, ok : BOOLEAN] /\ wires[l].answer.of \in AnyRequest
  BY DEF CallsTyped, Wires

\* A wire changes and its ends do not.
LEMMA EndsAreKept ==
    ASSUME IpcInv, NEW l \in Links, NEW wire \in Wires, wires' = [wires EXCEPT ![l] = wire], channel' = channel,
           "agent" \in wire.held <=> "agent" \in wires[l].held
    PROVE  wires' \in [Links -> Wires] /\ ChannelIsHeld'
<1>1. wires \in [Links -> Wires] /\ ChannelIsHeld
  BY DEF IpcInv, CallsTyped
<1>2. ASSUME NEW k \in Links PROVE "agent" \in wires'[k].held <=> channel' = k
  BY <1>1, <1>2 DEF ChannelIsHeld
<1>. QED
  BY <1>1, <1>2 DEF ChannelIsHeld

LEMMA AgentLeaves ==
    ASSUME IpcInv, channel # NoLink, wires' = Left(channel), channel' = NoLink
    PROVE  wires' \in [Links -> Wires] /\ ChannelIsHeld' /\ ChannelIsClean'
<1>1. channel \in Links /\ CallsTyped
  BY DEF IpcInv, CallsTyped
<1>2. wires' = [wires EXCEPT ![channel] = [wires[channel] EXCEPT !.held = wires[channel].held \ {"agent"}]]
  BY DEF Left
<1>3. [wires[channel] EXCEPT !.held = wires[channel].held \ {"agent"}] \in Wires
  BY <1>1, WireFields DEF Wires
<1>4. wires' \in [Links -> Wires]
  BY <1>1, <1>2, <1>3 DEF CallsTyped
<1>5. \A l \in Links : "agent" \notin wires'[l].held
  BY <1>1, <1>2, WireFields DEF IpcInv, ChannelIsHeld, CallsTyped, Wires
<1>. QED
  BY <1>4, <1>5, IpcAssumption DEF ChannelIsHeld, ChannelIsClean

LEMMA IpcAgentKeeps ==
    ASSUME IpcInv, NEW r \in Requests,
           Call(r) \/ DialFails(r) \/ SendRequest(r) \/ Receive(r) \/ ReceiveFails(r) \/ GiveUpCall(r) \/ GiveUpTurn(r)
    PROVE  IpcInv'
<1>1. /\ CallsTyped /\ TurnIsHeld /\ ChannelIsHeld /\ ChannelIsClean /\ AnswersAreOwn
      /\ r # NoRequest /\ calls \in [Requests -> {"idle", "ready", "sent", "returned"}]
      /\ turn \in AnyRequest /\ tries \in 0 .. Attempts /\ channel \in Links \cup {NoLink}
      /\ wires \in [Links -> Wires] /\ got \in [Requests -> [of : AnyRequest, ok : BOOLEAN]] /\ Attempts \in Nat
  BY IpcAssumption DEF IpcInv, CallsTyped
<1>2. ASSUME CallsTyped', TurnIsHeld', ChannelIsHeld', ChannelIsClean', AnswersAreOwn', UNCHANGED serviceVars PROVE IpcInv'
  BY <1>2, AgentKeepsCache DEF IpcInv
<1>3. CASE Call(r)
  <2>1. CallsTyped' /\ AnswersAreOwn' /\ ChannelIsHeld'
    BY <1>1, <1>3 DEF Call, CallsTyped, AnyRequest, AnswersAreOwn, ChannelIsHeld
  <2>2. TurnIsHeld'
    BY <1>1, <1>3, IpcAssumption DEF Call, TurnIsHeld
  <2>3. ChannelIsClean'
    BY <1>1, <1>3 DEF Call, ChannelIsClean, Clean, serviceVars
  <2>. QED
    BY <1>2, <1>3, <2>1, <2>2, <2>3 DEF Call
<1>4. CASE DialFails(r)
  <2>1. CallsTyped' /\ AnswersAreOwn' /\ ChannelIsHeld'
    BY <1>1, <1>4 DEF DialFails, CallsTyped, AnswersAreOwn, ChannelIsHeld
  <2>2. TurnIsHeld' /\ ChannelIsClean'
    BY <1>1, <1>4 DEF DialFails, TurnIsHeld, ChannelIsClean
  <2>. QED
    BY <1>2, <1>4, <2>1, <2>2 DEF DialFails
<1>5. CASE SendRequest(r)
  <2>1. turn = r /\ calls[r] = "ready" /\ channel \in Links /\ Clean(channel) /\ tries < Attempts
    BY <1>1, <1>5 DEF SendRequest, ChannelIsClean
  <2>2. CASE "service" \in wires[channel].held
    <3>1. /\ wires' = [wires EXCEPT ![channel] = [wires[channel] EXCEPT !.request = r]]
          /\ calls' = [calls EXCEPT ![r] = "sent"] /\ UNCHANGED <<tries, channel, turn, got, serviceVars>>
      BY <1>5, <2>2 DEF SendRequest
    <3>2. [wires[channel] EXCEPT !.request = r] \in Wires
      BY <1>1, <2>1, WireFields DEF Wires, AnyRequest
    <3>3. CallsTyped' /\ AnswersAreOwn' /\ ChannelIsHeld'
      BY <1>1, <2>1, <3>1, <3>2, WireFields DEF CallsTyped, AnswersAreOwn, ChannelIsHeld, Wires
    <3>4. TurnIsHeld'
      BY <1>1, <2>1, <3>1, IpcAssumption DEF TurnIsHeld
    <3>5. wires'[channel].request = r /\ wires'[channel].answer = NoAnswer /\ NoAnswer.of = NoRequest /\ workers'[channel].id = NoRequest
      BY <1>1, <2>1, <3>1, WireFields DEF Clean, Wires, NoAnswer, AnswerOf, serviceVars
    <3>6. ChannelIsClean'
      BY <1>1, <2>1, <3>1, <3>5 DEF ChannelIsClean, Carries
    <3>. QED
      BY <1>2, <3>1, <3>3, <3>4, <3>6
  <2>3. CASE "service" \notin wires[channel].held
    <3>1. /\ wires' = Left(channel) /\ channel' = NoLink /\ tries' = tries + 1
          /\ UNCHANGED <<calls, turn, got, serviceVars>>
      BY <1>5, <2>3 DEF SendRequest
    <3>2. wires' \in [Links -> Wires] /\ ChannelIsHeld' /\ ChannelIsClean'
      BY <2>1, <3>1, AgentLeaves, IpcAssumption
    <3>3. CallsTyped' /\ AnswersAreOwn' /\ TurnIsHeld'
      BY <1>1, <2>1, <3>1, <3>2 DEF CallsTyped, AnswersAreOwn, TurnIsHeld
    <3>. QED
      BY <1>2, <3>1, <3>2, <3>3
  <2>. QED
    BY <2>2, <2>3
<1>6. CASE Receive(r)
  <2>1. /\ turn = r /\ calls[r] = "sent" /\ channel \in Links /\ wires[channel].answer # NoAnswer
        /\ Carries(channel, r) /\ wires[channel].answer.of \in {r, NoRequest}
    BY <1>1, <1>6 DEF Receive, TurnIsHeld, ChannelIsClean, Carries
  <2>2. wires[channel].request = NoRequest /\ workers[channel].id = NoRequest
    BY <2>1 DEF Carries
  <2>3. /\ calls' = [calls EXCEPT ![r] = "returned"] /\ turn' = NoRequest
        /\ got' = [got EXCEPT ![r] = wires[channel].answer]
        /\ wires' = [wires EXCEPT ![channel] = [wires[channel] EXCEPT !.answer = NoAnswer]]
        /\ UNCHANGED <<tries, channel, serviceVars>>
    BY <1>6 DEF Receive, Return
  <2>4. NoAnswer \in [of : AnyRequest, ok : BOOLEAN] /\ NoRequest \in AnyRequest
    BY DEF NoAnswer, AnswerOf, AnyRequest
  <2>5. [wires[channel] EXCEPT !.answer = NoAnswer] \in Wires
    BY <1>1, <2>1, <2>4, WireFields DEF Wires
  <2>6. CallsTyped' /\ ChannelIsHeld'
    BY <1>1, <2>1, <2>3, <2>4, <2>5, WireFields DEF CallsTyped, ChannelIsHeld, Wires
  <2>7. AnswersAreOwn'
    BY <1>1, <2>1, <2>3 DEF AnswersAreOwn
  <2>8. TurnIsHeld'
    BY <1>1, <2>1, <2>3, IpcAssumption DEF TurnIsHeld
  <2>9. ChannelIsClean'
    BY <1>1, <2>1, <2>2, <2>3, WireFields DEF ChannelIsClean, Clean, Wires, serviceVars
  <2>. QED
    BY <1>2, <2>3, <2>6, <2>7, <2>8, <2>9
<1>7. CASE ReceiveFails(r)
  <2>1. turn = r /\ calls[r] = "sent" /\ channel \in Links /\ tries < Attempts /\ channel # NoLink
    BY <1>1, <1>7 DEF ReceiveFails, TurnIsHeld
  <2>2. /\ tries' = tries + 1 /\ calls' = [calls EXCEPT ![r] = "ready"]
        /\ wires' = Left(channel) /\ channel' = NoLink /\ UNCHANGED <<turn, got, serviceVars>>
    BY <1>7 DEF ReceiveFails
  <2>3. wires' \in [Links -> Wires] /\ ChannelIsHeld' /\ ChannelIsClean'
    BY <2>1, <2>2, AgentLeaves
  <2>4. CallsTyped' /\ AnswersAreOwn' /\ TurnIsHeld'
    BY <1>1, <2>1, <2>2, <2>3 DEF CallsTyped, AnswersAreOwn, TurnIsHeld
  <2>. QED
    BY <1>2, <2>2, <2>3, <2>4
<1>8. CASE GiveUpCall(r)
  <2>1. NoAnswer \in [of : AnyRequest, ok : BOOLEAN] /\ NoAnswer.of = NoRequest /\ NoRequest \in AnyRequest
    BY DEF NoAnswer, AnswerOf, AnyRequest
  <2>2. CallsTyped' /\ AnswersAreOwn' /\ ChannelIsHeld'
    BY <1>1, <1>8, <2>1 DEF GiveUpCall, Return, CallsTyped, AnswersAreOwn, ChannelIsHeld
  <2>4. TurnIsHeld'
    BY <1>1, <1>8, IpcAssumption DEF GiveUpCall, Return, TurnIsHeld
  <2>3. ChannelIsClean'
    BY <1>1, <1>8 DEF GiveUpCall, Return, ChannelIsClean, Clean, serviceVars
  <2>. QED
    BY <1>2, <1>8, <2>2, <2>3, <2>4 DEF GiveUpCall
<1>9. CASE GiveUpTurn(r)
  <2>1. turn # r
    BY <1>1, <1>9 DEF GiveUpTurn, TurnIsHeld
  <2>2. CallsTyped' /\ AnswersAreOwn' /\ ChannelIsHeld' /\ TurnIsHeld'
    BY <1>1, <1>9, <2>1 DEF GiveUpTurn, CallsTyped, AnswersAreOwn, ChannelIsHeld, TurnIsHeld
  <2>3. turn # NoRequest => turn \in Requests /\ calls'[turn] = calls[turn]
    BY <1>1, <1>9, <2>1 DEF GiveUpTurn, AnyRequest
  <2>4. ChannelIsClean'
    BY <1>1, <1>9, <2>1, <2>3 DEF GiveUpTurn, ChannelIsClean, Clean, Carries, serviceVars
  <2>. QED
    BY <1>2, <1>9, <2>2, <2>4 DEF GiveUpTurn
<1>. QED
  BY <1>3, <1>4, <1>5, <1>6, <1>7, <1>8, <1>9


\* An answer of a worker reaches the Agent that is still there; the worker has then
\* nothing more.
LEMMA ReplyKeeps ==
    ASSUME IpcInv, NEW l \in Links, NEW r \in Requests, NEW ok \in BOOLEAN,
           wires[l].request = r \/ workers[l].id = r, Reply(l, AnswerOf(r, ok)), UNCHANGED <<callVars, channel>>,
           workers' = workers \/ workers' = [workers EXCEPT ![l] = IdleWorker],
           workers'[l].id = NoRequest
    PROVE  wires' \in [Links -> Wires] /\ ChannelIsHeld' /\ ChannelIsClean'
<1>1. /\ CallsTyped /\ CacheTyped /\ ChannelIsHeld /\ ChannelIsClean /\ TurnIsHeld /\ r # NoRequest
      /\ wires \in [Links -> Wires] /\ channel \in Links \cup {NoLink} /\ channel' = channel /\ turn' = turn
      /\ calls' = calls /\ workers \in [Links -> [id : AnyRequest, runs : BOOLEAN]] /\ turn \in AnyRequest
  BY IpcAssumption DEF IpcInv, CallsTyped, CacheTyped, callVars
<1>2. AnswerOf(r, ok) \in [of : AnyRequest, ok : BOOLEAN] /\ FreeWire \in Wires /\ AnswerOf(r, ok).of = r
      /\ FreeWire.held = {} /\ NoRequest \in AnyRequest
  BY DEF AnswerOf, AnyRequest, FreeWire, Wires, NoAnswer
<1>. DEFINE wire == IF "agent" \in wires[l].held
                    THEN [wires[l] EXCEPT !.request = NoRequest, !.answer = AnswerOf(r, ok)] ELSE FreeWire
<1>3. wires' = [wires EXCEPT ![l] = wire]
  BY DEF Reply
<1>4. wire \in Wires
  BY <1>1, <1>2, WireFields DEF Wires
<1>5. "agent" \in wire.held <=> "agent" \in wires[l].held
  BY <1>1, <1>2, WireFields DEF Wires
<1>6. channel = l => wire.request = NoRequest /\ wire.answer.of = r
  BY <1>1, <1>2, WireFields DEF ChannelIsHeld, Wires
<1>. HIDE DEF wire
<1>7. wires' \in [Links -> Wires] /\ ChannelIsHeld'
  BY <1>1, <1>3, <1>4, <1>5 DEF ChannelIsHeld
<1>8. ASSUME channel = l PROVE ChannelIsClean'
  <2>1. turn # NoRequest /\ calls[turn] = "sent" /\ turn = r
    BY <1>1, <1>8, IpcAssumption DEF ChannelIsClean, Clean, Carries
  <2>2. wires'[l].request = NoRequest /\ wires'[l].answer.of = r /\ workers'[l].id = NoRequest
    BY <1>1, <1>3, <1>6, <1>8
  <2>. QED
    BY <1>1, <1>8, <2>1, <2>2 DEF ChannelIsClean, Carries
<1>9. ASSUME channel # l, channel # NoLink PROVE ChannelIsClean'
  <2>1. channel \in Links /\ wires'[channel] = wires[channel] /\ workers'[channel] = workers[channel]
    BY <1>1, <1>3, <1>9
  <2>. QED
    BY <1>1, <1>9, <2>1 DEF ChannelIsClean, Clean, Carries
<1>10. ASSUME channel = NoLink PROVE ChannelIsClean'
  BY <1>1, <1>10 DEF ChannelIsClean
<1>. QED
  BY <1>7, <1>8, <1>9, <1>10

\* A step of the Service on another connection, or one that takes nothing from it.
LEMMA OthersKeepClean ==
    ASSUME IpcInv, UNCHANGED <<callVars, channel>>,
           channel # NoLink => /\ wires'[channel].request \in {wires[channel].request, NoRequest}
                               /\ wires'[channel].answer = wires[channel].answer
                               /\ workers'[channel].id \in {workers[channel].id, NoRequest}
    PROVE  ChannelIsClean'
<1>1. ChannelIsClean /\ channel' = channel /\ turn' = turn /\ calls' = calls
  BY DEF IpcInv, callVars
<1>2. ASSUME channel # NoLink, Clean(channel) PROVE Clean(channel)'
  BY <1>1, <1>2 DEF Clean
<1>3. ASSUME channel # NoLink, Carries(channel, turn) PROVE Carries(channel, turn)'
  BY <1>1, <1>3 DEF Carries
<1>. QED
  BY <1>1, <1>2, <1>3 DEF ChannelIsClean

LEMMA IpcServiceKeeps ==
    ASSUME IpcInv, NEW l \in Links, Dial(l) \/ HangUp(l) \/ Forget(l)
    PROVE  IpcInv'
<1>1. /\ CallsTyped /\ TurnIsHeld /\ ChannelIsHeld /\ ChannelIsClean /\ AnswersAreOwn /\ l # NoLink
      /\ channel \in Links \cup {NoLink} /\ wires \in [Links -> Wires]
  BY IpcAssumption DEF IpcInv, CallsTyped
<1>2. FreeWire \in Wires
  BY DEF FreeWire, Wires, NoAnswer, AnswerOf, AnyRequest
<1>3. CASE Dial(l)
  <2>1. /\ wires' = [wires EXCEPT ![l] = [wires[l] EXCEPT !.held = {"agent", "service"}]]
        /\ channel' = l /\ UNCHANGED callVars /\ UNCHANGED serviceVars
        /\ Clean(l) /\ channel = NoLink /\ (turn # NoRequest => calls[turn] = "ready")
    BY <1>3 DEF Dial, Clean, FreeWire, IdleWorker
  <2>2. [wires[l] EXCEPT !.held = {"agent", "service"}] \in Wires
    BY <1>1, WireFields DEF Wires
  <2>3. CallsTyped' /\ AnswersAreOwn'
    BY <1>1, <2>1, <2>2 DEF CallsTyped, AnswersAreOwn, callVars
  <2>4. ChannelIsHeld'
    <3>1. ASSUME NEW k \in Links PROVE "agent" \in wires'[k].held <=> channel' = k
      <4>1. CASE k = l
        BY <1>1, <2>1, <4>1, WireFields DEF Wires
      <4>2. CASE k # l
        BY <1>1, <2>1, <4>2, IpcAssumption DEF ChannelIsHeld
      <4>. QED
        BY <4>1, <4>2
    <3>. QED
      BY <3>1 DEF ChannelIsHeld
  <2>7. TurnIsHeld'
    BY <1>1, <2>1 DEF TurnIsHeld, callVars
  <2>5. wires'[l].request = wires[l].request /\ wires'[l].answer = wires[l].answer
    BY <1>1, <2>1, WireFields DEF Wires
  <2>6. ChannelIsClean'
    BY <1>1, <2>1, <2>5 DEF ChannelIsClean, Clean, callVars, serviceVars
  <2>. QED
    BY <2>1, <2>3, <2>4, <2>6, <2>7, AgentKeepsCache DEF IpcInv
<1>4. CASE HangUp(l)
  <2>1. /\ wires' = [wires EXCEPT ![l] = [wires[l] EXCEPT !.held = wires[l].held \ {"service"}]]
        /\ UNCHANGED <<callVars, channel>> /\ UNCHANGED serviceVars
    BY <1>4 DEF HangUp
  <2>2. [wires[l] EXCEPT !.held = wires[l].held \ {"service"}] \in Wires
    BY <1>1, WireFields DEF Wires
  <2>3. wires' \in [Links -> Wires] /\ ChannelIsHeld'
    BY <1>1, <2>1, <2>2, WireFields DEF ChannelIsHeld, Wires
  <2>4. \A k \in Links : wires'[k].request = wires[k].request /\ wires'[k].answer = wires[k].answer
    BY <1>1, <2>1, WireFields DEF Wires
  <2>5. ChannelIsClean'
    BY <1>1, <2>1, <2>4, OthersKeepClean DEF serviceVars
  <2>. QED
    BY <2>1, <2>3, <2>5, AgentKeepsCache, ServiceKeepsCalls DEF IpcInv
<1>5. CASE Forget(l)
  <2>1. /\ wires' = [wires EXCEPT ![l] = FreeWire] /\ wires[l].held = {}
        /\ UNCHANGED <<callVars, channel>> /\ UNCHANGED serviceVars
    BY <1>5 DEF Forget
  <2>2. channel # l
    BY <1>1, <2>1 DEF ChannelIsHeld
  <2>3. wires' \in [Links -> Wires] /\ ChannelIsHeld'
    BY <1>1, <1>2, <2>1, <2>2 DEF ChannelIsHeld, FreeWire
  <2>4. ChannelIsClean'
    BY <1>1, <2>1, <2>2, OthersKeepClean DEF serviceVars
  <2>. QED
    BY <2>1, <2>3, <2>4, AgentKeepsCache, ServiceKeepsCalls DEF IpcInv
<1>. QED
  BY <1>3, <1>4, <1>5


LEMMA ReadRequestKeeps ==
    ASSUME IpcInv, NEW l \in Links, ReadRequest(l)
    PROVE  IpcInv'
<1>. DEFINE r == wires[l].request
<1>1. /\ CallsTyped /\ CacheTyped /\ ChannelIsHeld /\ ChannelIsClean /\ ExecutedIsKnown /\ AtMostOnce
      /\ workers \in [Links -> [id : AnyRequest, runs : BOOLEAN]] /\ wires \in [Links -> Wires]
      /\ executions \in [Requests -> Nat] /\ channel \in Links \cup {NoLink} /\ running \subseteq Requests
  BY DEF IpcInv, CallsTyped, CacheTyped
<1>2. /\ r \in Requests /\ r # NoRequest /\ workers[l] = IdleWorker
      /\ UNCHANGED <<callVars, channel>> /\ UNCHANGED <<completed, forgotten, restarts>>
  BY <1>1, WireFields DEF ReadRequest, AnyRequest
<1>3. IdleWorker.id = NoRequest
  BY DEF IdleWorker
<1>4. CASE Contains(completed, r)
  <2>1. Reply(l, AnswerOf(r, TRUE)) /\ UNCHANGED <<workers, running, executions>>
    BY <1>4 DEF ReadRequest
  <2>2. wires' \in [Links -> Wires] /\ ChannelIsHeld' /\ ChannelIsClean'
    BY <1>2, <1>3, <2>1, ReplyKeeps
  <2>3. CacheTyped' /\ ExecutedIsKnown' /\ AtMostOnce'
    BY <1>1, <1>2, <2>1 DEF CacheTyped, ExecutedIsKnown, AtMostOnce, Known, Contains
  <2>. QED
    BY <1>2, <2>2, <2>3, ServiceKeepsCalls DEF IpcInv
<1>5. CASE ~Contains(completed, r)
  <2>1. /\ workers' = [workers EXCEPT ![l] = [id |-> r, runs |-> r \notin running]]
        /\ wires' = [wires EXCEPT ![l] = [wires[l] EXCEPT !.request = NoRequest]]
        /\ running' = running \cup {r}
        /\ executions' = IF r \in running THEN executions ELSE [executions EXCEPT ![r] = executions[r] + 1]
    BY <1>5 DEF ReadRequest
  <2>2. [wires[l] EXCEPT !.request = NoRequest] \in Wires /\ [wires[l] EXCEPT !.request = NoRequest].held = wires[l].held
    BY <1>1, WireFields DEF Wires, AnyRequest
  <2>3. wires' \in [Links -> Wires] /\ ChannelIsHeld'
    BY <1>1, <1>2, <2>1, <2>2, EndsAreKept
  <2>4. [id |-> r, runs |-> r \notin running] \in [id : AnyRequest, runs : BOOLEAN]
    <3>. DEFINE runs == r \notin running
    <3>1. runs \in BOOLEAN /\ r \in AnyRequest
      BY <1>2 DEF AnyRequest
    <3>. HIDE DEF runs, r
    <3>. QED
      BY <3>1
  <2>5. CacheTyped'
    BY <1>1, <1>2, <2>1, <2>4 DEF CacheTyped
  <2>6. ASSUME channel = l PROVE ChannelIsClean'
    <3>1. turn # NoRequest /\ calls[turn] = "sent" /\ turn = r /\ wires[l].answer = NoAnswer
      BY <1>1, <1>2, <2>6, IpcAssumption DEF ChannelIsClean, Clean, Carries
    <3>2. wires'[l].request = NoRequest /\ wires'[l].answer = NoAnswer /\ NoAnswer.of = NoRequest /\ workers'[l].id = r
      BY <1>1, <2>1, <3>1, WireFields DEF Wires, NoAnswer, AnswerOf
    <3>. HIDE DEF r
    <3>. QED
      BY <1>2, <2>6, <3>1, <3>2, IpcAssumption DEF ChannelIsClean, Carries, callVars
  <2>7. ASSUME channel # l PROVE ChannelIsClean'
    <3>1. channel # NoLink => wires'[channel] = wires[channel] /\ workers'[channel] = workers[channel]
      BY <1>1, <2>1, <2>7
    <3>. QED
      BY <1>2, <3>1, OthersKeepClean
  <2>8. ~(r \in running) => executions[r] = 0 \/ r \in forgotten
    BY <1>1, <1>2, <1>5 DEF ExecutedIsKnown, Known
  <2>. HIDE DEF r
  <2>9. ExecutedIsKnown' /\ AtMostOnce'
    <3>1. CASE r \in running
      BY <1>1, <1>2, <2>1, <3>1 DEF ExecutedIsKnown, AtMostOnce, Known, Contains
    <3>2. CASE r \notin running
      BY <1>1, <1>2, <2>1, <2>8, <3>2 DEF ExecutedIsKnown, AtMostOnce, Known, Contains
    <3>. QED
      BY <3>1, <3>2
  <2>. QED
    BY <1>2, <2>3, <2>5, <2>6, <2>7, <2>9, ServiceKeepsCalls DEF IpcInv
<1>. QED
  BY <1>4, <1>5

\* What is evicted is the front of the answers.
LEMMA Eviction ==
    ASSUME NEW all \in Seq(Requests), NEW n \in 1 .. Len(all)
    PROVE  LET rest == SubSeq(all, n + 1, Len(all)) IN
           /\ rest \in Seq(Requests) /\ Len(rest) = Len(all) - n
           /\ \A r \in Requests : Contains(all, r) => Contains(rest, r) \/ r \in {all[i] : i \in 1 .. n}
<1>. DEFINE rest == SubSeq(all, n + 1, Len(all))
<1>1. Len(all) \in Nat /\ \A i \in 1 .. Len(all) : all[i] \in Requests
  BY LenProperties, ElementOfSeq
<1>2. /\ rest \in Seq(Requests)
      /\ Len(rest) = IF n + 1 <= Len(all) THEN Len(all) - (n + 1) + 1 ELSE 0
      /\ \A j \in 1 .. Len(all) - (n + 1) + 1 : rest[j] = all[n + 1 + j - 1]
  <2>1. n + 1 \in Int /\ Len(all) \in Int /\ \A i \in n + 1 .. Len(all) : all[i] \in Requests
    BY <1>1
  <2>. QED
    BY <2>1, SubSeqProperties
<1>. HIDE DEF rest
<1>3. Len(rest) = Len(all) - n
  BY <1>1, <1>2
<1>4. ASSUME NEW r \in Requests, NEW i \in 1 .. Len(all), all[i] = r, i > n PROVE Contains(rest, r)
  <2>1. i - n \in 1 .. Len(all) - (n + 1) + 1 /\ n + 1 + (i - n) - 1 = i
    BY <1>1, <1>4
  <2>2. rest[i - n] = r /\ i - n \in 1 .. Len(rest)
    BY <1>1, <1>2, <1>3, <1>4, <2>1
  <2>. QED
    BY <2>2 DEF Contains
<1>5. ASSUME NEW r \in Requests, Contains(all, r) PROVE Contains(rest, r) \/ r \in {all[i] : i \in 1 .. n}
  <2>1. PICK i \in 1 .. Len(all) : all[i] = r
    BY <1>5 DEF Contains
  <2>2. CASE i > n
    BY <1>4, <2>1, <2>2
  <2>3. CASE i <= n
    BY <1>1, <2>1, <2>3
  <2>. QED
    BY <1>1, <2>2, <2>3
<1>. QED
  BY <1>2, <1>3, <1>5 DEF rest


LEMMA ExecuteKeeps ==
    ASSUME IpcInv, NEW l \in Links, Execute(l)
    PROVE  IpcInv'
<1>. DEFINE r == workers[l].id
            all == Append(completed, r)
            evicted == Excess(all)
<1>1. /\ CacheTyped /\ ExecutedIsKnown /\ AtMostOnce
      /\ workers \in [Links -> [id : AnyRequest, runs : BOOLEAN]] /\ completed \in Seq(Requests)
      /\ Len(completed) <= CacheLimit /\ CacheLimit \in Nat /\ running \subseteq Requests /\ forgotten \subseteq Requests
  BY IpcAssumption DEF IpcInv, CacheTyped
<1>2. /\ r \in Requests /\ UNCHANGED <<callVars, channel>> /\ UNCHANGED <<executions, restarts>>
      /\ running' = running \ {r} /\ workers' = [workers EXCEPT ![l] = IdleWorker] /\ Reply(l, AnswerOf(r, TRUE))
      /\ IF evicted > 0
         THEN completed' = SubSeq(all, evicted + 1, Len(all)) /\ forgotten' = forgotten \cup {all[i] : i \in 1 .. evicted}
         ELSE completed' = all /\ UNCHANGED forgotten
  BY <1>1 DEF Execute, AnyRequest
<1>3. IdleWorker \in [id : AnyRequest, runs : BOOLEAN] /\ IdleWorker.id = NoRequest
  BY DEF IdleWorker, AnyRequest
<1>4. wires' \in [Links -> Wires] /\ ChannelIsHeld' /\ ChannelIsClean'
  BY <1>1, <1>2, <1>3, ReplyKeeps
<1>5. /\ all \in Seq(Requests) /\ Len(all) = Len(completed) + 1 /\ Len(completed) \in Nat
      /\ \A q \in Requests : Contains(completed, q) \/ q = r => Contains(all, q)
  <2>. HIDE DEF r
  <2>1. /\ all \in Seq(Requests) /\ Len(all) = Len(completed) + 1 /\ Len(completed) \in Nat /\ all[Len(completed) + 1] = r
        /\ \A i \in 1 .. Len(completed) : all[i] = completed[i]
    BY <1>1, <1>2, AppendProperties, LenProperties
  <2>. HIDE DEF all
  <2>. QED
    BY <2>1 DEF Contains
<1>6. evicted = Len(all) - CacheLimit
  BY DEF Excess
<1>. HIDE DEF r, all, evicted
<1>7. /\ completed' \in Seq(Requests) /\ Len(completed') <= CacheLimit
      /\ forgotten \subseteq forgotten' /\ forgotten' \subseteq Requests
      /\ \A q \in Requests : Contains(all, q) => Contains(completed', q) \/ q \in forgotten'
  <2>1. CASE evicted > 0
    <3>1. evicted \in 1 .. Len(all) /\ \A i \in 1 .. evicted : all[i] \in Requests
      BY <1>1, <1>5, <1>6, <2>1, ElementOfSeq
    <3>2. /\ completed' \in Seq(Requests) /\ Len(completed') = Len(all) - evicted
          /\ \A q \in Requests : Contains(all, q) => Contains(completed', q) \/ q \in {all[i] : i \in 1 .. evicted}
      BY <1>2, <1>5, <2>1, <3>1, Eviction
    <3>3. Len(completed') <= CacheLimit
      BY <1>1, <1>5, <1>6, <3>2
    <3>4. forgotten' = forgotten \cup {all[i] : i \in 1 .. evicted}
      BY <1>2, <2>1
    <3>5. forgotten' \subseteq Requests
      BY <1>1, <3>1, <3>4
    <3>. QED
      BY <3>2, <3>3, <3>4, <3>5
  <2>2. CASE ~(evicted > 0)
    BY <1>1, <1>2, <1>5, <1>6, <2>2
  <2>. QED
    BY <2>1, <2>2
<1>8. CacheTyped'
  BY <1>1, <1>2, <1>3, <1>7 DEF CacheTyped
<1>9. ASSUME NEW q \in Requests, Known(q) \/ q \in forgotten PROVE Known(q)' \/ q \in forgotten'
  BY <1>2, <1>5, <1>7, <1>9 DEF Known
<1>10. ExecutedIsKnown' /\ AtMostOnce'
  BY <1>1, <1>2, <1>7, <1>9 DEF ExecutedIsKnown, AtMostOnce
<1>. QED
  BY <1>2, <1>4, <1>8, <1>10, ServiceKeepsCalls DEF IpcInv

LEMMA JoinedKeeps ==
    ASSUME IpcInv, NEW l \in Links, Joined(l)
    PROVE  IpcInv'
<1>. DEFINE r == workers[l].id
<1>1. /\ CacheTyped /\ ExecutedIsKnown /\ AtMostOnce /\ workers \in [Links -> [id : AnyRequest, runs : BOOLEAN]]
  BY DEF IpcInv, CacheTyped
<1>2. PICK ok \in BOOLEAN : Reply(l, AnswerOf(r, ok))
  BY DEF Joined
<1>3. /\ r \in Requests /\ workers' = [workers EXCEPT ![l] = IdleWorker]
      /\ UNCHANGED <<callVars, channel>> /\ UNCHANGED <<running, completed, executions, forgotten, restarts>>
  BY <1>1 DEF Joined, AnyRequest
<1>4. IdleWorker \in [id : AnyRequest, runs : BOOLEAN] /\ IdleWorker.id = NoRequest
  BY DEF IdleWorker, AnyRequest
<1>5. wires' \in [Links -> Wires] /\ ChannelIsHeld' /\ ChannelIsClean'
  BY <1>1, <1>2, <1>3, <1>4, ReplyKeeps
<1>6. CacheTyped' /\ ExecutedIsKnown' /\ AtMostOnce'
  BY <1>1, <1>3, <1>4 DEF CacheTyped, ExecutedIsKnown, AtMostOnce, Known, Contains
<1>. QED
  BY <1>3, <1>5, <1>6, ServiceKeepsCalls DEF IpcInv

LEMMA ServiceRestartKeeps == ASSUME IpcInv, RestartService PROVE IpcInv'
<1>1. /\ CallsTyped /\ ChannelIsHeld /\ ChannelIsClean /\ wires \in [Links -> Wires] /\ channel \in Links \cup {NoLink}
      /\ IdleWorker \in [id : AnyRequest, runs : BOOLEAN] /\ IdleWorker.id = NoRequest /\ CacheLimit \in Nat
  BY IpcAssumption DEF IpcInv, CallsTyped, IdleWorker, AnyRequest
<1>2. /\ wires' = [l \in Links |-> Severed(wires[l])]
      /\ workers' = [l \in Links |-> IdleWorker] /\ running' = {}
      /\ executions' = [r \in Requests |-> 0] /\ forgotten' = {} /\ UNCHANGED <<callVars, channel>>
  BY DEF RestartService
<1>3. ASSUME NEW l \in Links
      PROVE  /\ wires'[l] \in Wires /\ wires'[l].request = NoRequest /\ wires'[l].answer = wires[l].answer
             /\ "agent" \in wires'[l].held <=> "agent" \in wires[l].held
  BY <1>1, <1>2, WireFields DEF Severed, Wires, AnyRequest
<1>4. wires' \in [Links -> Wires] /\ ChannelIsHeld'
  BY <1>1, <1>2, <1>3 DEF ChannelIsHeld
<1>5. ChannelIsClean'
  <2>1. channel # NoLink => /\ wires'[channel].request = NoRequest /\ wires'[channel].answer = wires[channel].answer
                            /\ workers'[channel].id = NoRequest
    BY <1>1, <1>2, <1>3
  <2>. QED
    BY <1>2, <2>1, OthersKeepClean
<1>7. completed' \in Seq(Requests) /\ Len(completed') = 0
  BY DEF RestartService
<1>9. \A r \in Requests : executions'[r] = 0
  BY <1>2
<1>8. CacheTyped'
  <2>1. workers' \in [Links -> [id : AnyRequest, runs : BOOLEAN]] /\ executions' \in [Requests -> Nat]
    BY <1>1, <1>2
  <2>2. completed' \in Seq(Requests) /\ Len(completed') <= CacheLimit
    BY <1>1, <1>7
  <2>. QED
    BY <1>2, <2>1, <2>2 DEF CacheTyped
<1>6. ExecutedIsKnown' /\ AtMostOnce'
  BY <1>9 DEF ExecutedIsKnown, AtMostOnce
<1>. QED
  BY <1>2, <1>4, <1>5, <1>6, <1>8, ServiceKeepsCalls DEF IpcInv

LEMMA IpcNextInv == ASSUME IpcInv, [IpcNext]_ipcVars PROVE IpcInv'
<1>1. CASE UNCHANGED ipcVars
  BY <1>1, AgentKeepsCache DEF ipcVars, serviceVars, IpcInv, CallsTyped, TurnIsHeld,
     ChannelIsHeld, ChannelIsClean, Clean, Carries, AnswersAreOwn
<1>2. ASSUME NEW r \in Requests,
             Call(r) \/ DialFails(r) \/ SendRequest(r) \/ Receive(r) \/ ReceiveFails(r) \/ GiveUpCall(r) \/ GiveUpTurn(r)
      PROVE  IpcInv'
  BY <1>2, IpcAgentKeeps
<1>3. ASSUME NEW l \in Links, Dial(l) \/ ReadRequest(l) \/ Execute(l) \/ Joined(l) \/ HangUp(l) \/ Forget(l)
      PROVE  IpcInv'
  BY <1>3, IpcServiceKeeps, ReadRequestKeeps, ExecuteKeeps, JoinedKeeps
<1>4. CASE RestartService
  BY <1>4, ServiceRestartKeeps
<1>. QED
  BY <1>1, <1>2, <1>3, <1>4 DEF IpcNext

-----------------------------------------------------------------------------
(* The circuit breaker of the self-heal engine (SelfHeal).                 *)

Circuits == [attempts : Nat, began : Nat, openUntil : Nat, halfOpen : BOOLEAN]

QueueTyped ==
    /\ engine \in {"stopped", "running", "stopping"} /\ life \in 0 .. MaxLives
    /\ backlog \in Seq(0 .. MaxLives) /\ Len(backlog) <= QueueSize /\ merging \in BOOLEAN
    /\ submits \in [Reporters -> 0 .. MaxLives]
    /\ heal \in {"none", "idle", "checking", "waiting", "repairing", "gone"}
    /\ engine = "stopped" => heal = "none"

BreakerTyped ==
    /\ trial \in BOOLEAN /\ circuit \in Circuits /\ stored \in Circuits /\ budget \in Budgets
    /\ clock \in 0 .. MaxTime /\ tally \in Nat /\ windowBegan \in Nat /\ wedged \in BOOLEAN
    /\ healFaults \in Nat

\* After the first MaxAttempts failures every further one is a trial, for which the
\* circuit had to be open until some time before.
Paced(record) ==
    /\ record.attempts <= MaxAttempts + MaxTime
    /\ record.attempts >= MaxAttempts => record.attempts - MaxAttempts < record.openUntil

\* What is being tried is an attempt that the circuit allowed.
AttemptIsAllowed ==
    heal \in {"waiting", "repairing"} =>
        IF trial THEN circuit.openUntil <= clock ELSE circuit.attempts < MaxAttempts

\* Without a fault the record counts the window as the clock has it.
RecordIsTrue == healFaults = 0 => windowBegan = circuit.began /\ tally <= circuit.attempts /\ tally <= MaxAttempts

HealInv ==
    /\ QueueTyped /\ BreakerTyped /\ Paced(circuit) /\ Paced(stored)
    /\ AttemptIsAllowed /\ RecordIsTrue /\ TrialIsReleased

Trying == {"waiting", "repairing"}

LEMMA NoBacklog == ASSUME NEW queue, queue = <<>> PROVE queue \in Seq(0 .. MaxLives) /\ Len(queue) = 0
  BY EmptySeq

\* The queue of an engine that is stopped.
LEMMA StoppedQueue ==
    ASSUME QueueTyped, backlog' = <<>>, engine' = "stopped", heal' = "none", merging' = FALSE, life' = life,
           submits' \in [Reporters -> 0 .. MaxLives]
    PROVE  QueueTyped'
<1>1. backlog' \in Seq(0 .. MaxLives) /\ Len(backlog') = 0
  BY NoBacklog
<1>2. Len(backlog') <= QueueSize
  <2>1. QueueSize \in Nat
    BY HealAssumption
  <2>. QED
    BY <1>1, <2>1
<1>3. engine' \in {"stopped", "running", "stopping"} /\ heal' \in {"none", "idle", "checking", "waiting", "repairing", "gone"}
  OBVIOUS
<1>4. life' \in 0 .. MaxLives
  BY DEF QueueTyped
<1>. QED
  BY <1>1, <1>2, <1>3, <1>4 DEF QueueTyped

LEMMA HealInitInv == ASSUME HealInit PROVE HealInv
<1>1. Closed \in Circuits /\ Closed.attempts = 0 /\ Closed.halfOpen = FALSE /\ Closed.began = Never /\ Never \in Nat
  BY HealAssumption DEF Closed, ClosedSince, Circuits, Never
<1>2. QueueTyped
  <2>1. backlog \in Seq(0 .. MaxLives) /\ Len(backlog) = 0
    BY NoBacklog DEF HealInit
  <2>. QED
    <3>1. submits \in [Reporters -> 0 .. MaxLives]
      BY HealAssumption DEF HealInit
    <3>2. life \in 0 .. MaxLives /\ Len(backlog) <= QueueSize
      BY <2>1, HealAssumption DEF HealInit
    <3>3. /\ engine = "stopped" /\ heal = "none" /\ merging = FALSE
      BY DEF HealInit
    <3>. QED
      BY <2>1, <3>1, <3>2, <3>3 DEF QueueTyped
<1>3. BreakerTyped
  <2>1. circuit \in Circuits /\ stored \in Circuits /\ windowBegan \in Nat
    BY <1>1 DEF HealInit
  <2>2. trial \in BOOLEAN /\ wedged \in BOOLEAN
    BY DEF HealInit
  <2>3. budget \in Budgets /\ clock \in 0 .. MaxTime /\ tally \in Nat /\ healFaults \in Nat
    BY HealAssumption DEF HealInit
  <2>. QED
    BY <2>1, <2>2, <2>3 DEF BreakerTyped
<1>5. Paced(circuit) /\ Paced(stored)
  BY <1>1, HealAssumption DEF HealInit, Paced
<1>4. AttemptIsAllowed /\ RecordIsTrue /\ TrialIsReleased
  BY <1>1, HealAssumption DEF HealInit, AttemptIsAllowed, RecordIsTrue, TrialIsReleased
<1>. QED
  BY <1>2, <1>3, <1>4, <1>5 DEF HealInv

\* Steps that leave the breaker alone.
LEMMA BreakerRests ==
    ASSUME HealInv, QueueTyped', UNCHANGED <<trial, budget, circuitVars>>,
           clock' \in 0 .. MaxTime, clock' >= clock, heal' \in Trying <=> heal \in Trying
    PROVE  HealInv'
<1>1. BreakerTyped' /\ Paced(circuit') /\ Paced(stored')
  BY DEF HealInv, BreakerTyped, circuitVars
<1>2. AttemptIsAllowed'
  BY HealAssumption DEF HealInv, BreakerTyped, Circuits, AttemptIsAllowed, circuitVars, Trying
<1>3. RecordIsTrue' /\ TrialIsReleased'
  BY DEF HealInv, RecordIsTrue, TrialIsReleased, circuitVars, Trying
<1>. QED
  BY <1>1, <1>2, <1>3 DEF HealInv

LEMMA EventEnds ==
    ASSUME QueueTyped, EndEvent, UNCHANGED lifeVars, heal # "none"
    PROVE  QueueTyped' /\ heal' \notin Trying
  BY DEF QueueTyped, EndEvent, lifeVars, Trying

\* The queue, the life of the engine and the clock.
LEMMA QueueKeeps ==
    ASSUME HealInv,
           \/ \E r \in Reporters : Admit(r) \/ Enqueue(r)
           \/ Take \/ Leave \/ NothingToHeal \/ Refuse \/ Repair \/ StartEngine \/ StopEngine \/ EngineStopped \/ Tick
    PROVE  HealInv'
<1>1. /\ QueueTyped /\ BreakerTyped /\ clock \in 0 .. MaxTime /\ clock >= clock /\ QueueSize \in Nat
      /\ life \in 0 .. MaxLives /\ MaxLives \in Nat /\ backlog \in Seq(0 .. MaxLives) /\ Len(backlog) <= QueueSize
      /\ Len(backlog) \in Nat
  BY HealAssumption, LenProperties DEF HealInv, QueueTyped, BreakerTyped
<1>2. ASSUME NEW r \in Reporters, Admit(r) PROVE HealInv'
  <2>1. QueueTyped'
    BY <1>1, <1>2 DEF Admit, QueueTyped, queueVars, lifeVars
  <2>. QED
    BY <1>1, <1>2, <2>1, BreakerRests DEF Admit, Trying
<1>3. ASSUME NEW r \in Reporters, Enqueue(r) PROVE HealInv'
  <2>1. submits[r] \in 0 .. MaxLives
    BY <1>1 DEF QueueTyped
  <2>2. /\ Append(backlog, submits[r]) \in Seq(0 .. MaxLives)
        /\ Len(Append(backlog, submits[r])) = Len(backlog) + 1
    BY <1>1, <2>1, AppendProperties
  <2>6. ASSUME Len(backlog) < QueueSize PROVE backlog' \in Seq(0 .. MaxLives) /\ Len(backlog') <= QueueSize
    <3>1. backlog' = Append(backlog, submits[r]) /\ merging' = merging
      BY <1>3, <2>6 DEF Enqueue
    <3>. QED
      BY <1>1, <2>2, <2>6, <3>1
  <2>7. ASSUME ~(Len(backlog) < QueueSize) PROVE backlog' \in Seq(0 .. MaxLives) /\ Len(backlog') <= QueueSize
    <3>1. backlog' = backlog /\ merging' = FALSE
      BY <1>3, <2>7 DEF Enqueue
    <3>. QED
      BY <1>1, <3>1
  <2>3. backlog' \in Seq(0 .. MaxLives) /\ Len(backlog') <= QueueSize
    BY <2>6, <2>7
  <2>8. merging' \in BOOLEAN
    BY <1>1, <1>3 DEF Enqueue, QueueTyped
  <2>4. submits' \in [Reporters -> 0 .. MaxLives] /\ UNCHANGED <<lifeVars, heal, trial, budget, clock, circuitVars>>
    BY <1>1, <1>3 DEF Enqueue, QueueTyped
  <2>5. QueueTyped'
    BY <1>1, <2>3, <2>4, <2>8 DEF QueueTyped, lifeVars
  <2>. QED
    BY <1>1, <2>4, <2>5, BreakerRests DEF Trying
<1>4. CASE Take
  <2>1. backlog # <<>> /\ backlog' = Tail(backlog)
    BY <1>4 DEF Take
  <2>2. Tail(backlog) \in Seq(0 .. MaxLives) /\ Len(Tail(backlog)) = Len(backlog) - 1
    BY <1>1, <2>1, HeadTailProperties
  <2>3. backlog' \in Seq(0 .. MaxLives) /\ Len(backlog') <= QueueSize
    BY <1>1, <2>1, <2>2
  <2>4. heal = "idle" /\ heal' \in {"gone", "checking"} /\ UNCHANGED <<lifeVars, merging, submits, trial, budget, clock, circuitVars>>
    BY <1>4 DEF Take
  <2>5. QueueTyped'
    BY <1>1, <2>3, <2>4 DEF QueueTyped, lifeVars
  <2>. QED
    BY <1>1, <2>4, <2>5, BreakerRests DEF Trying
<1>5. CASE Leave
  <2>1. QueueTyped'
    BY <1>1, <1>5 DEF Leave, QueueTyped, queueVars, lifeVars
  <2>. QED
    BY <1>1, <1>5, <2>1, BreakerRests DEF Leave, Trying
<1>6. CASE NothingToHeal \/ Refuse
  <2>1. heal = "checking" /\ EndEvent /\ UNCHANGED <<lifeVars, event, trial, budget, clock, circuitVars>>
    BY <1>6 DEF NothingToHeal, Refuse
  <2>. QED
    BY <1>1, <2>1, EventEnds, BreakerRests DEF Trying
<1>7. CASE Repair
  <2>1. QueueTyped'
    BY <1>1, <1>7 DEF Repair, QueueTyped, queueVars, lifeVars
  <2>. QED
    BY <1>1, <1>7, <2>1, BreakerRests DEF Repair, Trying
<1>8. CASE StartEngine
  <2>1. QueueTyped' /\ heal \in {"none", "idle", "checking", "waiting", "repairing", "gone"}
    BY <1>1, <1>8 DEF StartEngine, QueueTyped, queueVars
  <2>2. heal \notin Trying
    BY <1>1, <1>8 DEF StartEngine, QueueTyped, Trying
  <2>. QED
    BY <1>1, <1>8, <2>1, <2>2, BreakerRests DEF StartEngine, Trying
<1>9. CASE StopEngine
  <2>1. QueueTyped'
    BY <1>1, <1>9 DEF StopEngine, QueueTyped, queueVars
  <2>. QED
    BY <1>1, <1>9, <2>1, BreakerRests DEF StopEngine
<1>10. CASE EngineStopped
  <2>1. QueueTyped'
    BY <1>1, <1>10, StoppedQueue DEF EngineStopped, QueueTyped
  <2>. QED
    BY <1>1, <1>10, <2>1, BreakerRests DEF EngineStopped, Trying
<1>11. CASE Tick
  <2>1. QueueTyped' /\ clock' \in 0 .. MaxTime /\ clock' >= clock /\ UNCHANGED <<trial, budget, circuitVars>> /\ heal' = heal
    BY <1>1, <1>11, HealAssumption DEF Tick, QueueTyped, queueVars, lifeVars
  <2>. QED
    BY <1>1, <2>1, BreakerRests
<1>. QED
  BY <1>2, <1>3, <1>4, <1>5, <1>6, <1>7, <1>8, <1>9, <1>10, <1>11

-----------------------------------------------------------------------------
(* The attempts on the circuit *)

\* What one step does to the record, the file, the tally and the attempt.
LEMMA CircuitMoves ==
    ASSUME HealInv, QueueTyped', trial' \in BOOLEAN, circuit' \in Circuits, Paced(circuit'),
           stored' \in {stored, circuit'}, UNCHANGED <<budget, clock>>,
           tally' \in Nat, windowBegan' \in Nat, wedged' \in BOOLEAN, healFaults' \in {healFaults, healFaults + 1},
           AttemptIsAllowed', RecordIsTrue', TrialIsReleased'
    PROVE  HealInv'
<1>1. stored' \in Circuits /\ Paced(stored')
  BY DEF HealInv, BreakerTyped
<1>2. BreakerTyped'
  BY <1>1 DEF HealInv, BreakerTyped
<1>. QED
  BY <1>1, <1>2 DEF HealInv

LEMMA AgedRecord ==
    ASSUME HealInv
    PROVE  /\ Aged(circuit) \in Circuits /\ Paced(Aged(circuit))
           /\ Aged(circuit) # circuit => Aged(circuit).halfOpen = FALSE
           /\ Aged(circuit).halfOpen => circuit.halfOpen
<1>1. clock \in Nat /\ circuit \in Circuits /\ Paced(circuit)
  BY DEF HealInv, BreakerTyped
<1>2. Aged(circuit) = circuit \/ Aged(circuit) = [attempts |-> 0, began |-> clock, openUntil |-> Never, halfOpen |-> FALSE]
  BY DEF Aged, ClosedSince
<1>3. Paced([attempts |-> 0, began |-> clock, openUntil |-> Never, halfOpen |-> FALSE])
  BY HealAssumption DEF Paced
<1>4. [attempts |-> 0, began |-> clock, openUntil |-> Never, halfOpen |-> FALSE] \in Circuits
  BY <1>1, HealAssumption DEF Circuits, Never
<1>5. CASE Aged(circuit) = circuit
  BY <1>1, <1>5
<1>6. CASE Aged(circuit) = [attempts |-> 0, began |-> clock, openUntil |-> Never, halfOpen |-> FALSE]
  <2>1. Aged(circuit) \in Circuits /\ Paced(Aged(circuit))
    BY <1>3, <1>4, <1>6
  <2>2. Aged(circuit).halfOpen = FALSE
    BY <1>6
  <2>. QED
    BY <2>1, <2>2
<1>. QED
  BY <1>2, <1>5, <1>6

\* The types of the queue when only the worker moves.
LEMMA WorkerMoves ==
    ASSUME QueueTyped, UNCHANGED <<lifeVars, backlog, submits>>, merging' \in BOOLEAN,
           heal # "none", heal' \in {"idle", "checking", "waiting", "repairing", "gone"}
    PROVE  QueueTyped'
  BY DEF QueueTyped, lifeVars

LEMMA AllowKeeps == ASSUME HealInv, Allow PROVE HealInv'
<1>. DEFINE rec == Aged(circuit)
<1>1. /\ rec.openUntil = Never /\ rec.attempts < MaxAttempts /\ heal' = "waiting" /\ trial' = FALSE
      /\ circuit' = rec /\ CountWindow /\ wedged' = (wedged /\ rec.halfOpen)
      /\ UNCHANGED <<lifeVars, queueVars, event, budget, clock, stored, healFaults>>
  BY DEF Allow
<1>2. rec \in Circuits /\ Paced(rec) /\ (rec.halfOpen => circuit.halfOpen)
  BY AgedRecord
<1>3. QueueTyped'
  BY <1>1, WorkerMoves DEF HealInv, QueueTyped, queueVars, Allow
<1>4. /\ clock \in Nat /\ windowBegan \in Nat /\ tally \in Nat /\ budget.window \in Nat /\ wedged \in BOOLEAN
      /\ circuit \in Circuits
  BY HealAssumption DEF HealInv, BreakerTyped
<1>5. tally' \in Nat /\ windowBegan' \in Nat /\ wedged' \in BOOLEAN
  BY <1>1, <1>4 DEF CountWindow
<1>6. RecordIsTrue'
  <2>1. SUFFICES ASSUME healFaults' = 0 PROVE windowBegan' = circuit'.began /\ tally' <= circuit'.attempts /\ tally' <= MaxAttempts
    BY DEF RecordIsTrue
  <2>2. windowBegan = circuit.began /\ tally <= circuit.attempts /\ tally <= MaxAttempts
    BY <1>1, <2>1 DEF HealInv, RecordIsTrue
  <2>3. CASE circuit.began = Never \/ clock >= circuit.began + budget.window
    <3>1. rec = [attempts |-> 0, began |-> clock, openUntil |-> Never, halfOpen |-> FALSE]
      BY <2>3 DEF Aged, ClosedSince
    <3>2. tally' = 0 /\ windowBegan' = clock
      BY <1>1, <2>2, <2>3 DEF CountWindow
    <3>. QED
      BY <1>1, <3>1, <3>2, HealAssumption
  <2>4. CASE ~(circuit.began = Never \/ clock >= circuit.began + budget.window)
    <3>1. rec = circuit
      BY <2>4 DEF Aged
    <3>2. tally' = tally /\ windowBegan' = windowBegan
      BY <1>1, <2>2, <2>4 DEF CountWindow
    <3>. QED
      BY <1>1, <2>2, <3>1, <3>2
  <2>. QED
    BY <2>3, <2>4
<1>7. AttemptIsAllowed'
  BY <1>1 DEF AttemptIsAllowed
<1>8. TrialIsReleased'
  <2>1. SUFFICES ASSUME circuit'.halfOpen PROVE wedged'
    BY DEF TrialIsReleased
  <2>2. rec.halfOpen /\ circuit.halfOpen
    BY <1>1, <1>2, <2>1
  <2>3. rec = circuit
    BY <2>2, AgedRecord
  <2>4. heal = "checking"
    BY DEF Allow
  <2>. QED
    BY <1>1, <2>2, <2>4 DEF HealInv, TrialIsReleased
<1>9. trial' \in BOOLEAN /\ circuit' \in Circuits /\ Paced(circuit') /\ stored' = stored /\ healFaults' = healFaults
      /\ budget' = budget /\ clock' = clock
  BY <1>1, <1>2
<1>. QED
  BY <1>3, <1>5, <1>6, <1>7, <1>8, <1>9, CircuitMoves

LEMMA PersistKeeps ==
    ASSUME NEW rec, Persist(rec), circuit' = rec
    PROVE  stored' \in {stored, circuit'} /\ healFaults' \in {healFaults, healFaults + 1}
  BY DEF Persist

LEMMA AllowTrialKeeps == ASSUME HealInv, AllowTrial PROVE HealInv'
<1>. DEFINE rec == [circuit EXCEPT !.halfOpen = TRUE]
<1>1. /\ heal = "checking" /\ Aged(circuit) = circuit /\ circuit.openUntil <= clock /\ ~circuit.halfOpen
      /\ circuit' = rec /\ Persist(rec) /\ UNCHANGED <<lifeVars, backlog, submits, event, budget, clock, tally, windowBegan>>
  BY DEF AllowTrial, HealInv, BreakerTyped, Circuits
<1>2. \/ heal' = "waiting" /\ trial' = TRUE /\ merging' = merging /\ wedged' = wedged
      \/ heal' = "idle" /\ merging' = FALSE /\ wedged' = TRUE /\ trial' = trial
  BY DEF AllowTrial
<1>3. QueueTyped'
  BY <1>1, <1>2, WorkerMoves DEF HealInv, QueueTyped
<1>4. /\ rec \in Circuits /\ rec.attempts = circuit.attempts /\ rec.began = circuit.began
      /\ rec.openUntil = circuit.openUntil /\ rec.halfOpen = TRUE
  BY DEF HealInv, BreakerTyped, Circuits
<1>5. Paced(rec)
  BY <1>4 DEF HealInv, Paced
<1>6. stored' \in {stored, circuit'} /\ healFaults' \in {healFaults, healFaults + 1}
  BY <1>1, PersistKeeps
<1>7. trial' \in BOOLEAN /\ wedged' \in BOOLEAN
  BY <1>2 DEF HealInv, BreakerTyped
<1>8. AttemptIsAllowed'
  BY <1>1, <1>2, <1>4 DEF AttemptIsAllowed
<1>9. healFaults \in Nat
  BY DEF HealInv, BreakerTyped
<1>10. RecordIsTrue'
  BY <1>1, <1>4, <1>6, <1>9 DEF HealInv, RecordIsTrue
<1>11. TrialIsReleased'
  BY <1>2 DEF TrialIsReleased
<1>12. tally' \in Nat /\ windowBegan' \in Nat /\ budget' = budget /\ clock' = clock
  BY <1>1 DEF HealInv, BreakerTyped
<1>. QED
  BY <1>1, <1>3, <1>4, <1>5, <1>6, <1>7, <1>8, <1>10, <1>11, <1>12, CircuitMoves

LEMMA CancelKeeps == ASSUME HealInv, Cancel PROVE HealInv'
<1>. DEFINE rec == [circuit EXCEPT !.halfOpen = FALSE]
<1>1. QueueTyped' /\ heal' = "idle"
  BY EventEnds DEF HealInv, Cancel, EndEvent
<1>2. UNCHANGED <<event, trial, budget, clock, tally, windowBegan, wedged>> /\ heal = "waiting"
  BY DEF Cancel
<1>3. /\ rec \in Circuits /\ rec.attempts = circuit.attempts /\ rec.began = circuit.began
      /\ rec.openUntil = circuit.openUntil /\ rec.halfOpen = FALSE
  BY DEF HealInv, BreakerTyped, Circuits
<1>4. CASE trial /\ circuit.halfOpen
  <2>1. circuit' = rec /\ Persist(rec)
    BY <1>4 DEF Cancel
  <2>2. Paced(rec)
    BY <1>3 DEF HealInv, Paced
  <2>3. stored' \in {stored, circuit'} /\ healFaults' \in {healFaults, healFaults + 1}
    BY <2>1, PersistKeeps
  <2>4. AttemptIsAllowed' /\ TrialIsReleased'
    BY <1>1, <1>3, <2>1 DEF AttemptIsAllowed, TrialIsReleased
  <2>5. healFaults \in Nat
    BY DEF HealInv, BreakerTyped
  <2>6. RecordIsTrue'
    BY <1>2, <1>3, <2>1, <2>3, <2>5 DEF HealInv, RecordIsTrue
  <2>7. trial' \in BOOLEAN /\ wedged' \in BOOLEAN /\ tally' \in Nat /\ windowBegan' \in Nat /\ budget' = budget /\ clock' = clock
    BY <1>2 DEF HealInv, BreakerTyped
  <2>. QED
    BY <1>1, <1>3, <2>1, <2>2, <2>3, <2>4, <2>6, <2>7, CircuitMoves
<1>5. CASE ~(trial /\ circuit.halfOpen)
  <2>1. UNCHANGED <<circuit, stored, healFaults>>
    BY <1>5 DEF Cancel
  <2>2. AttemptIsAllowed'
    BY <1>1 DEF AttemptIsAllowed
  <2>3. TrialIsReleased'
    BY <1>2, <1>5, <2>1 DEF TrialIsReleased, HealInv
  <2>4. RecordIsTrue' /\ BreakerTyped' /\ Paced(circuit') /\ Paced(stored')
    BY <1>2, <2>1 DEF RecordIsTrue, BreakerTyped, HealInv
  <2>. QED
    BY <1>1, <2>2, <2>3, <2>4 DEF HealInv
<1>. QED
  BY <1>4, <1>5

LEMMA SucceededKeeps == ASSUME HealInv, Succeeded PROVE HealInv'
<1>. DEFINE rec == [circuit EXCEPT !.attempts = 0, !.openUntil = Never, !.halfOpen = FALSE]
<1>1. QueueTyped' /\ heal' = "idle"
  BY EventEnds DEF HealInv, Succeeded, EndEvent
<1>2. UNCHANGED <<event, trial, budget, clock, windowBegan>> /\ tally' = 0 /\ wedged' = FALSE /\ circuit' = rec /\ Persist(rec)
  BY DEF Succeeded
<1>3. rec \in Circuits /\ rec.attempts = 0 /\ rec.began = circuit.began /\ rec.halfOpen = FALSE
  <2>1. circuit \in Circuits /\ Never \in Nat
    BY HealAssumption DEF HealInv, BreakerTyped, Never
  <2>. QED
    BY <2>1 DEF Circuits
<1>4. Paced(rec)
  BY <1>3, HealAssumption DEF Paced
<1>5. stored' \in {stored, circuit'} /\ healFaults' \in {healFaults, healFaults + 1}
  BY <1>2, PersistKeeps
<1>6. AttemptIsAllowed' /\ TrialIsReleased'
  BY <1>1, <1>2, <1>3 DEF AttemptIsAllowed, TrialIsReleased
<1>7. healFaults \in Nat /\ windowBegan \in Nat /\ trial \in BOOLEAN
  BY DEF HealInv, BreakerTyped
<1>8. RecordIsTrue'
  BY <1>2, <1>3, <1>5, <1>7, HealAssumption DEF HealInv, RecordIsTrue
<1>. QED
  BY <1>1, <1>2, <1>3, <1>4, <1>5, <1>6, <1>7, <1>8, CircuitMoves

LEMMA FailedKeeps == ASSUME HealInv, Failed PROVE HealInv'
<1>. DEFINE tried == circuit.attempts + 1
            until == IF tried >= MaxAttempts THEN clock + budget.cooldown ELSE circuit.openUntil
            rec == [circuit EXCEPT !.attempts = tried, !.halfOpen = FALSE,
                        !.openUntil = IF tried >= MaxAttempts THEN clock + budget.cooldown ELSE @]
<1>1. QueueTyped' /\ heal' = "idle"
  BY EventEnds DEF HealInv, Failed, EndEvent
<1>2. /\ UNCHANGED <<event, trial, budget, clock, windowBegan>> /\ circuit' = rec /\ Persist(rec) /\ heal = "repairing"
      /\ tally' = (IF trial THEN tally ELSE tally + 1) /\ wedged' = FALSE
  BY DEF Failed
<1>3. /\ clock \in 0 .. MaxTime /\ budget.cooldown \in Nat \ {0} /\ circuit \in Circuits /\ Paced(circuit)
      /\ healFaults \in Nat /\ windowBegan \in Nat /\ tally \in Nat /\ trial \in BOOLEAN
  BY HealAssumption DEF HealInv, BreakerTyped
<1>4. tried \in Nat /\ until \in Nat
  BY <1>3, HealAssumption DEF Circuits
<1>5. rec \in Circuits /\ rec.attempts = tried /\ rec.began = circuit.began /\ rec.openUntil = until /\ rec.halfOpen = FALSE
  BY <1>3, <1>4 DEF Circuits
<1>6. IF trial THEN circuit.openUntil <= clock ELSE circuit.attempts < MaxAttempts
  BY <1>2 DEF HealInv, AttemptIsAllowed
<1>7. Paced(rec)
  <2>1. circuit.attempts \in Nat /\ circuit.openUntil \in Nat
    BY <1>3 DEF Circuits
  <2>2. CASE trial
    BY <1>3, <1>5, <1>6, <2>1, <2>2, HealAssumption DEF Paced
  <2>3. CASE ~trial
    BY <1>3, <1>5, <1>6, <2>1, <2>3, HealAssumption DEF Paced
  <2>. QED
    BY <2>2, <2>3
<1>8. stored' \in {stored, circuit'} /\ healFaults' \in {healFaults, healFaults + 1}
  BY <1>2, PersistKeeps
<1>9. AttemptIsAllowed' /\ TrialIsReleased'
  BY <1>1, <1>2, <1>5 DEF AttemptIsAllowed, TrialIsReleased
<1>10. tally' \in Nat
  BY <1>2, <1>3
<1>11. RecordIsTrue'
  <2>1. SUFFICES ASSUME healFaults' = 0 PROVE windowBegan' = circuit'.began /\ tally' <= circuit'.attempts /\ tally' <= MaxAttempts
    BY DEF RecordIsTrue
  <2>2. windowBegan = circuit.began /\ tally <= circuit.attempts /\ tally <= MaxAttempts /\ circuit.attempts \in Nat
    BY <1>3, <1>8, <2>1 DEF HealInv, RecordIsTrue, Circuits
  <2>3. CASE trial
    BY <1>2, <1>3, <1>5, <2>2, <2>3, HealAssumption
  <2>4. CASE ~trial
    BY <1>2, <1>3, <1>5, <1>6, <2>2, <2>4, HealAssumption
  <2>. QED
    BY <2>3, <2>4
<1>. QED
  BY <1>1, <1>2, <1>3, <1>5, <1>7, <1>8, <1>9, <1>10, <1>11, CircuitMoves

LEMMA DieKeeps == ASSUME HealInv, DieHealing PROVE HealInv'
<1>1. /\ engine' = "stopped" /\ heal' = "none" /\ backlog' = <<>> /\ merging' = FALSE /\ life' = life
      /\ submits' = [r \in Reporters |-> 0] /\ circuit' = stored /\ wedged' = (wedged \/ stored.halfOpen)
      /\ healFaults' = healFaults + 1
      /\ UNCHANGED <<life, event, trial, stored, budget, clock, tally, windowBegan>>
  BY DEF DieHealing
<1>2. QueueTyped'
  <2>1. submits' \in [Reporters -> 0 .. MaxLives]
    BY <1>1, HealAssumption
  <2>. QED
    BY <1>1, <2>1, StoppedQueue DEF HealInv
<1>3. BreakerTyped' /\ Paced(circuit') /\ Paced(stored')
  <2>1. stored.halfOpen \in BOOLEAN /\ wedged \in BOOLEAN
    BY DEF HealInv, BreakerTyped, Circuits
  <2>2. wedged' \in BOOLEAN
    BY <1>1, <2>1
  <2>3. healFaults' \in Nat
    BY <1>1 DEF HealInv, BreakerTyped
  <2>. QED
    BY <1>1, <2>2, <2>3 DEF HealInv, BreakerTyped
<1>4. AttemptIsAllowed' /\ TrialIsReleased'
  BY <1>1 DEF AttemptIsAllowed, TrialIsReleased
<1>5. RecordIsTrue'
  <2>1. healFaults \in Nat
    BY DEF HealInv, BreakerTyped
  <2>. QED
    BY <1>1, <2>1 DEF RecordIsTrue
<1>. QED
  BY <1>2, <1>3, <1>4, <1>5 DEF HealInv

LEMMA HealNextInv == ASSUME HealInv, [HealNext]_healVars PROVE HealInv'
<1>1. CASE HealNext
  BY <1>1, QueueKeeps, AllowKeeps, AllowTrialKeeps, CancelKeeps, SucceededKeeps, FailedKeeps,
     DieKeeps DEF HealNext
<1>2. CASE UNCHANGED healVars
  BY <1>2 DEF healVars, HealInv, QueueTyped, BreakerTyped, Paced, AttemptIsAllowed, RecordIsTrue,
     TrialIsReleased
<1>. QED
  BY <1>1, <1>2

LEMMA HealIsSafe == ASSUME HealInv PROVE BreakerIsSafe /\ HealTypeOK
<1>1. BudgetHolds
  BY DEF HealInv, BreakerTyped, RecordIsTrue, BudgetHolds
<1>2. BreakerIsSafe
  BY <1>1 DEF HealInv, BreakerIsSafe
<1>3. HealTypeOK
  BY HealAssumption DEF HealInv, QueueTyped, BreakerTyped, Circuits, Paced, HealTypeOK
<1>. QED
  BY <1>2, <1>3

-----------------------------------------------------------------------------
(* Subscriptions, upstream proxies and their secrets (Sources).            *)

Holdings == [subs : SUBSET Providers, nodes : [Providers -> 0 .. MaxFetches], ups : SUBSET Upstreams]
Works ==
    [op : {"add", "remove", "refresh", "create", "delete"}, owner : Owners \cup {"all"},
     step : {"cache", "metadata", "fetch", "apply", "forget", "forgetFailed"},
     was : Holdings, undo : Holdings, faults : Nat, fetched : SUBSET Providers]

Answers ==
    [op : {"none", "add", "remove", "refresh", "create", "delete"}, ok : BOOLEAN, was : Holdings, damaged : BOOLEAN]

SourcesTyped ==
    /\ subs \subseteq Providers /\ subsFile \subseteq Providers
    /\ nodes \in [Providers -> 0 .. MaxFetches] /\ nodesFile \in [Providers -> 0 .. MaxFetches]
    /\ ups \subseteq Upstreams /\ secrets \subseteq Owners /\ sourceFaults \in 0 .. MaxSourceFaults
    /\ answered \in Answers /\ (work # Idle => work \in Works /\ work.faults <= sourceFaults)

Saving(w) == w # Idle /\ w.step \in {"cache", "metadata"}
Whole(s, n) == \A p \in Providers : n[p] # 0 => p \in s

\* Memory runs ahead of the file of the subscriptions only while it is being saved, and
\* a write that fails takes it back.
FilesFollow == IF Saving(work) THEN work.undo.subs = subsFile ELSE subs = subsFile

\* What each operation holds at each of its steps.
Adding ==
    work # Idle /\ work.op = "add" =>
        /\ work.owner \in Providers /\ work.step \in {"cache", "metadata", "fetch", "forgetFailed"}
        /\ Saving(work) => work.owner \notin subsFile /\ subs = subsFile \cup {work.owner}
        /\ work.step = "forgetFailed" => work.owner \notin subs
Removing ==
    work # Idle /\ work.op = "remove" =>
        /\ work.owner \in Providers /\ work.step \in {"cache", "metadata", "apply", "forget"}
        /\ ups = work.was.ups /\ work.owner \in work.was.subs
        /\ Saving(work) /\ work.owner \in subs =>
              subs = work.was.subs /\ nodes = work.was.nodes /\ sourceFaults > work.faults
        /\ Saving(work) /\ work.owner \notin subs => work.undo = work.was /\ subs \subseteq subsFile
        /\ ~Saving(work) => work.owner \notin subs
Refreshing ==
    work # Idle /\ work.op = "refresh" =>
        work.step \in {"cache", "metadata", "apply"} /\ subs = subsFile
Creating ==
    work # Idle /\ work.op = "create" =>
        /\ work.owner \in Upstreams /\ work.step \in {"apply", "forgetFailed"}
        /\ subs = work.was.subs /\ nodes = work.was.nodes
        /\ work.step = "apply" => ups = work.was.ups \cup {work.owner} /\ work.owner \notin work.was.ups
        /\ work.step = "forgetFailed" =>
              \/ ups = work.was.ups /\ work.owner \notin ups /\ sourceFaults > work.faults
              \/ sourceFaults > work.faults + 1
Deleting ==
    work # Idle /\ work.op = "delete" =>
        /\ work.owner \in Upstreams /\ work.step \in {"apply", "forget"}
        /\ subs = work.was.subs /\ nodes = work.was.nodes
        /\ work.owner \in work.was.ups /\ ups = work.was.ups \ {work.owner}
Compiling ==
    work # Idle /\ work.step = "forget" =>
        compiled = [nodes |-> Content, ups |-> ups \cap secrets]
OperationsHold == Adding /\ Removing /\ Refreshing /\ Creating /\ Deleting /\ Compiling

\* With one fault at most no source is without its secret, and none of those that an
\* operation may have to give back is either.
SecretsStay ==
    sourceFaults <= 1 =>
        /\ subs \subseteq secrets /\ subsFile \subseteq secrets /\ ups \subseteq secrets
        /\ work # Idle => work.was.subs \subseteq secrets /\ work.was.ups \subseteq secrets

NodesHaveOwners ==
    sourceFaults <= 1 =>
        /\ Whole(subs, nodes)
        /\ work # Idle => Whole(work.undo.subs, work.undo.nodes) /\ Whole(work.was.subs, work.was.nodes)

\* As long as nothing has failed the endpoint cache is of known subscriptions.
CacheHasOwners ==
    sourceFaults = 0 =>
        /\ Whole(subsFile, nodesFile)
        /\ work # Idle /\ work.step = "metadata" => nodesFile = nodes
        /\ Saving(work) /\ work.op = "add" => nodes[work.owner] = 0

SourcesInv ==
    /\ SourcesTyped /\ FilesFollow /\ OperationsHold
    /\ SecretsStay /\ NodesHaveOwners /\ CacheHasOwners /\ AnswersAreTrue

LEMMA SourcesInitInv == ASSUME SourcesInit PROVE SourcesInv
<1>1. work = Idle /\ sourceFaults = 0 /\ subs = {} /\ subsFile = {} /\ ups = {} /\ secrets = {} /\ nodesFile = nodes
      /\ nodes = [p \in Providers |-> 0] /\ answered = [op |-> "none", ok |-> TRUE, was |-> Now, damaged |-> FALSE]
  BY DEF SourcesInit
<1>2. nodes \in [Providers -> 0 .. MaxFetches]
  BY <1>1, SourcesAssumption
<1>0. answered \in Answers
  BY <1>1, <1>2 DEF Answers, Holdings, Now
<1>3. SourcesTyped
  BY <1>0, <1>1, <1>2, SourcesAssumption DEF SourcesTyped
<1>4. FilesFollow /\ OperationsHold
  BY <1>1 DEF FilesFollow, Saving, OperationsHold, Adding, Removing, Refreshing, Creating,
     Deleting, Compiling
<1>5. Whole(subs, nodes) /\ Whole(subsFile, nodesFile)
  BY <1>1 DEF Whole
<1>6. SecretsStay /\ NodesHaveOwners /\ CacheHasOwners
  BY <1>1, <1>5 DEF SecretsStay, NodesHaveOwners, CacheHasOwners, Saving
<1>7. AnswersAreTrue
  BY <1>1 DEF AnswersAreTrue
<1>. QED
  BY <1>3, <1>4, <1>6, <1>7 DEF SourcesInv

LEMMA WorkIsNotIdle == \A w \in Works : w # Idle /\ w.op # "none"
<1>. SUFFICES ASSUME NEW w \in Works PROVE w # Idle /\ w.op # "none"
  OBVIOUS
<1>1. w.op \in {"add", "remove", "refresh", "create", "delete"}
  BY DEF Works
<1>2. Idle.op = "none"
  BY DEF Idle
<1>. QED
  BY <1>1, <1>2

LEMMA NowIsHeld == ASSUME SourcesInv PROVE Now \in Holdings /\ Now.subs = subs /\ Now.nodes = nodes /\ Now.ups = ups
  BY DEF SourcesInv, SourcesTyped, Now, Holdings

\* While an operation runs nothing is claimed of the last answer.
LEMMA NoAnswerYet == ASSUME work' # Idle PROVE AnswersAreTrue'
  BY DEF AnswersAreTrue

LEMMA SourcesRest == ASSUME SourcesInv, UNCHANGED sourceVars PROVE SourcesInv'
<1>1. SourcesTyped' /\ FilesFollow' /\ SecretsStay' /\ NodesHaveOwners' /\ CacheHasOwners' /\ Content' = Content /\ Now' = Now
  BY DEF SourcesInv, sourceVars, SourcesTyped, FilesFollow, Saving, SecretsStay, NodesHaveOwners,
     CacheHasOwners, Whole, Content, Now
<1>2. OperationsHold'
  BY <1>1 DEF SourcesInv, sourceVars, OperationsHold, Adding, Removing, Refreshing, Creating,
     Deleting, Compiling, Saving
<1>3. AnswersAreTrue'
  BY <1>1 DEF SourcesInv, sourceVars, AnswersAreTrue
<1>. QED
  BY <1>1, <1>2, <1>3 DEF SourcesInv

-----------------------------------------------------------------------------
(* Operations begin *)

LEMMA AddKeeps == ASSUME SourcesInv, NEW p \in Providers, AddSubscription(p) PROVE SourcesInv'
<1>1. /\ work = Idle /\ p \notin subs /\ secrets' = secrets \cup {p} /\ subs' = subs \cup {p}
      /\ UNCHANGED <<nodes, subsFile, nodesFile, ups, compiled, answered, sourceFaults>>
      /\ work' = [op |-> "add", owner |-> p, step |-> "cache", was |-> Now, undo |-> Now,
                  faults |-> sourceFaults, fetched |-> {}]
  BY DEF AddSubscription, Enter, NoFault, sourceFiles
<1>2. Now \in Holdings /\ Now.subs = subs /\ Now.nodes = nodes /\ Now.ups = ups
  BY NowIsHeld
<1>3. work' \in Works /\ work'.faults <= sourceFaults
  BY <1>1, <1>2 DEF SourcesInv, SourcesTyped, Works, Owners
<1>4. work' # Idle
  BY <1>3, WorkIsNotIdle
<1>5. SourcesTyped'
  BY <1>1, <1>3 DEF SourcesInv, SourcesTyped, Owners
<1>6. subs = subsFile
  BY <1>1 DEF SourcesInv, FilesFollow, Saving
<1>7. FilesFollow'
  BY <1>1, <1>2, <1>4, <1>6 DEF FilesFollow, Saving
<1>8. OperationsHold'
  BY <1>1, <1>6 DEF OperationsHold, Adding, Removing, Refreshing, Creating, Deleting, Compiling,
     Saving
<1>9. SecretsStay'
  BY <1>1, <1>2 DEF SourcesInv, SecretsStay
<1>10. NodesHaveOwners'
  BY <1>1, <1>2 DEF SourcesInv, NodesHaveOwners, Whole
<1>11. CacheHasOwners'
  BY <1>1, SourcesAssumption DEF SourcesInv, SourcesTyped, CacheHasOwners, NodesHaveOwners, Whole,
     Saving
<1>. QED
  BY <1>4, <1>5, <1>7, <1>8, <1>9, <1>10, <1>11, NoAnswerYet DEF SourcesInv

LEMMA DetachKeeps == ASSUME SourcesInv, NEW p \in Providers, DetachSubscription(p) PROVE SourcesInv'
<1>1. /\ work = Idle /\ p \in subs /\ subs' = subs \ {p} /\ nodes' = [nodes EXCEPT ![p] = 0]
      /\ UNCHANGED <<subsFile, nodesFile, ups, secrets, compiled, answered, sourceFaults>>
      /\ work' = [op |-> "remove", owner |-> p, step |-> "cache", was |-> Now, undo |-> Now,
                  faults |-> sourceFaults, fetched |-> {}]
  BY DEF DetachSubscription, Enter, NoFault, sourceFiles
<1>2. Now \in Holdings /\ Now.subs = subs /\ Now.nodes = nodes /\ Now.ups = ups
  BY NowIsHeld
<1>3. work' \in Works /\ work'.faults <= sourceFaults
  BY <1>1, <1>2 DEF SourcesInv, SourcesTyped, Works, Owners
<1>4. work' # Idle
  BY <1>3, WorkIsNotIdle
<1>5. SourcesTyped'
  BY <1>1, <1>3, SourcesAssumption DEF SourcesInv, SourcesTyped, Owners
<1>6. subs = subsFile
  BY <1>1 DEF SourcesInv, FilesFollow, Saving
<1>7. FilesFollow'
  BY <1>1, <1>2, <1>4, <1>6 DEF FilesFollow, Saving
<1>8. OperationsHold'
  BY <1>1, <1>2, <1>6 DEF OperationsHold, Adding, Removing, Refreshing, Creating, Deleting,
     Compiling, Saving
<1>9. SecretsStay'
  BY <1>1, <1>2 DEF SourcesInv, SecretsStay
<1>10. NodesHaveOwners'
  BY <1>1, <1>2 DEF SourcesInv, SourcesTyped, NodesHaveOwners, Whole
<1>11. CacheHasOwners'
  BY <1>1 DEF SourcesInv, CacheHasOwners, Whole, Saving
<1>. QED
  BY <1>4, <1>5, <1>7, <1>8, <1>9, <1>10, <1>11, NoAnswerYet DEF SourcesInv

LEMMA RefreshKeeps == ASSUME SourcesInv, RefreshSources PROVE SourcesInv'
<1>1. PICK ok \in SUBSET (subs \cap secrets) :
        /\ nodes' = Fetched(ok)
        /\ work' = [op |-> "refresh", owner |-> "all", step |-> "cache", was |-> Now,
                    undo |-> Now, faults |-> sourceFaults, fetched |-> ok]
  BY DEF RefreshSources
<1>2. /\ UNCHANGED <<subs, subsFile, nodesFile, ups, secrets, compiled, answered, sourceFaults>>
      /\ work # Idle => work.op = "add" /\ work.step = "fetch"
  BY DEF RefreshSources, NoFault, sourceFiles
<1>3. Now \in Holdings /\ Now.subs = subs /\ Now.nodes = nodes /\ Now.ups = ups
  BY NowIsHeld
<1>4. work' \in Works /\ work'.faults <= sourceFaults
  <2>1. ok \in SUBSET Providers /\ sourceFaults \in Nat /\ "all" \in Owners \cup {"all"}
    BY DEF SourcesInv, SourcesTyped
  <2>. QED
    BY <1>1, <1>3, <2>1 DEF Works
<1>5. work' # Idle
  BY <1>4, WorkIsNotIdle
<1>6. nodes' \in [Providers -> 0 .. MaxFetches] /\ Whole(subs, nodes')
  <2>1. \A p \in Providers : (nodes[p] % MaxFetches) + 1 \in 0 .. MaxFetches
    BY SourcesAssumption DEF SourcesInv, SourcesTyped
  <2>2. \A p \in Providers : nodes[p] \in 0 .. MaxFetches /\ 0 \in 0 .. MaxFetches
    BY SourcesAssumption DEF SourcesInv, SourcesTyped
  <2>3. nodes' \in [Providers -> 0 .. MaxFetches]
    BY <1>1, <2>1, <2>2 DEF Fetched
  <2>4. Whole(subs, nodes')
    BY <1>1 DEF Fetched, Whole
  <2>. QED
    BY <2>3, <2>4
<1>7. SourcesTyped'
  BY <1>2, <1>4, <1>6 DEF SourcesInv, SourcesTyped
<1>8. subs = subsFile
  BY <1>2 DEF SourcesInv, FilesFollow, Saving
<1>9. FilesFollow'
  BY <1>1, <1>2, <1>3, <1>5, <1>8 DEF FilesFollow, Saving
<1>10. OperationsHold'
  BY <1>1, <1>2, <1>8 DEF OperationsHold, Adding, Removing, Refreshing, Creating, Deleting,
     Compiling, Saving
<1>11. SecretsStay'
  BY <1>1, <1>2, <1>3 DEF SourcesInv, SecretsStay
<1>12. NodesHaveOwners'
  BY <1>1, <1>2, <1>3, <1>6 DEF SourcesInv, NodesHaveOwners
<1>13. CacheHasOwners'
  BY <1>1, <1>2 DEF SourcesInv, CacheHasOwners, Saving
<1>. QED
  BY <1>5, <1>7, <1>9, <1>10, <1>11, <1>12, <1>13, NoAnswerYet DEF SourcesInv

\* handleOutboundCreate, whether or not the file can be written.
LEMMA CreateKeeps ==
    ASSUME SourcesInv, NEW u \in Upstreams, CreateUpstream(u) \/ CreateFails(u) PROVE SourcesInv'
<1>1. /\ work = Idle /\ u \notin ups /\ secrets' = secrets \cup {u}
      /\ UNCHANGED <<subs, nodes, subsFile, nodesFile, compiled, answered>>
  BY DEF CreateUpstream, CreateFails, Enter, sourceFiles
<1>0. PICK s \in {"apply", "forgetFailed"} :
        /\ work' = [op |-> "create", owner |-> u, step |-> s, was |-> Now, undo |-> Now,
                    faults |-> sourceFaults, fetched |-> {}]
        /\ s = "apply" => ups' = ups \cup {u} /\ sourceFaults' = sourceFaults
        /\ s = "forgetFailed" => ups' = ups /\ sourceFaults' = sourceFaults + 1 /\ sourceFaults < MaxSourceFaults
  <2>1. CASE CreateUpstream(u)
    BY <2>1 DEF CreateUpstream, Enter, NoFault
  <2>2. CASE CreateFails(u)
    BY <2>2 DEF CreateFails, Enter, Fault
  <2>. QED
    BY <2>1, <2>2
<1>2. Now \in Holdings /\ Now.subs = subs /\ Now.nodes = nodes /\ Now.ups = ups
  BY NowIsHeld
<1>12. sourceFaults' \in 0 .. MaxSourceFaults /\ sourceFaults' >= sourceFaults /\ sourceFaults \in Nat
  <2>1. sourceFaults \in 0 .. MaxSourceFaults /\ MaxSourceFaults \in Nat
    BY SourcesAssumption DEF SourcesInv, SourcesTyped
  <2>2. sourceFaults' = sourceFaults \/ (sourceFaults' = sourceFaults + 1 /\ sourceFaults < MaxSourceFaults)
    BY <1>0
  <2>. QED
    BY <2>1, <2>2
<1>13. /\ s = "apply" \/ s = "forgetFailed"
       /\ s = "apply" => ups' = ups \cup {u}
       /\ s = "forgetFailed" => ups' = ups /\ sourceFaults' = sourceFaults + 1
  BY <1>0
<1>14. /\ work'.op = "create" /\ work'.owner = u /\ work'.step = s /\ work'.was = Now /\ work'.undo = Now
       /\ work'.faults = sourceFaults
  BY <1>0
<1>3. work' \in Works /\ work'.faults = sourceFaults
  <2>1. u \in Owners \cup {"all"} /\ s \in {"cache", "metadata", "fetch", "apply", "forget", "forgetFailed"}
    BY DEF Owners
  <2>. QED
    BY <1>0, <1>2, <1>12, <2>1 DEF Works
<1>4. work' # Idle
  BY <1>3, WorkIsNotIdle
<1>5. SourcesTyped'
  BY <1>13, <1>14, <1>1, <1>3, <1>12 DEF SourcesInv, SourcesTyped, Owners
<1>6. subs = subsFile
  BY <1>1 DEF SourcesInv, FilesFollow, Saving
<1>7. FilesFollow'
  BY <1>13, <1>14, <1>1, <1>6 DEF FilesFollow, Saving
<1>8. OperationsHold'
  BY <1>13, <1>14, <1>1, <1>2, SourcesAssumption DEF SourcesInv, SourcesTyped, OperationsHold,
     Adding, Removing, Refreshing, Creating, Deleting, Compiling, Saving
<1>9. SecretsStay'
  BY <1>13, <1>14, <1>1, <1>2, <1>3, <1>12 DEF SourcesInv, SourcesTyped, SecretsStay
<1>10. NodesHaveOwners'
  BY <1>13, <1>14, <1>1, <1>2, <1>3, <1>12 DEF SourcesInv, SourcesTyped, NodesHaveOwners
<1>11. CacheHasOwners'
  BY <1>13, <1>14, <1>1, <1>3, <1>12 DEF SourcesInv, SourcesTyped, CacheHasOwners, Saving
<1>. QED
  BY <1>4, <1>5, <1>7, <1>8, <1>9, <1>10, <1>11, NoAnswerYet DEF SourcesInv

LEMMA DeleteKeeps == ASSUME SourcesInv, NEW u \in Upstreams, DeleteUpstream(u) PROVE SourcesInv'
<1>1. /\ work = Idle /\ u \in ups /\ ups' = ups \ {u}
      /\ UNCHANGED <<subs, nodes, subsFile, nodesFile, secrets, compiled, answered, sourceFaults>>
      /\ work' = [op |-> "delete", owner |-> u, step |-> "apply", was |-> Now, undo |-> Now,
                  faults |-> sourceFaults, fetched |-> {}]
  BY DEF DeleteUpstream, Enter, NoFault, sourceFiles
<1>2. Now \in Holdings /\ Now.subs = subs /\ Now.nodes = nodes /\ Now.ups = ups
  BY NowIsHeld
<1>3. work' \in Works /\ work'.faults <= sourceFaults
  BY <1>1, <1>2 DEF SourcesInv, SourcesTyped, Works, Owners
<1>4. work' # Idle
  BY <1>3, WorkIsNotIdle
<1>5. SourcesTyped'
  BY <1>1, <1>3 DEF SourcesInv, SourcesTyped
<1>6. FilesFollow'
  BY <1>1 DEF SourcesInv, FilesFollow, Saving
<1>7. OperationsHold'
  BY <1>1, <1>2 DEF OperationsHold, Adding, Removing, Refreshing, Creating, Deleting, Compiling,
     Saving
<1>8. SecretsStay'
  BY <1>1, <1>2 DEF SourcesInv, SecretsStay
<1>9. NodesHaveOwners'
  BY <1>1, <1>2 DEF SourcesInv, NodesHaveOwners
<1>10. CacheHasOwners'
  BY <1>1 DEF SourcesInv, CacheHasOwners, Saving
<1>. QED
  BY <1>4, <1>5, <1>6, <1>7, <1>8, <1>9, <1>10, NoAnswerYet DEF SourcesInv

-----------------------------------------------------------------------------
(* Operations go on and end *)

WorkSteps == {"cache", "metadata", "fetch", "apply", "forget", "forgetFailed"}

LEMMA WorkIsTyped ==
    ASSUME SourcesInv, work # Idle
    PROVE  /\ work \in Works /\ work.was \in Holdings /\ work.undo \in Holdings /\ work.faults \in Nat
           /\ work.faults <= sourceFaults /\ work.step \in WorkSteps
           /\ work.op \in {"add", "remove", "refresh", "create", "delete"}
  BY DEF SourcesInv, SourcesTyped, Works, WorkSteps

LEMMA StepGoes ==
    ASSUME NEW step \in WorkSteps, work \in Works, Step(step)
    PROVE  /\ work' \in Works /\ work' # Idle /\ work'.step = step /\ work'.op = work.op /\ work'.owner = work.owner
           /\ work'.was = work.was /\ work'.undo = work.undo /\ work'.faults = work.faults
           /\ work'.fetched = work.fetched /\ answered' = answered
<1>1. /\ work' \in Works /\ work'.step = step /\ work'.op = work.op /\ work'.owner = work.owner
      /\ work'.was = work.was /\ work'.undo = work.undo /\ work'.faults = work.faults
      /\ work'.fetched = work.fetched /\ answered' = answered
  BY DEF Step, Works, WorkSteps
<1>. QED
  BY <1>1, WorkIsNotIdle

LEMMA AnswerGoes ==
    ASSUME SourcesInv, work # Idle, NEW ok \in BOOLEAN, Tell(ok)
    PROVE  /\ work' = Idle /\ answered' \in Answers /\ answered'.op = work.op /\ answered'.ok = ok /\ answered'.was = work.was
           /\ answered'.damaged = (sourceFaults' > work.faults + 1)
<1>1. work' = Idle /\ answered' = [op |-> work.op, ok |-> ok, was |-> work.was, damaged |-> sourceFaults' > work.faults + 1]
  BY DEF Tell
<1>2. (sourceFaults' > work.faults + 1) \in BOOLEAN
  OBVIOUS
<1>3. work.op \in {"add", "remove", "refresh", "create", "delete"} /\ work.was \in Holdings
  BY WorkIsTyped
<1>. QED
  BY <1>1, <1>2, <1>3 DEF Answers

\* An operation that has ended holds nothing any more.
LEMMA OperationEnds ==
    ASSUME SourcesTyped, work' = Idle,
           subs' \subseteq Providers, subsFile' \subseteq Providers,
           nodes' \in [Providers -> 0 .. MaxFetches], nodesFile' \in [Providers -> 0 .. MaxFetches],
           ups' \subseteq Upstreams, secrets' \subseteq Owners, sourceFaults' \in 0 .. MaxSourceFaults,
           subs' = subsFile', answered' \in Answers,
           sourceFaults' <= 1 => subs' \subseteq secrets' /\ ups' \subseteq secrets' /\ Whole(subs', nodes'),
           sourceFaults' = 0 => Whole(subsFile', nodesFile'),
           AnswersAreTrue'
    PROVE  SourcesInv'
<1>1. SourcesTyped'
  BY DEF SourcesTyped
<1>2. FilesFollow' /\ OperationsHold'
  BY DEF FilesFollow, Saving, OperationsHold, Adding, Removing, Refreshing, Creating, Deleting,
     Compiling
<1>3. SecretsStay' /\ NodesHaveOwners' /\ CacheHasOwners'
  BY DEF SecretsStay, NodesHaveOwners, CacheHasOwners, Saving
<1>. QED
  BY <1>1, <1>2, <1>3 DEF SourcesInv

LEMMA SaveCacheKeeps == ASSUME SourcesInv, SaveCache PROVE SourcesInv'
<1>1. /\ work # Idle /\ work.step = "cache" /\ nodesFile' = nodes /\ Step("metadata")
      /\ UNCHANGED <<sourceFaults, subs, nodes, subsFile, ups, secrets, compiled, answered>>
  BY DEF SaveCache, Step, NoFault
<1>2. work \in Works /\ work.faults <= sourceFaults
  BY <1>1, WorkIsTyped
<1>3. /\ work' \in Works /\ work' # Idle /\ work'.step = "metadata" /\ work'.op = work.op /\ work'.owner = work.owner
      /\ work'.was = work.was /\ work'.undo = work.undo /\ work'.faults = work.faults /\ answered' = answered
  BY <1>1, <1>2, StepGoes DEF WorkSteps
<1>4. SourcesTyped'
  BY <1>1, <1>2, <1>3 DEF SourcesInv, SourcesTyped
<1>5. FilesFollow' /\ SecretsStay' /\ NodesHaveOwners'
  BY <1>1, <1>3 DEF SourcesInv, FilesFollow, SecretsStay, NodesHaveOwners, Saving
<1>6. OperationsHold'
  BY <1>1, <1>3 DEF SourcesInv, OperationsHold, Adding, Removing, Refreshing, Creating, Deleting,
     Compiling, Saving
<1>7. CacheHasOwners'
  <2>1. SUFFICES ASSUME sourceFaults = 0 PROVE Whole(subsFile, nodes) /\ (work.op = "add" => nodes[work.owner] = 0)
    BY <1>1, <1>3 DEF CacheHasOwners, Saving
  <2>2. Whole(subs, nodes) /\ (work.op = "add" => nodes[work.owner] = 0)
    BY <1>1, <2>1 DEF SourcesInv, NodesHaveOwners, CacheHasOwners, Saving
  <2>3. work.op \in {"add", "remove", "refresh"} /\ work.faults \in Nat /\ ~(sourceFaults > work.faults)
    BY <1>1, <1>2, <2>1, WorkIsTyped DEF SourcesInv, OperationsHold, Creating, Deleting, WorkSteps
  <2>4. Whole(subsFile, nodes)
    BY <1>1, <2>2, <2>3 DEF SourcesInv, OperationsHold, Adding, Removing, Refreshing, Saving, Whole
  <2>. QED
    BY <2>2, <2>4
<1>. QED
  BY <1>3, <1>4, <1>5, <1>6, <1>7, NoAnswerYet DEF SourcesInv

\* A save that is done.
LEMMA SaveMetadataKeeps == ASSUME SourcesInv, SaveMetadata PROVE SourcesInv'
<1>1. /\ work # Idle /\ work.step = "metadata" /\ subsFile' = subs
      /\ UNCHANGED <<sourceFaults, subs, nodes, nodesFile, ups, secrets, compiled>>
  BY DEF SaveMetadata, NoFault
<1>2. /\ work \in Works /\ work.faults <= sourceFaults /\ work.faults \in Nat
      /\ sourceFaults \in Nat
  BY <1>1, WorkIsTyped DEF SourcesInv, SourcesTyped
<1>3. work.op \in {"add", "remove", "refresh"} /\ Saving(work)
  BY <1>1, WorkIsTyped DEF SourcesInv, OperationsHold, Creating, Deleting, Saving
<1>4. \/ Tell(TRUE) /\ work.op \in {"add", "refresh"}
      \/ Tell(FALSE) /\ ((work.op = "remove" /\ work.owner \in subs) \/ work.op = "refresh")
      \/ Step("fetch") /\ work.op = "add"
      \/ Step("apply") /\ ((work.op = "remove" /\ work.owner \notin subs) \/ work.op = "refresh")
  BY <1>3 DEF SaveMetadata
<1>5. sourceFaults = 0 => Whole(subs, nodesFile)
  BY <1>1 DEF SourcesInv, CacheHasOwners, NodesHaveOwners
<1>6. sourceFaults <= 1 => subs \subseteq secrets /\ ups \subseteq secrets /\ Whole(subs, nodes)
  BY DEF SourcesInv, SecretsStay, NodesHaveOwners
<1>7. ASSUME NEW ok \in BOOLEAN, Tell(ok), ok => work.op \in {"add", "refresh"},
             ~ok => (work.op = "remove" /\ work.owner \in subs) \/ work.op = "refresh"
      PROVE  SourcesInv'
  <2>1. /\ work' = Idle /\ answered' \in Answers /\ answered'.op = work.op /\ answered'.ok = ok /\ answered'.was = work.was
    BY <1>1, <1>7, AnswerGoes
  <2>2. AnswersAreTrue'
    <3>1. CASE work.op \in {"add", "refresh"}
      BY <2>1, <3>1 DEF AnswersAreTrue
    <3>2. CASE work.op = "remove" /\ work.owner \in subs /\ ~ok
      <4>1. subs = work.was.subs /\ nodes = work.was.nodes /\ ups = work.was.ups
        BY <1>1, <1>3, <3>2 DEF SourcesInv, OperationsHold, Removing
      <4>2. work.was \in Holdings
        BY <1>1, WorkIsTyped
      <4>3. work.was = Now
        BY <4>1, <4>2 DEF Now, Holdings
      <4>4. Now' = Now
        BY <1>1 DEF Now
      <4>. QED
        BY <2>1, <3>2, <4>3, <4>4 DEF AnswersAreTrue
    <3>. QED
      BY <1>7, <3>1, <3>2
  <2>. QED
    BY <1>1, <1>5, <1>6, <2>1, <2>2, OperationEnds DEF SourcesInv, SourcesTyped
<1>8. ASSUME NEW s \in {"fetch", "apply"}, Step(s), s = "fetch" => work.op = "add",
             s = "apply" => (work.op = "remove" /\ work.owner \notin subs) \/ work.op = "refresh"
      PROVE  SourcesInv'
  <2>1. /\ work' \in Works /\ work' # Idle /\ work'.step = s /\ work'.op = work.op /\ work'.owner = work.owner
        /\ work'.was = work.was /\ work'.undo = work.undo /\ work'.faults = work.faults /\ answered' = answered
    BY <1>2, <1>8, StepGoes DEF WorkSteps
  <2>2. SourcesTyped'
    BY <1>1, <1>2, <2>1 DEF SourcesInv, SourcesTyped
  <2>3. FilesFollow' /\ SecretsStay' /\ NodesHaveOwners'
    BY <1>1, <2>1 DEF SourcesInv, FilesFollow, SecretsStay, NodesHaveOwners, Saving
  <2>4. OperationsHold'
    BY <1>1, <1>3, <1>8, <2>1 DEF SourcesInv, OperationsHold, Adding, Removing, Refreshing,
       Creating, Deleting, Compiling, Saving
  <2>5. CacheHasOwners'
    BY <1>1, <1>5, <2>1 DEF CacheHasOwners, Saving
  <2>. QED
    BY <2>1, <2>2, <2>3, <2>4, <2>5, NoAnswerYet DEF SourcesInv
<1>. QED
  BY <1>4, <1>7, <1>8

\* Memory goes back, and an add forgets its secret.
LEMMA SaveFailsKeeps == ASSUME SourcesInv, SaveFails PROVE SourcesInv'
<1>1. /\ work # Idle /\ Saving(work) /\ subs' = work.undo.subs /\ nodes' = work.undo.nodes
      /\ sourceFaults' = sourceFaults + 1 /\ sourceFaults < MaxSourceFaults
      /\ UNCHANGED <<subsFile, nodesFile, ups, secrets, compiled>>
  BY DEF SaveFails, Fault, sourceFiles, Saving
<1>2. /\ work \in Works /\ work.faults <= sourceFaults /\ work.faults \in Nat /\ work.undo \in Holdings
      /\ sourceFaults \in Nat /\ sourceFaults' \in 0 .. MaxSourceFaults /\ sourceFaults' > 0
  BY <1>1, WorkIsTyped, SourcesAssumption DEF SourcesInv, SourcesTyped
<1>3. work.op \in {"add", "remove", "refresh"}
  BY <1>1, WorkIsTyped DEF SourcesInv, OperationsHold, Creating, Deleting, Saving
<1>4. subs' = subsFile /\ subs' \subseteq Providers /\ nodes' \in [Providers -> 0 .. MaxFetches]
  BY <1>1, <1>2 DEF SourcesInv, FilesFollow, Holdings
<1>5. sourceFaults' <= 1 => subs' \subseteq secrets /\ ups \subseteq secrets /\ Whole(subs', nodes')
  BY <1>1, <1>2, <1>4 DEF SourcesInv, SecretsStay, NodesHaveOwners
<1>6. CASE work.op = "add" /\ Step("forgetFailed")
  <2>1. /\ work' \in Works /\ work' # Idle /\ work'.step = "forgetFailed" /\ work'.op = work.op /\ work'.owner = work.owner
        /\ work'.was = work.was /\ work'.undo = work.undo /\ work'.faults = work.faults /\ answered' = answered
    BY <1>2, <1>6, StepGoes DEF WorkSteps
  <2>2. SourcesTyped'
    BY <1>1, <1>2, <1>4, <2>1 DEF SourcesInv, SourcesTyped
  <2>3. FilesFollow' /\ CacheHasOwners'
    BY <1>1, <1>2, <1>4, <2>1 DEF FilesFollow, CacheHasOwners, Saving
  <2>4. SecretsStay'
    BY <1>1, <1>2, <1>4, <1>5, <2>1 DEF SourcesInv, SecretsStay
  <2>5. NodesHaveOwners'
    BY <1>1, <1>2, <1>5, <2>1 DEF SourcesInv, NodesHaveOwners
  <2>6. OperationsHold'
    BY <1>1, <1>4, <1>6, <2>1 DEF SourcesInv, OperationsHold, Adding, Removing, Refreshing,
       Creating, Deleting, Compiling, Saving
  <2>. QED
    BY <2>1, <2>2, <2>3, <2>4, <2>5, <2>6, NoAnswerYet DEF SourcesInv
<1>7. CASE work.op # "add" /\ Tell(FALSE)
  <2>1. /\ work' = Idle /\ answered' \in Answers /\ answered'.op = work.op /\ answered'.ok = FALSE /\ answered'.was = work.was
        /\ answered'.damaged = (sourceFaults' > work.faults + 1)
    BY <1>1, <1>7, AnswerGoes
  <2>2. AnswersAreTrue'
    <3>1. CASE work.op = "refresh"
      BY <2>1, <3>1 DEF AnswersAreTrue
    <3>2. CASE work.op = "remove" /\ work.owner \in subs
      <4>1. sourceFaults > work.faults
        BY <1>1, <3>2 DEF SourcesInv, OperationsHold, Removing
      <4>2. sourceFaults' > work.faults + 1
        BY <1>1, <1>2, <4>1
      <4>. QED
        BY <2>1, <4>2 DEF AnswersAreTrue
    <3>3. CASE work.op = "remove" /\ work.owner \notin subs
      <4>1. work.undo = work.was /\ ups = work.was.ups
        BY <1>1, <3>3 DEF SourcesInv, OperationsHold, Removing
      <4>2. subs' = work.was.subs /\ nodes' = work.was.nodes /\ ups' = work.was.ups
        BY <1>1, <4>1
      <4>3. Now' = work.was
        BY <1>2, <4>1, <4>2 DEF Now, Holdings
      <4>. QED
        BY <2>1, <4>3 DEF AnswersAreTrue
    <3>. QED
      BY <1>3, <1>7, <3>1, <3>2, <3>3
  <2>. QED
    BY <1>1, <1>2, <1>4, <1>5, <2>1, <2>2, OperationEnds DEF SourcesInv, SourcesTyped
<1>. QED
  BY <1>6, <1>7 DEF SaveFails

-----------------------------------------------------------------------------
(* The configuration, and the way back *)

\* What an operation holds when the configuration is compiled.
LEMMA AtApply ==
    ASSUME SourcesInv, work # Idle, work.step = "apply"
    PROVE  /\ work.op \in {"remove", "refresh", "create", "delete"} /\ subs = subsFile /\ ~Saving(work)
           /\ work.op = "remove" => work.owner \in Providers /\ work.owner \notin subs /\ ups = work.was.ups
           /\ work.op = "create" => /\ work.owner \in Upstreams /\ subs = work.was.subs /\ nodes = work.was.nodes
                                    /\ ups = work.was.ups \cup {work.owner} /\ work.owner \notin work.was.ups
           /\ work.op = "delete" => /\ work.owner \in Upstreams /\ subs = work.was.subs /\ nodes = work.was.nodes
                                    /\ work.owner \in work.was.ups /\ ups = work.was.ups \ {work.owner}
  BY WorkIsTyped DEF SourcesInv, FilesFollow, OperationsHold, Adding, Removing, Creating,
     Deleting, Saving

LEMMA ApplyKeeps == ASSUME SourcesInv, ApplySources PROVE SourcesInv'
<1>1. /\ work # Idle /\ work.step = "apply" /\ sourceFaults' = sourceFaults
      /\ compiled' = [nodes |-> Content, ups |-> ups \cap secrets]
      /\ UNCHANGED <<subs, nodes, subsFile, nodesFile, ups, secrets>>
  BY DEF ApplySources, NoFault, sourceFiles
<1>2. work \in Works /\ work.faults <= sourceFaults
  BY <1>1, WorkIsTyped
<1>3. compiled' = [nodes |-> Content', ups |-> ups' \cap secrets']
  BY <1>1 DEF Content
<1>4. CASE work.op \in {"remove", "delete"} /\ Step("forget")
  <2>1. /\ work' \in Works /\ work' # Idle /\ work'.step = "forget" /\ work'.op = work.op /\ work'.owner = work.owner
        /\ work'.was = work.was /\ work'.undo = work.undo /\ work'.faults = work.faults /\ answered' = answered
    BY <1>2, <1>4, StepGoes DEF WorkSteps
  <2>2. SourcesTyped'
    BY <1>1, <1>2, <2>1 DEF SourcesInv, SourcesTyped
  <2>3. FilesFollow' /\ SecretsStay' /\ NodesHaveOwners' /\ CacheHasOwners'
    BY <1>1, <2>1 DEF SourcesInv, FilesFollow, SecretsStay, NodesHaveOwners, CacheHasOwners, Saving
  <2>4. (Adding /\ Removing /\ Refreshing /\ Creating /\ Deleting)'
    BY <1>1, <1>4, <2>1 DEF SourcesInv, OperationsHold, Adding, Removing, Refreshing, Creating,
       Deleting, Saving
  <2>5. Compiling'
    BY <1>3 DEF Compiling
  <2>. QED
    BY <2>1, <2>2, <2>3, <2>4, <2>5, NoAnswerYet DEF SourcesInv, OperationsHold
<1>5. CASE Tell(TRUE)
  <2>1. work' = Idle /\ answered' \in Answers /\ answered'.ok = TRUE
    BY <1>1, <1>5, AnswerGoes
  <2>2. AnswersAreTrue'
    BY <1>3, <2>1 DEF AnswersAreTrue
  <2>3. subs = subsFile
    BY <1>1, AtApply
  <2>. QED
    BY <1>1, <2>1, <2>2, <2>3, OperationEnds DEF SourcesInv, SourcesTyped, SecretsStay,
       NodesHaveOwners, CacheHasOwners
<1>. QED
  BY <1>1, <1>4, <1>5 DEF ApplySources

\* One fault that ends the operation with a failure, and the sources as they were.
LEMMA FailureIsTold ==
    ASSUME SourcesInv, work # Idle, Tell(FALSE), sourceFaults' \in 0 .. MaxSourceFaults, sourceFaults' > sourceFaults,
           UNCHANGED <<subs, nodes, subsFile, nodesFile>>, subs = subsFile,
           ups' \subseteq Upstreams, secrets' \subseteq Owners,
           sourceFaults' <= 1 => subs \subseteq secrets' /\ ups' \subseteq secrets',
           \/ work.op \in {"add", "refresh"}
           \/ subs = work.was.subs /\ nodes = work.was.nodes /\ ups' = work.was.ups
           \/ sourceFaults' > work.faults + 1
    PROVE  SourcesInv'
<1>1. /\ work.was \in Holdings /\ sourceFaults \in Nat /\ sourceFaults' \in Nat /\ work.faults \in Nat
  BY WorkIsTyped, SourcesAssumption DEF SourcesInv, SourcesTyped
<1>2. /\ work' = Idle /\ answered' \in Answers /\ answered'.op = work.op /\ answered'.ok = FALSE /\ answered'.was = work.was
      /\ answered'.damaged = (sourceFaults' > work.faults + 1)
  BY AnswerGoes
<1>3. AnswersAreTrue'
  <2>1. CASE work.op \in {"add", "refresh"}
    BY <1>2, <2>1 DEF AnswersAreTrue
  <2>2. CASE sourceFaults' > work.faults + 1
    BY <1>2, <2>2 DEF AnswersAreTrue
  <2>3. CASE subs = work.was.subs /\ nodes = work.was.nodes /\ ups' = work.was.ups
    <3>1. Now' = work.was
      BY <1>1, <2>3 DEF Now, Holdings
    <3>. QED
      BY <1>2, <3>1 DEF AnswersAreTrue
  <2>. QED
    BY <2>1, <2>2, <2>3
<1>4. sourceFaults' # 0 /\ (sourceFaults' <= 1 => Whole(subs, nodes))
  BY <1>1 DEF SourcesInv, NodesHaveOwners
<1>. QED
  BY <1>2, <1>3, <1>4, OperationEnds DEF SourcesInv, SourcesTyped

\* RestoreRemoval: memory is what it was, and is saved again.
LEMMA RestoreKeeps == ASSUME SourcesInv, ApplyFails, work.op = "remove" PROVE SourcesInv'
<1>1. /\ work # Idle /\ work.step = "apply" /\ sourceFaults < MaxSourceFaults /\ sourceFaults' = sourceFaults + 1
      /\ subs' = work.was.subs /\ nodes' = work.was.nodes
      /\ UNCHANGED <<subsFile, nodesFile, ups, secrets, compiled, answered>>
      /\ work' = [work EXCEPT !.step = "cache", !.undo = Now]
  BY DEF ApplyFails, Fault, sourceFiles
<1>2. /\ work \in Works /\ work.was \in Holdings /\ work.faults \in Nat /\ work.faults <= sourceFaults
      /\ sourceFaults \in Nat /\ sourceFaults' \in 0 .. MaxSourceFaults
  BY <1>1, WorkIsTyped, SourcesAssumption DEF SourcesInv, SourcesTyped
<1>3. Now \in Holdings /\ Now.subs = subs /\ Now.nodes = nodes /\ Now.ups = ups
  BY NowIsHeld
<1>4. /\ work' \in Works /\ work'.step = "cache" /\ work'.op = "remove" /\ work'.owner = work.owner
      /\ work'.was = work.was /\ work'.undo = Now /\ work'.faults = work.faults
  BY <1>1, <1>2, <1>3 DEF Works
<1>5. work' # Idle
  BY <1>4, WorkIsNotIdle
<1>6. work.owner \in Providers /\ work.owner \notin subs /\ ups = work.was.ups /\ subs = subsFile
  BY <1>1, AtApply
<1>7. SourcesTyped'
  BY <1>1, <1>2, <1>4 DEF SourcesInv, SourcesTyped, Holdings
<1>8. FilesFollow'
  BY <1>1, <1>3, <1>4, <1>5, <1>6 DEF FilesFollow, Saving
<1>9. SecretsStay'
  BY <1>1, <1>2, <1>4 DEF SourcesInv, SecretsStay
<1>10. NodesHaveOwners'
  BY <1>1, <1>2, <1>3, <1>4 DEF SourcesInv, NodesHaveOwners
<1>11. CacheHasOwners'
  BY <1>1, <1>2 DEF CacheHasOwners
<1>12. OperationsHold'
  <2>1. (Adding /\ Refreshing /\ Creating /\ Deleting /\ Compiling)'
    BY <1>4 DEF Adding, Refreshing, Creating, Deleting, Compiling
  <2>2. work.owner \in work.was.subs
    BY <1>1 DEF SourcesInv, OperationsHold, Removing
  <2>3. Removing'
    BY <1>1, <1>2, <1>4, <1>5, <1>6, <2>2 DEF Removing, Saving
  <2>. QED
    BY <2>1, <2>3 DEF OperationsHold
<1>. QED
  BY <1>5, <1>7, <1>8, <1>9, <1>10, <1>11, <1>12, NoAnswerYet DEF SourcesInv

\* A creation that is taken back, or could not be, still has a secret to forget.
LEMMA CreationFailed ==
    ASSUME SourcesInv, work # Idle, work.step = "apply", work.op = "create", Step("forgetFailed"),
           UNCHANGED <<subs, nodes, subsFile, nodesFile, secrets, compiled>>,
           sourceFaults' \in 0 .. MaxSourceFaults,
           \/ ups' = ups \ {work.owner} /\ sourceFaults' = sourceFaults + 1
           \/ ups' = ups /\ sourceFaults' = sourceFaults + 2
    PROVE  SourcesInv'
<1>1. /\ work \in Works /\ work.was \in Holdings /\ work.faults \in Nat /\ work.faults <= sourceFaults /\ sourceFaults \in Nat
  BY WorkIsTyped, SourcesAssumption DEF SourcesInv, SourcesTyped
<1>2. /\ work' \in Works /\ work' # Idle /\ work'.step = "forgetFailed" /\ work'.op = work.op /\ work'.owner = work.owner
      /\ work'.was = work.was /\ work'.undo = work.undo /\ work'.faults = work.faults /\ answered' = answered
  BY <1>1, StepGoes DEF WorkSteps
<1>3. /\ subs = subsFile /\ work.owner \in Upstreams /\ subs = work.was.subs /\ nodes = work.was.nodes
      /\ ups = work.was.ups \cup {work.owner} /\ work.owner \notin work.was.ups
  BY AtApply
<1>4. SourcesTyped'
  BY <1>1, <1>2 DEF SourcesInv, SourcesTyped
<1>5. FilesFollow' /\ CacheHasOwners'
  BY <1>1, <1>2, <1>3 DEF FilesFollow, CacheHasOwners, Saving
<1>6. SecretsStay' /\ NodesHaveOwners'
  BY <1>1, <1>2 DEF SourcesInv, SecretsStay, NodesHaveOwners
<1>7. (Adding /\ Removing /\ Refreshing /\ Deleting /\ Compiling)'
  BY <1>2 DEF Adding, Removing, Refreshing, Deleting, Compiling
<1>8. Creating'
  <2>1. CASE ups' = ups \ {work.owner} /\ sourceFaults' = sourceFaults + 1
    BY <1>1, <1>2, <1>3, <2>1 DEF Creating
  <2>2. CASE ups' = ups /\ sourceFaults' = sourceFaults + 2
    BY <1>1, <1>2, <1>3, <2>2 DEF Creating
  <2>. QED
    BY <2>1, <2>2
<1>. QED
  BY <1>2, <1>4, <1>5, <1>6, <1>7, <1>8, NoAnswerYet DEF SourcesInv, OperationsHold

LEMMA ApplyFailsKeeps == ASSUME SourcesInv, ApplyFails PROVE SourcesInv'
<1>1. /\ work # Idle /\ work.step = "apply" /\ sourceFaults < MaxSourceFaults /\ sourceFaults' = sourceFaults + 1
      /\ UNCHANGED <<subsFile, nodesFile, secrets, compiled>>
  BY DEF ApplyFails, Fault, sourceFiles
<1>2. /\ sourceFaults \in Nat /\ sourceFaults' \in 0 .. MaxSourceFaults /\ sourceFaults' > sourceFaults
      /\ work.was \in Holdings
  BY <1>1, WorkIsTyped, SourcesAssumption DEF SourcesInv, SourcesTyped
<1>3. CASE work.op = "remove"
  BY <1>3, RestoreKeeps
<1>4. CASE work.op = "refresh"
  <2>1. Tell(FALSE) /\ UNCHANGED <<subs, nodes, ups>>
    BY <1>4 DEF ApplyFails
  <2>2. subs = subsFile
    BY <1>1, AtApply
  <2>3. sourceFaults' <= 1 => subs \subseteq secrets /\ ups \subseteq secrets
    BY <1>1, <1>2 DEF SourcesInv, SecretsStay
  <2>4. ups \subseteq Upstreams /\ secrets \subseteq Owners
    BY DEF SourcesInv, SourcesTyped
  <2>. QED
    BY <1>1, <1>2, <1>4, <2>1, <2>2, <2>3, <2>4, FailureIsTold
<1>5. CASE work.op = "create"
  <2>1. ups' = ups \ {work.owner} /\ Step("forgetFailed") /\ UNCHANGED <<subs, nodes>>
    BY <1>5 DEF ApplyFails
  <2>. QED
    BY <1>1, <1>2, <1>5, <2>1, CreationFailed
<1>6. CASE work.op = "delete"
  <2>1. ups' = ups \cup {work.owner} /\ Tell(FALSE) /\ UNCHANGED <<subs, nodes>>
    BY <1>6 DEF ApplyFails
  <2>2. /\ subs = subsFile /\ work.owner \in Upstreams /\ subs = work.was.subs /\ nodes = work.was.nodes
        /\ work.owner \in work.was.ups /\ ups = work.was.ups \ {work.owner}
    BY <1>1, <1>6, AtApply
  <2>3. ups' = work.was.ups
    BY <2>1, <2>2
  <2>4. sourceFaults' <= 1 => subs \subseteq secrets /\ ups' \subseteq secrets
    BY <1>1, <1>2, <2>3 DEF SourcesInv, SecretsStay
  <2>5. ups' \subseteq Upstreams /\ secrets \subseteq Owners
    BY <1>2, <2>3 DEF SourcesInv, SourcesTyped, Holdings
  <2>. QED
    BY <1>1, <1>2, <2>1, <2>2, <2>3, <2>4, <2>5, FailureIsTold
<1>. QED
  BY <1>1, <1>3, <1>4, <1>5, <1>6, AtApply

LEMMA UndoFailsKeeps == ASSUME SourcesInv, ApplyAndUndoFail PROVE SourcesInv'
<1>1. /\ work # Idle /\ work.step = "apply" /\ sourceFaults + 2 <= MaxSourceFaults /\ sourceFaults' = sourceFaults + 2
      /\ UNCHANGED <<subs, nodes, subsFile, nodesFile, ups, secrets, compiled>>
      /\ work.op \in {"create", "delete"}
  BY DEF ApplyAndUndoFail, sourceFiles
<1>2. /\ sourceFaults \in Nat /\ sourceFaults' \in 0 .. MaxSourceFaults /\ work.faults \in Nat
      /\ sourceFaults' > 1 /\ sourceFaults' > work.faults + 1 /\ sourceFaults' > sourceFaults
  BY <1>1, WorkIsTyped, SourcesAssumption DEF SourcesInv, SourcesTyped
<1>3. CASE work.op = "create"
  BY <1>1, <1>2, <1>3, CreationFailed DEF ApplyAndUndoFail
<1>4. CASE work.op = "delete"
  <2>1. Tell(FALSE) /\ subs = subsFile
    BY <1>1, <1>4, AtApply DEF ApplyAndUndoFail
  <2>2. ups \subseteq Upstreams /\ secrets \subseteq Owners /\ ~(sourceFaults' <= 1)
    BY <1>2, SourcesAssumption DEF SourcesInv, SourcesTyped
  <2>. QED
    BY <1>1, <1>2, <2>1, <2>2, FailureIsTold
<1>. QED
  BY <1>1, <1>3, <1>4

\* The secret that goes belongs to no source any more.
LEMMA ForgetKeeps == ASSUME SourcesInv, ForgetSecret PROVE SourcesInv'
<1>1. /\ work # Idle /\ work.step \in {"forget", "forgetFailed"} /\ Tell(work.step = "forget")
      /\ UNCHANGED <<subs, nodes, subsFile, nodesFile, ups, compiled>>
  BY DEF ForgetSecret, sourceFiles
<1>2. /\ secrets' = secrets \ {work.owner} \/ secrets' = secrets
      /\ sourceFaults' \in 0 .. MaxSourceFaults /\ sourceFaults' >= sourceFaults /\ sourceFaults \in Nat
  BY SourcesAssumption DEF ForgetSecret, NoFault, Fault, SourcesInv, SourcesTyped
<1>3. /\ work \in Works /\ work.was \in Holdings /\ work.faults \in Nat /\ work.faults <= sourceFaults
      /\ work.op \in {"add", "remove", "refresh", "create", "delete"}
  BY <1>1, WorkIsTyped
<1>4. subs = subsFile /\ ~Saving(work)
  BY <1>1 DEF SourcesInv, FilesFollow, Saving
<1>5. /\ work.step = "forget" => work.op \in {"remove", "delete"}
      /\ work.step = "forgetFailed" => work.op \in {"add", "create"}
  BY <1>1, <1>3 DEF SourcesInv, OperationsHold, Adding, Removing, Refreshing, Creating, Deleting
<1>6. \/ work.owner \in Providers /\ work.owner \notin subs
      \/ work.owner \in Upstreams /\ work.owner \notin ups
      \/ sourceFaults > 1
  <2>1. CASE work.op \in {"add", "remove"}
    BY <1>1, <1>4, <1>5, <2>1 DEF SourcesInv, OperationsHold, Adding, Removing
  <2>2. CASE work.op = "create"
    BY <1>1, <1>2, <1>3, <1>5, <2>2 DEF SourcesInv, OperationsHold, Creating
  <2>3. CASE work.op = "delete"
    BY <1>1, <2>3 DEF SourcesInv, OperationsHold, Deleting
  <2>. QED
    BY <1>1, <1>5, <2>1, <2>2, <2>3
<1>7. sourceFaults' <= 1 => subs \subseteq secrets' /\ ups \subseteq secrets' /\ Whole(subs, nodes)
  <2>1. SUFFICES ASSUME sourceFaults' <= 1 PROVE subs \subseteq secrets' /\ ups \subseteq secrets' /\ Whole(subs, nodes)
    OBVIOUS
  <2>2. sourceFaults <= 1 /\ ~(sourceFaults > 1)
    BY <1>2, <2>1, SourcesAssumption
  <2>3. subs \subseteq secrets /\ ups \subseteq secrets /\ Whole(subs, nodes)
    BY <2>2 DEF SourcesInv, SecretsStay, NodesHaveOwners
  <2>4. subs \subseteq Providers /\ ups \subseteq Upstreams
    BY DEF SourcesInv, SourcesTyped
  <2>. QED
    BY <1>2, <1>6, <2>2, <2>3, <2>4, SourcesAssumption
<1>8. sourceFaults' = 0 => Whole(subsFile, nodesFile)
  BY <1>2 DEF SourcesInv, CacheHasOwners
<1>9. AnswersAreTrue'
  <2>1. /\ work' = Idle /\ answered' \in Answers /\ answered'.op = work.op /\ answered'.ok = (work.step = "forget") /\ answered'.was = work.was
        /\ answered'.damaged = (sourceFaults' > work.faults + 1)
    BY <1>1, AnswerGoes
  <2>2. CASE work.step = "forget"
    <3>1. ups \cap secrets' = ups \cap secrets /\ Content' = Content
      <4>1. work.owner \notin ups
        <5>1. ups \subseteq Upstreams
          BY DEF SourcesInv, SourcesTyped
        <5>2. CASE work.op = "remove"
          BY <1>1, <5>1, <5>2, SourcesAssumption DEF SourcesInv, OperationsHold, Removing
        <5>3. CASE work.op = "delete"
          BY <1>1, <5>3 DEF SourcesInv, OperationsHold, Deleting
        <5>. QED
          BY <1>5, <2>2, <5>2, <5>3
      <4>. QED
        BY <1>1, <1>2, <4>1 DEF Content
    <3>2. compiled = [nodes |-> Content, ups |-> ups \cap secrets]
      BY <1>1, <2>2 DEF SourcesInv, OperationsHold, Compiling
    <3>3. compiled' = [nodes |-> Content', ups |-> ups' \cap secrets']
      BY <1>1, <3>1, <3>2
    <3>. QED
      BY <2>1, <2>2, <3>3 DEF AnswersAreTrue
  <2>3. CASE work.step = "forgetFailed"
    <3>1. CASE work.op = "add"
      BY <2>1, <3>1 DEF AnswersAreTrue
    <3>2. CASE work.op = "create" /\ sourceFaults > work.faults + 1
      <4>1. sourceFaults' > work.faults + 1
        BY <1>2, <1>3, <3>2, SourcesAssumption
      <4>. QED
        BY <2>1, <4>1 DEF AnswersAreTrue
    <3>3. CASE work.op = "create" /\ ~(sourceFaults > work.faults + 1)
      <4>1. subs = work.was.subs /\ nodes = work.was.nodes /\ ups = work.was.ups
        BY <1>1, <2>3, <3>3 DEF SourcesInv, OperationsHold, Creating
      <4>2. Now' = work.was
        BY <1>1, <1>3, <4>1 DEF Now, Holdings
      <4>. QED
        BY <2>1, <2>3, <4>2 DEF AnswersAreTrue
    <3>. QED
      BY <1>5, <2>3, <3>1, <3>2, <3>3
  <2>. QED
    BY <1>1, <2>2, <2>3
<1>10. work' = Idle /\ answered' \in Answers /\ secrets' \subseteq Owners
  BY <1>1, <1>2, AnswerGoes DEF SourcesInv, SourcesTyped
<1>. QED
  BY <1>1, <1>2, <1>4, <1>7, <1>8, <1>9, <1>10, OperationEnds DEF SourcesInv, SourcesTyped

\* The next process starts from the files.
LEMMA SourcesDieKeeps == ASSUME SourcesInv, SourcesDie PROVE SourcesInv'
<1>1. /\ work # Idle /\ sourceFaults < MaxSourceFaults /\ sourceFaults' = sourceFaults + 1
      /\ subs' = subsFile /\ nodes' = nodesFile /\ work' = Idle
      /\ UNCHANGED <<subsFile, nodesFile, ups, secrets, compiled>>
  BY DEF SourcesDie, Fault, sourceFiles
<1>2. /\ sourceFaults \in Nat /\ sourceFaults' \in 0 .. MaxSourceFaults /\ sourceFaults' # 0
  BY <1>1, SourcesAssumption DEF SourcesInv, SourcesTyped
<1>3. sourceFaults' <= 1 => subs' \subseteq secrets /\ ups \subseteq secrets /\ Whole(subs', nodes')
  <2>1. SUFFICES ASSUME sourceFaults' <= 1 PROVE sourceFaults = 0 /\ sourceFaults <= 1
    BY <1>1 DEF SourcesInv, SecretsStay, CacheHasOwners
  <2>. QED
    BY <1>1, <1>2, <2>1
<1>4. AnswersAreTrue' /\ answered' \in Answers
  <2>1. answered' = [answered EXCEPT !.op = "none"] /\ answered \in Answers
    BY DEF SourcesDie, SourcesInv, SourcesTyped
  <2>2. answered' \in Answers /\ answered'.op = "none"
    BY <2>1 DEF Answers
  <2>. QED
    BY <2>2 DEF AnswersAreTrue
<1>. QED
  BY <1>1, <1>2, <1>3, <1>4, OperationEnds DEF SourcesInv, SourcesTyped

LEMMA SourcesNextInv == ASSUME SourcesInv, [SourcesNext]_sourceVars PROVE SourcesInv'
<1>1. CASE SourcesNext
  BY <1>1, AddKeeps, DetachKeeps, CreateKeeps, DeleteKeeps, RefreshKeeps, SaveCacheKeeps,
     SaveMetadataKeeps, SaveFailsKeeps, ApplyKeeps, ApplyFailsKeeps, UndoFailsKeeps, ForgetKeeps,
     SourcesDieKeeps DEF SourcesNext
<1>2. CASE UNCHANGED sourceVars
  BY <1>2, SourcesRest
<1>. QED
  BY <1>1, <1>2

LEMMA SourcesSafe == ASSUME SourcesInv PROVE SourcesAreSafe /\ SourcesTypeOK
<1>1. SourcesAreWhole
  BY DEF SourcesInv, SecretsStay, NodesHaveOwners, SourcesAreWhole, Whole
<1>2. SourcesTypeOK
  BY DEF SourcesInv, SourcesTyped, SourcesTypeOK
<1>. QED
  BY <1>1, <1>2 DEF SourcesInv, SourcesAreSafe

-----------------------------------------------------------------------------
(* The inductive invariant *)

Reading == {"turn", "machine", "proxy"}
ShownStates == [committed : Modes, desired : Modes, faulted : BOOLEAN, ready : BOOLEAN]
Observations == [physical : BOOLEAN, expected : BOOLEAN, journal : {"none", "kept", "unread"},
                 adapter : {"missing", "enabled", "disabled"}]
SnapshotsRead == [shown : ShownStates, busy : BOOLEAN, machine : Observations, partial : BOOLEAN,
                  proxy : {"none", "navo", "external"}, marker : BOOLEAN, reachable : BOOLEAN]

Machines == [core : {"off", "dead", "disabled"} \cup Captures, proxy : {"none", "navo", "external"},
             marker : BOOLEAN, expected : BOOLEAN, left : BOOLEAN, physical : BOOLEAN]
Turns == [op : {"none", "switch", "select", "heal"},
          at : {"none", "stop", "start", "up", "commit", "close"}, target : Modes]

IsHealth(h) ==
    /\ h = [at |-> h.at, mode |-> h.mode, count |-> h.count, evidence |-> h.evidence]
    /\ h.mode \in Modes /\ h.at \in {"idle", "probe", "heal"} /\ h.count \in 0 .. 3 /\ (h.at # "heal" => h.count # 3)

\* What the proof needs of the types.
EnvironmentTyped ==
    /\ actual \in Machines /\ shown \in ShownStates /\ connection \in Turns
    /\ signal \in BOOLEAN /\ guard \in Collectors \cup {"free"}
    /\ IsHealth(health)
    /\ collect = [c \in Collectors |-> collect[c]]
    /\ \A c \in Collectors :
        /\ collect[c] = [at |-> collect[c].at, seen |-> collect[c].seen]
        /\ collect[c].at \in {"idle", "wait", "decide"} \cup Reading
        /\ collect[c].at \in Reading => collect[c].seen \in SnapshotsRead
    /\ collect["monitor"].at # "decide"

\* environmentRefreshMu is held by whoever reads.
GuardIsHeld == \A c \in Collectors : collect[c].at \in Reading <=> guard = c

\* A snapshot under way that has missed a change will be followed by another one.
MissedIsSignalled ==
    \A c \in Collectors :
        collect[c].at \in Reading /\ collect[c].seen.shown # shown =>
            signal \/ collect["monitor"].at = "wait"

EnvironmentInv == EnvironmentTyped /\ GuardIsHeld /\ MissedIsSignalled /\ ChangesAreObserved

-----------------------------------------------------------------------------
LEMMA EnvironmentInitInv == EnvironmentInit => EnvironmentInv
  BY DEF EnvironmentInit, EnvironmentInv, EnvironmentTyped, GuardIsHeld, MissedIsSignalled,
     ChangesAreObserved, ShownStates, Machines, Turns, Shown, NoTurn, Quiet, Report, Modes,
     Captures, Collectors, Reading, IsHealth

\* An announcement of the capture state asks for a refresh, and leaves the readers alone.
LEMMA AnnouncementIsSignalled ==
    ASSUME EnvironmentInv, signal', UNCHANGED <<guard, collect>>, EnvironmentTyped'
    PROVE  EnvironmentInv'
  BY DEF EnvironmentInv, GuardIsHeld, MissedIsSignalled, ChangesAreObserved

\* A step that neither changes the capture state nor touches a refresh.
LEMMA ElsewhereIsHarmless ==
    ASSUME EnvironmentInv, EnvironmentTyped', UNCHANGED <<shown, signal, guard, collect>>,
           published'.shown = published.shown
    PROVE  EnvironmentInv'
  BY DEF EnvironmentInv, GuardIsHeld, MissedIsSignalled, ChangesAreObserved

-----------------------------------------------------------------------------
(* Transactions *)

LEMMA QuietHealth == IsHealth(Quiet)
  BY DEF IsHealth, Quiet, Modes

LEMMA WatchersKeepTypes ==
    ASSUME EnvironmentTyped, UNCHANGED watchers, signal' \in BOOLEAN,
           actual' \in Machines, shown' \in ShownStates, connection' \in Turns
    PROVE  EnvironmentTyped'
  BY DEF EnvironmentTyped, watchers, IsHealth

LEMMA FreeMachine == ASSUME NEW n \in Machines PROVE Free(n) \in Machines
  BY DEF Free, Machines, Captures

LEMMA StoppedMachine == ASSUME EnvironmentTyped, CaptureStopped PROVE actual' \in Machines
<1> DEFINE free == Free(actual)
<1>1. free \in Machines
  BY FreeMachine DEF EnvironmentTyped
<1>2. [free EXCEPT !.left = FALSE] \in Machines
  BY <1>1 DEF Machines
<1> QED
  BY <1>1, <1>2 DEF CaptureStopped

LEMMA TransactionsKeep ==
    ASSUME EnvironmentInv,
           \/ \E op \in {"switch", "select"}, target \in Modes : BeginTurn(op, target)
           \/ TakeDown \/ ExpectAdapter \/ BringUp \/ CommitTurn \/ FailClosed
    PROVE  EnvironmentInv'
<1>1. EnvironmentTyped /\ actual \in Machines /\ shown \in ShownStates /\ connection \in Turns /\ signal \in BOOLEAN
  BY DEF EnvironmentInv, EnvironmentTyped
<1>2. NoTurn \in Turns
  BY DEF NoTurn, Turns, Modes
<1>3. ASSUME NEW op \in {"switch", "select"}, NEW target \in Modes, BeginTurn(op, target)
      PROVE  EnvironmentInv'
  <2>1. signal' /\ signal' \in BOOLEAN /\ UNCHANGED watchers /\ UNCHANGED actual
    BY <1>3 DEF BeginTurn, Announce
  <2>2. shown' \in ShownStates /\ connection' \in Turns
    BY <1>1, <1>3 DEF BeginTurn, Announce, ShownStates, Turns
  <2> QED
    BY <1>1, <2>1, <2>2, WatchersKeepTypes, AnnouncementIsSignalled DEF watchers
<1>4. CASE TakeDown
  <2>1. actual' \in Machines /\ UNCHANGED watchers
    BY <1>1, <1>4, StoppedMachine DEF TakeDown
  <2>2. connection' \in Turns
    BY <1>1, <1>4 DEF TakeDown, Turns
  <2>3. CASE connection.op = "switch"
    BY <1>1, <1>4, <2>1, <2>2, <2>3, WatchersKeepTypes, ElsewhereIsHarmless DEF TakeDown, watchers
  <2>4. CASE connection.op # "switch"
    <3>1. signal' = TRUE /\ shown' = Shown("off", connection.target, FALSE, TRUE)
      BY <1>4, <2>4 DEF TakeDown, Announce
    <3>2. shown' \in ShownStates
      BY <1>1, <3>1 DEF Shown, ShownStates, Turns, Modes
    <3> QED
      BY <1>1, <2>1, <2>2, <3>1, <3>2, WatchersKeepTypes, AnnouncementIsSignalled DEF watchers
  <2> QED
    BY <2>3, <2>4
<1>5. CASE ExpectAdapter
  <2>1. UNCHANGED <<shown, signal, watchers>> /\ connection' \in Turns
    BY <1>1, <1>5 DEF ExpectAdapter, Turns
  <2>2. actual' \in Machines
    BY <1>1, <1>5, (connection.target = "tun") \in BOOLEAN DEF ExpectAdapter, Machines
  <2> QED
    BY <1>1, <2>1, <2>2, WatchersKeepTypes, ElsewhereIsHarmless DEF watchers
<1>6. CASE BringUp
  <2>1. UNCHANGED <<shown, signal, watchers>> /\ connection' \in Turns
    BY <1>1, <1>6 DEF BringUp, Turns
  <2>2. actual' \in Machines
    <3> DEFINE left == connection.target = "tun" \/ actual.left
               marker == connection.target = "system_proxy"
    <3>1. left \in BOOLEAN /\ marker \in BOOLEAN /\ connection.target \in Modes
      BY <1>1 DEF Turns
    <3>2. actual' = [actual EXCEPT !.core = connection.target, !.left = left,
                       !.proxy = IF connection.target = "system_proxy" THEN "navo" ELSE actual.proxy,
                       !.marker = marker]
      BY <1>6 DEF BringUp
    <3> HIDE DEF left, marker
    <3> QED
      BY <1>1, <3>1, <3>2 DEF Machines, Modes
  <2> QED
    BY <1>1, <2>1, <2>2, WatchersKeepTypes, ElsewhereIsHarmless DEF watchers
<1>7. CASE CommitTurn
  <2>1. signal' /\ signal' \in BOOLEAN /\ UNCHANGED watchers /\ UNCHANGED actual /\ connection' \in Turns
    BY <1>2, <1>7 DEF CommitTurn, Announce
  <2>2. shown' \in ShownStates
    BY <1>1, <1>7 DEF CommitTurn, Announce, Shown, ShownStates, Turns
  <2> QED
    BY <1>1, <2>1, <2>2, WatchersKeepTypes, AnnouncementIsSignalled DEF watchers
<1>8. CASE FailClosed
  <2>1. actual' \in Machines
    BY <1>1, <1>8, StoppedMachine, FreeMachine DEF FailClosed
  <2>2. signal' /\ signal' \in BOOLEAN /\ UNCHANGED watchers /\ connection' \in Turns
    BY <1>2, <1>8 DEF FailClosed, Announce
  <2>3. shown' \in ShownStates
    BY <1>1, <1>8 DEF FailClosed, Announce, Shown, ShownStates, Turns, Modes
  <2> QED
    BY <1>1, <2>1, <2>2, <2>3, WatchersKeepTypes, AnnouncementIsSignalled DEF watchers
<1> QED
  BY <1>3, <1>4, <1>5, <1>6, <1>7, <1>8

-----------------------------------------------------------------------------
(* The machine, the monitor and the repairs *)

LEMMA TroubleKeeps == EnvironmentInv /\ Trouble => EnvironmentInv'
<1> SUFFICES ASSUME EnvironmentInv, Trouble PROVE EnvironmentInv'
  OBVIOUS
<1>1. EnvironmentTyped /\ actual \in Machines
  BY DEF EnvironmentInv, EnvironmentTyped
<1>2. UNCHANGED <<shown, connection, signal, watchers>>
  BY DEF Trouble
<1>3. ASSUME NEW c \in {"dead", "disabled"} PROVE [actual EXCEPT !.core = c] \in Machines
  BY <1>1 DEF Machines
<1>4. ASSUME NEW p \in {"none", "external"} PROVE [actual EXCEPT !.proxy = p] \in Machines
  BY <1>1 DEF Machines
<1>5. [actual EXCEPT !.physical = ~actual.physical] \in Machines
  BY <1>1 DEF Machines
<1>6. (CASE actual.core = "tun" -> {"dead", "disabled"} [] actual.core = "off" -> {} [] OTHER -> {"dead"})
        \subseteq {"dead", "disabled"}
  OBVIOUS
<1>7. actual' \in Machines
  BY <1>3, <1>4, <1>5, <1>6 DEF Trouble
<1> QED
  BY <1>1, <1>2, <1>7, WatchersKeepTypes, ElsewhereIsHarmless DEF EnvironmentInv,
     EnvironmentTyped, watchers

\* Types, when no refresh moves.
LEMMA OthersKeepTypes ==
    ASSUME EnvironmentTyped, UNCHANGED <<actual, guard, collect>>, signal' \in BOOLEAN,
           shown' \in ShownStates, connection' \in Turns, IsHealth(health')
    PROVE  EnvironmentTyped'
  BY DEF EnvironmentTyped

LEMMA CountedHealth ==
    ASSUME IsHealth(health), health.at # "heal", NEW mode \in Modes, NEW evidence, Count(mode, evidence)
    PROVE  IsHealth(health')
<1> DEFINE count == IF health.evidence.code = evidence.code THEN health.count + 1 ELSE 1
<1>1. CASE count = 3
  BY <1>1 DEF Count, Quiet, IsHealth
<1>2. CASE count # 3
  <2>1. health' = [Quiet EXCEPT !.count = count, !.evidence.code = evidence.code]
    BY <1>2 DEF Count
  <2>2. count \in 0 .. 3
    BY DEF IsHealth
  <2> HIDE DEF count
  <2> QED
    BY <1>2, <2>1, <2>2 DEF Quiet, IsHealth, Modes
<1> QED
  BY <1>1, <1>2

LEMMA LookKeeps == EnvironmentInv /\ LookAtHealth => EnvironmentInv'
<1> SUFFICES ASSUME EnvironmentInv, LookAtHealth PROVE EnvironmentInv'
  OBVIOUS
<1>1. EnvironmentTyped /\ shown \in ShownStates /\ connection \in Turns /\ signal \in BOOLEAN /\ IsHealth(health)
  BY DEF EnvironmentInv, EnvironmentTyped
<1>2. UNCHANGED <<actual, shown, connection, signal, guard, collect, published>>
  BY DEF LookAtHealth, machine
<1>3. shown.committed \in Modes /\ health.at # "heal"
  BY <1>1 DEF ShownStates, LookAtHealth
<1>4. \/ Sound \/ health' = [health EXCEPT !.at = "probe", !.mode = shown.committed]
      \/ \E evidence : Count(shown.committed, evidence)
  BY DEF LookAtHealth
<1>5. IsHealth(health')
  <2>1. CASE Sound
    BY <2>1, QuietHealth DEF Sound
  <2>2. CASE health' = [health EXCEPT !.at = "probe", !.mode = shown.committed]
    BY <1>1, <1>3, <2>2 DEF IsHealth
  <2> QED
    BY <1>1, <1>3, <1>4, <2>1, <2>2, CountedHealth
<1> QED
  BY <1>1, <1>2, <1>5, OthersKeepTypes, ElsewhereIsHarmless

LEMMA ProbeKeeps == EnvironmentInv /\ Probe => EnvironmentInv'
<1> SUFFICES ASSUME EnvironmentInv, Probe PROVE EnvironmentInv'
  OBVIOUS
<1>1. EnvironmentTyped /\ shown \in ShownStates /\ connection \in Turns /\ signal \in BOOLEAN /\ IsHealth(health)
  BY DEF EnvironmentInv, EnvironmentTyped
<1>2. UNCHANGED <<actual, connection, guard, collect, published, old, events>>
  BY DEF Probe
<1>3. health.mode \in Modes /\ health.at # "heal"
  BY <1>1 DEF IsHealth, Probe
<1>4. Sound \/ \E evidence : Count(health.mode, evidence)
  BY DEF Probe
<1>5. IsHealth(health')
  BY <1>1, <1>3, <1>4, QuietHealth, CountedHealth DEF Sound
<1>6. CASE UNCHANGED <<shown, signal>>
  BY <1>1, <1>2, <1>5, <1>6, OthersKeepTypes, ElsewhereIsHarmless
<1>7. ASSUME NEW ready \in BOOLEAN, Announce([shown EXCEPT !.ready = ready]) PROVE EnvironmentInv'
  <2>1. signal' /\ signal' \in BOOLEAN /\ shown' \in ShownStates
    BY <1>1, <1>7 DEF Announce, ShownStates
  <2> QED
    BY <1>1, <1>2, <1>5, <2>1, OthersKeepTypes, AnnouncementIsSignalled
<1>8. UNCHANGED <<shown, signal>> \/ \E ready \in BOOLEAN : Announce([shown EXCEPT !.ready = ready])
  BY DEF Probe
<1> QED
  BY <1>6, <1>7, <1>8

LEMMA RepairTurn ==
    ASSUME EnvironmentTyped, NEW mode \in Modes, NEW evidence, BeginRepair(mode, evidence)
    PROVE  connection' \in Turns
  BY DEF BeginRepair, EnvironmentTyped, Turns

LEMMA HealKeeps == EnvironmentInv /\ Heal => EnvironmentInv'
<1> SUFFICES ASSUME EnvironmentInv, Heal PROVE EnvironmentInv'
  OBVIOUS
<1>1. EnvironmentTyped /\ shown \in ShownStates /\ connection \in Turns /\ signal \in BOOLEAN /\ IsHealth(health)
  BY DEF EnvironmentInv, EnvironmentTyped
<1>2. UNCHANGED <<actual, shown, signal, guard, collect, published>> /\ IsHealth(health')
  BY QuietHealth DEF Heal
<1>3. connection' \in Turns
  BY <1>1, RepairTurn DEF Heal, IsHealth
<1> QED
  BY <1>1, <1>2, <1>3, OthersKeepTypes, ElsewhereIsHarmless

-----------------------------------------------------------------------------
(* Refreshes *)

\* A refresh that starts, waits or ends a decision reads nothing.
LEMMA OneCollectorMoves ==
    ASSUME EnvironmentInv, NEW c \in Collectors, NEW place \in {"idle", "wait", "decide"} \cup Reading, NEW seen,
           collect' = [collect EXCEPT ![c] = [at |-> place, seen |-> seen]],
           place = "decide" => c = "user", place \in Reading => seen \in SnapshotsRead,
           UNCHANGED <<actual, shown, connection, health>>, signal' \in BOOLEAN,
           guard' \in Collectors \cup {"free"}
    PROVE  EnvironmentTyped'
  BY DEF EnvironmentInv, EnvironmentTyped, Collectors

LEMMA PutIs ==
    ASSUME EnvironmentTyped, NEW c \in Collectors, NEW place, Put(c, place)
    PROVE  collect' = [collect EXCEPT ![c] = [at |-> place, seen |-> collect[c].seen]]
<1>1. collect[c] = [at |-> collect[c].at, seen |-> collect[c].seen]
  BY DEF EnvironmentTyped
<1>2. [collect[c] EXCEPT !.at = place] = [at |-> place, seen |-> collect[c].seen]
  BY <1>1
<1>3. collect' = [collect EXCEPT ![c] = [collect[c] EXCEPT !.at = place]]
  BY DEF Put
<1> QED
  BY <1>2, <1>3

LEMMA WakeKeeps == EnvironmentInv /\ Wake => EnvironmentInv'
<1> SUFFICES ASSUME EnvironmentInv, Wake PROVE EnvironmentInv'
  OBVIOUS
<1> DEFINE seen == collect["monitor"].seen
<1>1. EnvironmentTyped /\ signal \in BOOLEAN /\ guard \in Collectors \cup {"free"} /\ collect["monitor"].at = "idle"
  BY DEF EnvironmentInv, EnvironmentTyped, Wake
<1>2. "monitor" \in Collectors
  BY DEF Collectors
<1>3. collect' = [collect EXCEPT !["monitor"] = [at |-> "wait", seen |-> seen]]
  BY <1>1, <1>2, PutIs DEF Wake
<1>4. UNCHANGED <<actual, shown, connection, guard, published, health>> /\ signal' \in BOOLEAN
  BY <1>1 DEF Wake, machine
<1> HIDE DEF seen
<1>5. EnvironmentTyped'
  <2>1. guard' \in Collectors \cup {"free"} /\ "wait" \in {"idle", "wait", "decide"} \cup Reading
        /\ "wait" \notin Reading
    BY <1>1, <1>4 DEF Reading
  <2> QED
    BY <1>2, <1>3, <1>4, <2>1, OneCollectorMoves
<1>6. collect' = [c \in Collectors |-> IF c = "monitor" THEN [at |-> "wait", seen |-> seen] ELSE collect[c]]
  BY <1>1, <1>3 DEF EnvironmentTyped
<1>7. \A c \in Collectors : collect[c].at \in Reading <=> collect'[c].at \in Reading
  BY <1>1, <1>6 DEF Reading
<1>8. collect'["monitor"].at = "wait"
  BY <1>2, <1>6
<1> QED
  BY <1>4, <1>5, <1>7, <1>8 DEF EnvironmentInv, GuardIsHeld, MissedIsSignalled, ChangesAreObserved

LEMMA AskRepairKeeps == EnvironmentInv /\ AskRepair => EnvironmentInv'
<1> SUFFICES ASSUME EnvironmentInv, AskRepair PROVE EnvironmentInv'
  OBVIOUS
<1> DEFINE seen == collect["user"].seen
<1>1. EnvironmentTyped /\ signal \in BOOLEAN /\ guard \in Collectors \cup {"free"} /\ collect["user"].at = "idle"
  BY DEF EnvironmentInv, EnvironmentTyped, AskRepair
<1>2. "user" \in Collectors /\ "monitor" \in Collectors
  BY DEF Collectors
<1>3. collect' = [collect EXCEPT !["user"] = [at |-> "wait", seen |-> seen]]
  BY <1>1, <1>2, PutIs DEF AskRepair
<1>4. UNCHANGED <<actual, shown, connection, signal, guard, published, health>>
  BY DEF AskRepair
<1> HIDE DEF seen
<1>5. EnvironmentTyped'
  <2>1. guard' \in Collectors \cup {"free"} /\ "wait" \in {"idle", "wait", "decide"} \cup Reading
        /\ "wait" \notin Reading /\ signal' \in BOOLEAN
    BY <1>1, <1>4 DEF Reading
  <2> QED
    BY <1>2, <1>3, <1>4, <2>1, OneCollectorMoves
<1>6. collect' = [c \in Collectors |-> IF c = "user" THEN [at |-> "wait", seen |-> seen] ELSE collect[c]]
  BY <1>1, <1>3 DEF EnvironmentTyped
<1>7. \A c \in Collectors : /\ collect[c].at \in Reading <=> collect'[c].at \in Reading
                            /\ collect[c].at \in Reading => collect'[c] = collect[c]
  BY <1>1, <1>6 DEF Reading
<1>8. collect'["monitor"] = collect["monitor"]
  BY <1>2, <1>6
<1> QED
  BY <1>4, <1>5, <1>7, <1>8 DEF EnvironmentInv, GuardIsHeld, MissedIsSignalled, ChangesAreObserved

LEMMA BlankRead ==
    ASSUME shown \in ShownStates PROVE [Blank EXCEPT !.shown = shown] \in SnapshotsRead
  BY DEF Blank, SnapshotsRead, NothingSeen, Observations, ShownStates, Shown

LEMMA ReadCaptureKeeps ==
    ASSUME EnvironmentInv, NEW c \in Collectors, ReadCapture(c) PROVE EnvironmentInv'
<1> DEFINE seen == [Blank EXCEPT !.shown = shown]
<1>1. EnvironmentTyped /\ shown \in ShownStates /\ signal \in BOOLEAN /\ guard = "free"
  BY DEF EnvironmentInv, EnvironmentTyped, ReadCapture
<1>2. seen \in SnapshotsRead /\ seen.shown = shown
  BY <1>1, BlankRead DEF Blank
<1>3. collect' = [collect EXCEPT ![c] = [at |-> "turn", seen |-> seen]] /\ guard' = c
  BY DEF ReadCapture, ReadsCapture, Reads
<1>4. UNCHANGED <<actual, shown, connection, signal, published, health>>
  BY DEF ReadCapture, machine
<1> HIDE DEF seen
<1>5. EnvironmentTyped'
  <2>1. guard' \in Collectors \cup {"free"} /\ "turn" \in {"idle", "wait", "decide"} \cup Reading
        /\ signal' \in BOOLEAN
    BY <1>1, <1>3, <1>4 DEF Reading
  <2> QED
    BY <1>2, <1>3, <1>4, <2>1, OneCollectorMoves
<1>6. collect' = [d \in Collectors |-> IF d = c THEN [at |-> "turn", seen |-> seen] ELSE collect[d]]
  BY <1>1, <1>3 DEF EnvironmentTyped
<1>7. \A d \in Collectors : collect[d].at \notin Reading
  BY <1>1 DEF EnvironmentInv, GuardIsHeld, Collectors
<1>8. \A d \in Collectors : collect'[d].at \in Reading <=> d = c
  BY <1>6, <1>7 DEF Reading
<1>9. collect'[c].seen.shown = shown'
  BY <1>2, <1>4, <1>6
<1>10. GuardIsHeld'
  BY <1>3, <1>8 DEF GuardIsHeld
<1>11. MissedIsSignalled'
  BY <1>8, <1>9 DEF MissedIsSignalled
<1>12. ChangesAreObserved'
  <2>1. c = "monitor" \/ collect'["monitor"] = collect["monitor"]
    BY <1>6 DEF Collectors
  <2>2. collect["monitor"].at \notin Reading
    BY <1>7 DEF Collectors
  <2>3. CASE c = "monitor"
    BY <1>6, <1>9, <2>3 DEF ChangesAreObserved, Collectors
  <2>4. CASE c # "monitor"
    BY <1>4, <2>1, <2>4 DEF EnvironmentInv, ChangesAreObserved
  <2> QED
    BY <2>3, <2>4
<1> QED
  BY <1>5, <1>10, <1>11, <1>12 DEF EnvironmentInv

\* The next read of a refresh that goes on.
LEMMA ReadingGoesOn ==
    ASSUME EnvironmentInv, NEW c \in Collectors, collect[c].at \in Reading, NEW place \in Reading,
           NEW seen \in SnapshotsRead, seen.shown = collect[c].seen.shown,
           collect' = [collect EXCEPT ![c] = [at |-> place, seen |-> seen]],
           UNCHANGED <<actual, shown, connection, signal, guard, published, health>>
    PROVE  EnvironmentInv'
<1>1. EnvironmentTyped'
  <2>1. guard' \in Collectors \cup {"free"} /\ place \in {"idle", "wait", "decide"} \cup Reading
        /\ signal' \in BOOLEAN /\ place # "decide"
    BY DEF Reading, EnvironmentInv, EnvironmentTyped
  <2> QED
    BY <2>1, OneCollectorMoves
<1>2. collect' = [d \in Collectors |-> IF d = c THEN [at |-> place, seen |-> seen] ELSE collect[d]]
  BY DEF EnvironmentInv, EnvironmentTyped
<1>3. \A d \in Collectors : /\ collect'[d].at \in Reading <=> collect[d].at \in Reading
                            /\ collect'[d].at \in Reading => collect'[d].seen.shown = collect[d].seen.shown
                            /\ collect'[d].at = "wait" <=> collect[d].at = "wait"
                            /\ collect'[d].at = "idle" <=> collect[d].at = "idle"
                            /\ collect'[d].seen.shown = collect[d].seen.shown
  BY <1>2 DEF Reading
<1>4. "monitor" \in Collectors
  BY DEF Collectors
<1>5. GuardIsHeld' /\ MissedIsSignalled'
  BY <1>3, <1>4 DEF EnvironmentInv, GuardIsHeld, MissedIsSignalled
<1>6. ChangesAreObserved'
  BY <1>3, <1>4 DEF EnvironmentInv, ChangesAreObserved
<1> QED
  BY <1>1, <1>5, <1>6 DEF EnvironmentInv

LEMMA ReadTurnKeeps ==
    ASSUME EnvironmentInv, NEW c \in Collectors, ReadTurn(c) PROVE EnvironmentInv'
<1> DEFINE seen == [collect[c].seen EXCEPT !.busy = Changing]
<1>1. collect[c].at \in Reading /\ collect[c].seen \in SnapshotsRead
  BY DEF ReadTurn, Reading, EnvironmentInv, EnvironmentTyped
<1>3. Changing \in BOOLEAN
  BY DEF Changing
<1>4. seen \in SnapshotsRead /\ seen.shown = collect[c].seen.shown
  BY <1>1, <1>3 DEF SnapshotsRead
<1>5. collect' = [collect EXCEPT ![c] = [at |-> "machine", seen |-> seen]]
  BY DEF ReadTurn, Reads
<1>6. UNCHANGED <<actual, shown, connection, signal, guard, published, health>> /\ "machine" \in Reading
  BY DEF ReadTurn, machine, Reading
<1> HIDE DEF seen
<1> QED
  BY <1>1, <1>4, <1>5, <1>6, ReadingGoesOn

LEMMA ObservationType ==
    ASSUME EnvironmentTyped, NEW left \in {"none", "kept", "unread"} PROVE Observation(left) \in Observations
  BY DEF EnvironmentTyped, Machines, Observation, Observations

LEMMA ReadMachineKeeps ==
    ASSUME EnvironmentInv, NEW c \in Collectors, ReadMachine(c) PROVE EnvironmentInv'
<1>1. collect[c].at \in Reading /\ collect[c].seen \in SnapshotsRead
  BY DEF ReadMachine, Reading, EnvironmentInv, EnvironmentTyped
<1>3. UNCHANGED <<actual, shown, connection, signal, guard, published, health>> /\ "proxy" \in Reading
  BY DEF ReadMachine, machine, Reading
<1>4. NothingSeen \in Observations /\ \A j \in {"none", "kept", "unread"} : Observation(j) \in Observations
  BY ObservationType DEF NothingSeen, Observations, EnvironmentInv
<1>5. ASSUME NEW seen \in SnapshotsRead, seen.shown = collect[c].seen.shown, Reads(c, "proxy", seen)
      PROVE  EnvironmentInv'
  BY <1>1, <1>3, <1>5, ReadingGoesOn DEF Reads
<1>6. ASSUME NEW observed \in Observations PROVE
        /\ [collect[c].seen EXCEPT !.machine = observed] \in SnapshotsRead
        /\ [collect[c].seen EXCEPT !.machine = observed].shown = collect[c].seen.shown
        /\ [collect[c].seen EXCEPT !.machine = observed, !.partial = TRUE] \in SnapshotsRead
        /\ [collect[c].seen EXCEPT !.machine = observed, !.partial = TRUE].shown = collect[c].seen.shown
  BY <1>1 DEF SnapshotsRead
<1>7. \E observed \in Observations : \/ Reads(c, "proxy", [collect[c].seen EXCEPT !.machine = observed])
                              \/ Reads(c, "proxy", [collect[c].seen EXCEPT !.machine = observed, !.partial = TRUE])
  BY <1>4 DEF ReadMachine
<1> QED
  BY <1>5, <1>6, <1>7

LEMMA ReadProxyKeeps ==
    ASSUME EnvironmentInv, NEW c \in Collectors, ReadProxy(c) PROVE EnvironmentInv'
<1> DEFINE seen == [collect[c].seen EXCEPT !.proxy = actual.proxy, !.marker = actual.marker,
                                           !.reachable = actual.core = "system_proxy"]
           place == IF c = "user" THEN "decide" ELSE "idle"
           report == IF c = "user" THEN Report(seen) ELSE Report(Blank)
<1>1. collect[c].at = "proxy" /\ collect[c].seen \in SnapshotsRead
  BY DEF ReadProxy, Reading, EnvironmentInv, EnvironmentTyped
<1>2. seen.shown = collect[c].seen.shown
  BY <1>1 DEF SnapshotsRead
<1>3. published'.shown = collect[c].seen.shown
  BY <1>2 DEF ReadProxy, Report
<1>4. collect' = [collect EXCEPT ![c] = [at |-> place, seen |-> report]] /\ guard' = "free"
  BY DEF ReadProxy, Reads
<1>5. UNCHANGED <<actual, shown, connection, signal, health>>
  BY DEF ReadProxy, machine
<1>6. guard = c /\ \A d \in Collectors : collect[d].at \in Reading <=> d = c
  BY <1>1 DEF EnvironmentInv, GuardIsHeld, Reading
<1> HIDE DEF seen, report
<1>7. EnvironmentTyped'
  <2>1. guard' \in Collectors \cup {"free"} /\ place \in {"idle", "wait", "decide"} \cup Reading
        /\ signal' \in BOOLEAN /\ (place = "decide" => c = "user") /\ place \notin Reading
    BY <1>4, <1>5 DEF Reading, EnvironmentInv, EnvironmentTyped
  <2> HIDE DEF place
  <2> QED
    BY <1>4, <1>5, <2>1, OneCollectorMoves
<1>8. collect' = [d \in Collectors |-> IF d = c THEN [at |-> place, seen |-> report] ELSE collect[d]]
  BY <1>4 DEF EnvironmentInv, EnvironmentTyped
<1>9. \A d \in Collectors : collect'[d].at \notin Reading
  BY <1>6, <1>8 DEF Reading
<1>10. GuardIsHeld' /\ MissedIsSignalled'
  BY <1>4, <1>9 DEF GuardIsHeld, MissedIsSignalled, Collectors
<1>11. ChangesAreObserved'
  <2>1. collect[c].seen.shown # shown => signal \/ collect["monitor"].at = "wait"
    BY <1>6 DEF EnvironmentInv, MissedIsSignalled
  <2>2. collect["monitor"].at = "wait" => c # "monitor" /\ collect'["monitor"] = collect["monitor"]
    BY <1>1, <1>8 DEF Collectors
  <2> QED
    BY <1>3, <1>5, <2>1, <2>2 DEF ChangesAreObserved
<1> QED
  BY <1>7, <1>10, <1>11 DEF EnvironmentInv

LEMMA GrowOldKeeps == EnvironmentInv /\ GrowOld => EnvironmentInv'
<1> SUFFICES ASSUME EnvironmentInv, GrowOld PROVE EnvironmentInv'
  OBVIOUS
<1>1. UNCHANGED <<actual, shown, connection, signal, guard, collect, health>>
  BY DEF GrowOld, machine
<1>2. EnvironmentTyped /\ EnvironmentTyped'
  BY <1>1 DEF EnvironmentInv, EnvironmentTyped
<1>3. published'.shown = published.shown
  BY DEF GrowOld
<1> QED
  BY <1>1, <1>2, <1>3, ElsewhereIsHarmless

LEMMA DecideKeeps == EnvironmentInv /\ Decide => EnvironmentInv'
<1> SUFFICES ASSUME EnvironmentInv, Decide PROVE EnvironmentInv'
  OBVIOUS
<1> DEFINE mode == IF shown.committed = "off" THEN shown.desired ELSE shown.committed
           report == Report(Blank)
<1>1. EnvironmentTyped /\ shown \in ShownStates /\ connection \in Turns /\ collect["user"].at = "decide"
  BY DEF EnvironmentInv, EnvironmentTyped, Decide
<1>2. mode \in Modes
  BY <1>1 DEF ShownStates
<1>3. UNCHANGED <<actual, shown, signal, guard, published, health>>
  BY DEF Decide
<1>4. UNCHANGED connection \/ \E evidence : BeginRepair(mode, evidence)
  BY DEF Decide
<1> HIDE DEF mode
<1>5. connection' \in Turns
  BY <1>1, <1>2, <1>4, RepairTurn
<1>6. collect' = [collect EXCEPT !["user"] = [at |-> "idle", seen |-> report]]
  BY DEF Decide, Reads
<1> HIDE DEF report
<1>7. collect' = [c \in Collectors |-> IF c = "user" THEN [at |-> "idle", seen |-> report] ELSE collect[c]]
  BY <1>1, <1>6 DEF EnvironmentTyped
<1>8. \A c \in Collectors : /\ collect'[c].at \in Reading <=> collect[c].at \in Reading
                            /\ collect'[c].at \in Reading => collect'[c] = collect[c]
  BY <1>1, <1>7 DEF Reading
<1>9. collect'["monitor"] = collect["monitor"]
  BY <1>7 DEF Collectors
<1>10. EnvironmentTyped'
  BY <1>1, <1>3, <1>5, <1>7, <1>8, <1>9 DEF EnvironmentTyped
<1> QED
  BY <1>3, <1>8, <1>9, <1>10 DEF EnvironmentInv, GuardIsHeld, MissedIsSignalled, ChangesAreObserved

-----------------------------------------------------------------------------
LEMMA EnvironmentNextInv == EnvironmentInv /\ [EnvironmentNext]_environmentVars => EnvironmentInv'
<1> SUFFICES ASSUME EnvironmentInv, [EnvironmentNext]_environmentVars PROVE EnvironmentInv'
  OBVIOUS
<1>1. CASE UNCHANGED environmentVars
  BY <1>1 DEF environmentVars, EnvironmentInv, EnvironmentTyped, GuardIsHeld, MissedIsSignalled,
     ChangesAreObserved
<1>2. ASSUME NEW c \in Collectors, ReadCapture(c) \/ ReadTurn(c) \/ ReadMachine(c) \/ ReadProxy(c)
      PROVE  EnvironmentInv'
  BY <1>2, ReadCaptureKeeps, ReadTurnKeeps, ReadMachineKeeps, ReadProxyKeeps
<1> QED
  BY <1>1, <1>2, TransactionsKeep, TroubleKeeps, WakeKeeps, AskRepairKeeps, GrowOldKeeps,
     LookKeeps, ProbeKeeps, HealKeeps, DecideKeeps DEF EnvironmentNext

(* However many requests there are, and whatever fails: as long as the     *)
(* store shows a capture state that is no longer true, a refresh that will *)
(* read the present one is asked for or under way                          *)
(* (requestEnvironmentRefresh, environmentRefreshMu of environment.go).    *)
THEOREM NoChangeIsMissed == EnvironmentSpec => []ChangesAreObserved
<1>1. EnvironmentInv => ChangesAreObserved
  BY DEF EnvironmentInv
<1> QED
  BY EnvironmentInitInv, EnvironmentNextInv, <1>1, PTL DEF EnvironmentSpec
-----------------------------------------------------------------------------
(* The compiler (Compiler): the lists of the Service and of the rules, of  *)
(* any length; induction over them is by the least counterexample, which   *)
(* WFMin provides for the order of the numbers.                            *)

\* A set of numbers that is not empty has a least one.
LEMMA LeastExists == ASSUME NEW S \in SUBSET Nat, S # {} PROVE \E m \in S : \A k \in S : m <= k
<1> DEFINE R == OpToRel(<, Nat)
<1>1. IsWellFoundedOn(R, Nat)
  BY NatLessThanWellFounded
<1>2. \A i, j \in Nat : i < j => <<i, j>> \in R
  BY DEF OpToRel
<1> HIDE DEF R
<1>3. PICK m \in S : \A k \in S : ~ (<<k, m>> \in R)
  BY <1>1, WFMin
<1>4. m \in Nat /\ \A k \in S : k \in Nat /\ ~(k < m)
  BY <1>2, <1>3
<1>5. \A k \in S : m <= k
  BY <1>4
<1> QED
  BY <1>3, <1>5

\* Induction for a set: the least number that is missing cannot be.
LEMMA SetInduction ==
  ASSUME NEW S, 0 \in S, \A n \in Nat : n \in S => n + 1 \in S
  PROVE  Nat \subseteq S
<1> SUFFICES ASSUME Nat \ S # {} PROVE FALSE
  OBVIOUS
<1>1. PICK m \in Nat \ S : \A k \in Nat \ S : m <= k
  <2>1. Nat \ S \in SUBSET Nat
    OBVIOUS
  <2> QED
    BY <2>1, LeastExists
<1>2. m # 0 /\ m - 1 \in Nat /\ m - 1 + 1 = m
  BY <1>1
<1>3. m - 1 \notin S
  BY <1>1, <1>2
<1>4. m - 1 \in Nat \ S /\ ~(m <= m - 1)
  BY <1>1, <1>2, <1>3
<1> QED
  BY <1>1, <1>4

\* The function that Enabled is written with, and the enabled sources.
Kept(g, s, m) ==
    g = [n \in 0 .. m |-> IF n = 0 THEN <<>>
                          ELSE IF s[n].enabled THEN Append(g[n - 1], s[n]) ELSE g[n - 1]]

On(s) == {s[i] : i \in {j \in DOMAIN s : s[j].enabled}}

\* There is such a function, whatever is listed.
LEMMA KeptExists ==
  ASSUME NEW s, NEW m \in Nat PROVE \E g : Kept(g, s, m)
<1> DEFINE S == {n \in Nat : \E g : Kept(g, s, n)}
<1>1. 0 \in S
  <2>1. Kept([n \in 0 .. 0 |-> <<>>], s, 0)
    BY DEF Kept
  <2> QED
    BY <2>1
<1>2. ASSUME NEW k \in Nat, k \in S PROVE k + 1 \in S
  <2>1. PICK g : Kept(g, s, k)
    BY <1>2
  <2> DEFINE h == [n \in 0 .. k + 1 |-> IF n <= k THEN g[n]
                         ELSE IF s[n].enabled THEN Append(g[k], s[n]) ELSE g[k]]
  <2>2. \A n \in 0 .. k : g[n] = IF n = 0 THEN <<>> ELSE IF s[n].enabled THEN Append(g[n - 1], s[n]) ELSE g[n - 1]
    BY <2>1 DEF Kept
  <2>3. ASSUME NEW n \in 0 .. k + 1
        PROVE  h[n] = IF n = 0 THEN <<>> ELSE IF s[n].enabled THEN Append(h[n - 1], s[n]) ELSE h[n - 1]
    <3>1. CASE n <= k
      <4>1. n \in 0 .. k /\ h[n] = g[n]
        BY <3>1
      <4>2. CASE n = 0
        BY <4>1, <4>2, <2>2
      <4>3. CASE n # 0
        <5>1. n - 1 \in 0 .. k /\ n - 1 <= k /\ n - 1 \in 0 .. k + 1
          BY <4>1, <4>3
        <5>2. h[n - 1] = g[n - 1]
          BY <5>1
        <5> QED
          BY <4>1, <4>3, <5>2, <2>2
      <4> QED
        BY <4>2, <4>3
    <3>2. CASE n = k + 1
      <4>1. n # 0 /\ ~(n <= k) /\ n - 1 = k /\ k \in 0 .. k + 1
        BY <3>2
      <4>2. h[n - 1] = g[k]
        BY <4>1
      <4> QED
        BY <4>1, <4>2
    <3> QED
      BY <3>1, <3>2
  <2>4. Kept(h, s, k + 1)
    <3> HIDE DEF h
    <3>1. h = [n \in 0 .. k + 1 |-> h[n]]
      BY DEF h
    <3> QED
      BY <3>1, <2>3 DEF Kept
  <2> QED
    BY <2>4
<1>3. Nat \subseteq S
  <2> HIDE DEF S
  <2> QED
    BY <1>1, <1>2, SetInduction
<1> QED
  BY <1>3

\* What is kept are enabled sources, and only those.
LEMMA KeptIsList ==
  ASSUME NEW T, NEW s \in Seq(T), NEW g, Kept(g, s, Len(s))
  PROVE  g[Len(s)] \in Seq(On(s))
<1> DEFINE S == {n \in Nat : n <= Len(s) => g[n] \in Seq(On(s))}
<1>1. Len(s) \in Nat /\ DOMAIN s = 1 .. Len(s)
  BY LenProperties
<1>2. \A n \in 0 .. Len(s) : g[n] = IF n = 0 THEN <<>> ELSE IF s[n].enabled THEN Append(g[n - 1], s[n]) ELSE g[n - 1]
  BY DEF Kept
<1>3. 0 \in S
  <2>1. 0 \in 0 .. Len(s)
    BY <1>1
  <2>2. g[0] = <<>>
    BY <1>2, <2>1
  <2> QED
    BY <2>2, EmptySeq
<1>4. ASSUME NEW n \in Nat, n \in S PROVE n + 1 \in S
  <2> SUFFICES ASSUME n + 1 <= Len(s) PROVE g[n + 1] \in Seq(On(s))
    OBVIOUS
  <2>1. g[n] \in Seq(On(s)) /\ n + 1 \in 1 .. Len(s) /\ n + 1 # 0 /\ n + 1 - 1 = n
    BY <1>1, <1>4
  <2>2. g[n + 1] = IF s[n + 1].enabled THEN Append(g[n], s[n + 1]) ELSE g[n]
    BY <1>1, <1>2, <2>1
  <2>3. CASE s[n + 1].enabled
    <3>1. s[n + 1] \in On(s)
      BY <1>1, <2>1, <2>3 DEF On
    <3>2. Append(g[n], s[n + 1]) \in Seq(On(s))
      BY <2>1, <3>1, AppendProperties
    <3> QED
      BY <2>2, <2>3, <3>2
  <2>4. CASE ~s[n + 1].enabled
    BY <2>1, <2>2, <2>4
  <2> QED
    BY <2>3, <2>4
<1>5. Nat \subseteq S
  <2> HIDE DEF S
  <2> QED
    BY <1>3, <1>4, SetInduction
<1> QED
  BY <1>1, <1>5

\* None that is enabled is left out.
LEMMA KeptIsAll ==
  ASSUME NEW T, NEW s \in Seq(T), NEW g, Kept(g, s, Len(s)), NEW j \in DOMAIN s, s[j].enabled
  PROVE  \E i \in DOMAIN g[Len(s)] : g[Len(s)][i] = s[j]
<1> DEFINE S == {n \in Nat : n <= Len(s) => g[n] \in Seq(On(s)) /\ (j <= n => \E i \in DOMAIN g[n] : g[n][i] = s[j])}
<1>1. Len(s) \in Nat /\ DOMAIN s = 1 .. Len(s)
  BY LenProperties
<1>2. \A n \in 0 .. Len(s) : g[n] = IF n = 0 THEN <<>> ELSE IF s[n].enabled THEN Append(g[n - 1], s[n]) ELSE g[n - 1]
  BY DEF Kept
<1>3. 0 \in S
  <2>1. 0 \in 0 .. Len(s) /\ ~(j <= 0)
    BY <1>1
  <2>2. g[0] = <<>>
    BY <1>2, <2>1
  <2> QED
    BY <2>1, <2>2, EmptySeq
<1>4. ASSUME NEW n \in Nat, n \in S PROVE n + 1 \in S
  <2> SUFFICES ASSUME n + 1 <= Len(s)
               PROVE  /\ g[n + 1] \in Seq(On(s))
                      /\ j <= n + 1 => \E i \in DOMAIN g[n + 1] : g[n + 1][i] = s[j]
    OBVIOUS
  <2>1. /\ g[n] \in Seq(On(s)) /\ n + 1 \in 1 .. Len(s) /\ n + 1 # 0 /\ n + 1 - 1 = n
        /\ j <= n => \E i \in DOMAIN g[n] : g[n][i] = s[j]
    BY <1>1, <1>4
  <2>2. g[n + 1] = IF s[n + 1].enabled THEN Append(g[n], s[n + 1]) ELSE g[n]
    BY <1>1, <1>2, <2>1
  <2>3. CASE s[n + 1].enabled
    <3>1. s[n + 1] \in On(s)
      BY <1>1, <2>1, <2>3 DEF On
    <3>2. /\ Append(g[n], s[n + 1]) \in Seq(On(s)) /\ Len(Append(g[n], s[n + 1])) = Len(g[n]) + 1
          /\ \A i \in 1 .. Len(g[n]) : Append(g[n], s[n + 1])[i] = g[n][i]
          /\ Append(g[n], s[n + 1])[Len(g[n]) + 1] = s[n + 1]
      BY <2>1, <3>1, AppendProperties
    <3>3. /\ Len(g[n]) \in Nat /\ DOMAIN g[n] = 1 .. Len(g[n])
          /\ DOMAIN Append(g[n], s[n + 1]) = 1 .. Len(g[n]) + 1
      BY <2>1, <3>2, LenProperties
    <3>4. ASSUME j <= n + 1 PROVE \E i \in DOMAIN Append(g[n], s[n + 1]) : Append(g[n], s[n + 1])[i] = s[j]
      <4>1. CASE j = n + 1
        <5>1. Len(g[n]) + 1 \in DOMAIN Append(g[n], s[n + 1])
          BY <3>3
        <5> QED
          BY <3>2, <4>1, <5>1
      <4>2. CASE j # n + 1
        <5>1. j <= n
          BY <1>1, <3>4, <4>2
        <5>2. PICK i \in DOMAIN g[n] : g[n][i] = s[j]
          BY <2>1, <5>1
        <5>3. i \in DOMAIN Append(g[n], s[n + 1])
          BY <3>3
        <5> QED
          BY <3>2, <3>3, <5>2, <5>3
      <4> QED
        BY <4>1, <4>2
    <3> QED
      BY <2>2, <2>3, <3>2, <3>4
  <2>4. CASE ~s[n + 1].enabled
    <3>1. j # n + 1
      BY <2>4
    <3>2. j <= n + 1 => j <= n
      BY <1>1, <3>1
    <3> QED
      BY <2>1, <2>2, <2>4, <3>2
  <2> QED
    BY <2>3, <2>4
<1>5. Nat \subseteq S
  <2> HIDE DEF S
  <2> QED
    BY <1>3, <1>4, SetInduction
<1> QED
  BY <1>1, <1>5

\* The enabled sources are a list of the enabled sources, of all of them.
LEMMA EnabledIsList ==
  ASSUME NEW T, NEW s \in Seq(T)
  PROVE  /\ Enabled(s) \in Seq(On(s))
         /\ \A j \in DOMAIN s : s[j].enabled => \E i \in DOMAIN Enabled(s) : Enabled(s)[i] = s[j]
<1>1. Len(s) \in Nat
  BY LenProperties
<1>2. \E g : Kept(g, s, Len(s))
  BY <1>1, KeptExists
<1>3. PICK g : Kept(g, s, Len(s)) /\ Enabled(s) = g[Len(s)]
  BY <1>2 DEF Kept, Enabled
<1>4. g[Len(s)] \in Seq(On(s))
  BY <1>3, KeptIsList
<1>5. ASSUME NEW j \in DOMAIN s, s[j].enabled PROVE \E i \in DOMAIN g[Len(s)] : g[Len(s)][i] = s[j]
  BY <1>3, <1>5, KeptIsAll
<1> QED
  BY <1>3, <1>4, <1>5

\* The rule that decides is the first that matches: of two lists of rules, the
\* second one is asked when no rule of the first matches.
LEMMA MinIs == ASSUME NEW S \in SUBSET Nat, NEW m \in S, \A k \in S : m <= k PROVE Min(S) = m
<1>1. \A x \in S : (\A y \in S : x <= y) => x = m
  OBVIOUS
<1> QED
  BY <1>1 DEF Min

Hits(rules, d) == {i \in DOMAIN rules : rules[i].match \cap d # {}}

LEMMA FirstMatchConcat ==
  ASSUME NEW R, NEW s \in Seq(R), NEW t \in Seq(R), NEW d, NEW f
  PROVE  FirstMatch(s \o t, d, f) = FirstMatch(s, d, FirstMatch(t, d, f))
<1> DEFINE st == s \o t
<1>1. /\ Len(s) \in Nat /\ Len(t) \in Nat /\ DOMAIN s = 1 .. Len(s) /\ DOMAIN t = 1 .. Len(t)
      /\ DOMAIN st = 1 .. (Len(s) + Len(t))
      /\ \A i \in 1 .. Len(s) + Len(t) : st[i] = IF i <= Len(s) THEN s[i] ELSE t[i - Len(s)]
  BY LenProperties, ConcatProperties
<1> HIDE DEF st
<1>2. \A i \in 1 .. Len(s) : i \in DOMAIN st /\ st[i] = s[i]
  BY <1>1
<1>3. \A i \in 1 .. Len(t) : i + Len(s) \in DOMAIN st /\ st[i + Len(s)] = t[i]
  BY <1>1
<1>4. \A i \in DOMAIN st : i \in 1 .. Len(s) \/ i - Len(s) \in 1 .. Len(t)
  BY <1>1
<1>5. Hits(s, d) \subseteq Nat /\ Hits(t, d) \subseteq Nat /\ Hits(st, d) \subseteq Nat
  BY <1>1 DEF Hits
<1>6. CASE Hits(s, d) # {}
  <2>1. PICK m \in Hits(s, d) : \A k \in Hits(s, d) : m <= k
    BY <1>5, <1>6, LeastExists
  <2>2. m \in Hits(st, d) /\ m \in 1 .. Len(s)
    BY <1>1, <1>2, <2>1 DEF Hits
  <2>3. ASSUME NEW k \in Hits(st, d) PROVE m <= k
    <3>1. CASE k \in 1 .. Len(s)
      BY <1>1, <1>2, <2>1, <3>1 DEF Hits
    <3>2. CASE k \notin 1 .. Len(s)
      BY <1>1, <2>2, <2>3, <3>2 DEF Hits
    <3> QED
      BY <3>1, <3>2
  <2>4. Min(Hits(st, d)) = m /\ Min(Hits(s, d)) = m
    BY <1>5, <2>1, <2>2, <2>3, MinIs
  <2>5. FirstMatch(st, d, f) = st[m].out /\ FirstMatch(s, d, FirstMatch(t, d, f)) = s[m].out
    BY <1>6, <2>2, <2>4 DEF FirstMatch, Hits
  <2> QED
    BY <1>2, <2>2, <2>5 DEF st
<1>7. CASE Hits(s, d) = {} /\ Hits(t, d) # {}
  <2>1. PICK m \in Hits(t, d) : \A k \in Hits(t, d) : m <= k
    BY <1>5, <1>7, LeastExists
  <2>2. m + Len(s) \in Hits(st, d) /\ m \in 1 .. Len(t)
    BY <1>1, <1>3, <2>1 DEF Hits
  <2>3. ASSUME NEW k \in Hits(st, d) PROVE m + Len(s) <= k
    <3>1. k \notin 1 .. Len(s)
      BY <1>1, <1>2, <1>7 DEF Hits
    <3>2. k - Len(s) \in 1 .. Len(t) /\ k \in Nat
      BY <1>4, <1>5, <3>1 DEF Hits
    <3>3. k - Len(s) + Len(s) = k
      BY <1>1, <3>2
    <3>4. k - Len(s) \in Hits(t, d)
      BY <1>1, <1>3, <3>2, <3>3 DEF Hits
    <3>5. m <= k - Len(s)
      BY <2>1, <3>4
    <3> QED
      BY <1>1, <2>2, <3>2, <3>5
  <2>4. Min(Hits(st, d)) = m + Len(s) /\ Min(Hits(t, d)) = m
    BY <1>5, <2>1, <2>2, <2>3, MinIs
  <2>5. FirstMatch(st, d, f) = st[m + Len(s)].out /\ FirstMatch(t, d, f) = t[m].out
    BY <1>7, <2>2, <2>4 DEF FirstMatch, Hits
  <2>6. FirstMatch(s, d, FirstMatch(t, d, f)) = FirstMatch(t, d, f)
    BY <1>7 DEF FirstMatch, Hits
  <2> QED
    BY <1>3, <2>2, <2>5, <2>6 DEF st
<1>8. CASE Hits(s, d) = {} /\ Hits(t, d) = {}
  <2>1. Hits(st, d) = {}
    <3> SUFFICES ASSUME NEW k \in Hits(st, d) PROVE FALSE
      OBVIOUS
    <3>1. k \notin 1 .. Len(s)
      BY <1>1, <1>2, <1>8 DEF Hits
    <3>2. k - Len(s) \in 1 .. Len(t) /\ k \in Nat
      BY <1>4, <1>5, <3>1 DEF Hits
    <3>3. k - Len(s) + Len(s) = k
      BY <1>1, <3>2
    <3> QED
      BY <1>1, <1>3, <1>8, <3>2, <3>3 DEF Hits
  <2>2. FirstMatch(st, d, f) = f
    BY <2>1 DEF FirstMatch, Hits
  <2>3. FirstMatch(s, d, FirstMatch(t, d, f)) = f
    BY <1>8 DEF FirstMatch, Hits
  <2> QED
    BY <2>2, <2>3 DEF st
<1> QED
  BY <1>6, <1>7, <1>8

LEMMA FirstMatchNone == ASSUME NEW d, NEW f PROVE FirstMatch(<<>>, d, f) = f
  BY DEF FirstMatch

LEMMA FirstMatchOne ==
  ASSUME NEW r, NEW d, NEW f
  PROVE  FirstMatch(<<r>>, d, f) = IF r.match \cap d # {} THEN r.out ELSE f
<1>1. DOMAIN <<r>> = {1} /\ <<r>>[1] = r
  OBVIOUS
<1>2. CASE r.match \cap d # {}
  <2>1. {i \in DOMAIN <<r>> : <<r>>[i].match \cap d # {}} = {1}
    BY <1>1, <1>2
  <2>2. Min({1}) = 1
    BY MinIs
  <2> QED
    BY <1>1, <1>2, <2>1, <2>2 DEF FirstMatch
<1>3. CASE r.match \cap d = {}
  <2>1. {i \in DOMAIN <<r>> : <<r>>[i].match \cap d # {}} = {}
    BY <1>1, <1>3
  <2> QED
    BY <1>3, <2>1 DEF FirstMatch
<1> QED
  BY <1>2, <1>3

\* The rules of a policy.
Rules(tag) == [type : {"domain_suffix", "ip_cidr"}, match : SUBSET (Domains \cup Networks), out : {"direct", tag}]

\* A list of the user leads to one outbound, by its names and by its addresses.
LEMMA ListRulesLead ==
  ASSUME NEW list, NEW tag, NEW out \in {"direct", tag}, NEW d \in Destinations, NEW f
  PROVE  /\ ListRules(list, out) \in Seq(Rules(tag))
         /\ FirstMatch(ListRules(list, out), d, f) = IF d \cap list # {} THEN out ELSE f
<1> DEFINE byName == routingRule("domain_suffix", list \cap Domains, out)
           byAddress == routingRule("ip_cidr", list \cap Networks, out)
           names == IF list \cap Domains = {} THEN <<>> ELSE <<byName>>
           addresses == IF list \cap Networks = {} THEN <<>> ELSE <<byAddress>>
<1>1. /\ byName \in Rules(tag) /\ byName.match = list \cap Domains /\ byName.out = out
      /\ byAddress \in Rules(tag) /\ byAddress.match = list \cap Networks /\ byAddress.out = out
  BY DEF routingRule, Rules
<1>2. ListRules(list, out) = names \o addresses
  BY DEF ListRules
<1> HIDE DEF byName, byAddress
<1>3. names \in Seq(Rules(tag)) /\ addresses \in Seq(Rules(tag))
  BY <1>1
<1>4. \A g : FirstMatch(names, d, g) = IF d \cap (list \cap Domains) # {} THEN out ELSE g
  BY <1>1, FirstMatchNone, FirstMatchOne
<1>5. \A g : FirstMatch(addresses, d, g) = IF d \cap (list \cap Networks) # {} THEN out ELSE g
  BY <1>1, FirstMatchNone, FirstMatchOne
<1>6. d \cap list # {} <=> d \cap (list \cap Domains) # {} \/ d \cap (list \cap Networks) # {}
  BY DEF Destinations
<1> HIDE DEF names, addresses
<1>7. FirstMatch(names \o addresses, d, f) = FirstMatch(names, d, FirstMatch(addresses, d, f))
  BY <1>3, FirstMatchConcat
<1>8. names \o addresses \in Seq(Rules(tag))
  BY <1>3, ConcatProperties
<1> QED
  BY <1>2, <1>4, <1>5, <1>6, <1>7, <1>8

\* The policy of the Service sends every connection where the user was promised.
LEMMA PolicyIsPromised ==
  ASSUME NEW a, NEW d \in Destinations
  PROVE  LET tag == Tag(Chosen(a))
             policy == runtimeRoutingPolicy(a, tag)
         IN  /\ policy.rules \in Seq(Rules(tag))
             /\ FirstMatch(policy.rules, d, policy.final) = Promised(a, d)
<1> DEFINE tag == Tag(Chosen(a))
           final == IF a.mode = "direct" THEN "direct" ELSE tag
           private == <<routingRule("ip_cidr", {"private"}, "direct")>>
           white == IF a.list = "whitelist" THEN ListRules(a.listed, "direct") ELSE <<>>
           black == IF a.list = "blacklist" /\ tag # "direct" THEN ListRules(a.listed, tag) ELSE <<>>
           mainland == IF a.mode = "bypass_mainland" THEN <<routingRule("domain_suffix", {"mainland"}, "direct")>> ELSE <<>>
           listed == d \cap a.listed # {}
           policy == runtimeRoutingPolicy(a, tag)
<1>1. policy.final = final /\ policy.rules = private \o white \o black \o mainland
  BY DEF runtimeRoutingPolicy
<1>2. Promised(a, d) =
        IF \/ "private" \in d
           \/ a.list = "whitelist" /\ listed
           \/ ~(a.list = "blacklist" /\ listed) /\ (a.mode = "direct" \/ (a.mode = "bypass_mainland" /\ "mainland" \in d))
        THEN "direct" ELSE tag
  BY DEF Promised
<1> HIDE DEF tag, policy
<1>3. /\ private \in Seq(Rules(tag))
      /\ \A f : FirstMatch(private, d, f) = IF "private" \in d THEN "direct" ELSE f
  <2> DEFINE r == routingRule("ip_cidr", {"private"}, "direct")
  <2>1. r \in Rules(tag) /\ r.match = {"private"} /\ r.out = "direct"
    BY DEF routingRule, Rules, Networks
  <2> HIDE DEF r
  <2>2. \A f : FirstMatch(<<r>>, d, f) = IF "private" \in d THEN "direct" ELSE f
    BY <2>1, FirstMatchOne
  <2> QED
    BY <2>1, <2>2 DEF r
<1>4. /\ mainland \in Seq(Rules(tag))
      /\ \A f : FirstMatch(mainland, d, f) = IF a.mode = "bypass_mainland" /\ "mainland" \in d THEN "direct" ELSE f
  <2> DEFINE r == routingRule("domain_suffix", {"mainland"}, "direct")
  <2>1. r \in Rules(tag) /\ r.match = {"mainland"} /\ r.out = "direct"
    BY DEF routingRule, Rules, Domains
  <2> HIDE DEF r
  <2>2. \A f : FirstMatch(<<r>>, d, f) = IF "mainland" \in d THEN "direct" ELSE f
    BY <2>1, FirstMatchOne
  <2>3. <<r>> \in Seq(Rules(tag)) /\ <<>> \in Seq(Rules(tag))
    BY <2>1
  <2> QED
    BY <2>2, <2>3, FirstMatchNone DEF r
<1>5. /\ white \in Seq(Rules(tag))
      /\ \A f : FirstMatch(white, d, f) = IF a.list = "whitelist" /\ listed THEN "direct" ELSE f
  <2>1. /\ ListRules(a.listed, "direct") \in Seq(Rules(tag))
        /\ \A f : FirstMatch(ListRules(a.listed, "direct"), d, f) = IF listed THEN "direct" ELSE f
    BY ListRulesLead
  <2>2. <<>> \in Seq(Rules(tag))
    BY EmptySeq
  <2> QED
    BY <2>1, <2>2, FirstMatchNone
<1>6. /\ black \in Seq(Rules(tag))
      /\ \A f : FirstMatch(black, d, f) = IF a.list = "blacklist" /\ tag # "direct" /\ listed THEN tag ELSE f
  <2>1. /\ ListRules(a.listed, tag) \in Seq(Rules(tag))
        /\ \A f : FirstMatch(ListRules(a.listed, tag), d, f) = IF listed THEN tag ELSE f
    BY ListRulesLead
  <2>2. <<>> \in Seq(Rules(tag))
    BY EmptySeq
  <2> QED
    BY <2>1, <2>2, FirstMatchNone
<1> DEFINE lead == private \o white
           lists == lead \o black
           all == lists \o mainland
<1> HIDE DEF private, white, black, mainland
<1>7. /\ lead \in Seq(Rules(tag))
      /\ \A f : FirstMatch(lead, d, f) = FirstMatch(private, d, FirstMatch(white, d, f))
  BY <1>3, <1>5, ConcatProperties, FirstMatchConcat
<1> HIDE DEF lead
<1>8. /\ lists \in Seq(Rules(tag))
      /\ \A f : FirstMatch(lists, d, f) = FirstMatch(lead, d, FirstMatch(black, d, f))
  BY <1>6, <1>7, ConcatProperties, FirstMatchConcat
<1> HIDE DEF lists
<1>9. /\ all \in Seq(Rules(tag))
      /\ \A f : FirstMatch(all, d, f) = FirstMatch(lists, d, FirstMatch(mainland, d, f))
  BY <1>4, <1>8, ConcatProperties, FirstMatchConcat
<1> HIDE DEF all
<1>10. FirstMatch(all, d, final) = Promised(a, d)
  <2> HIDE DEF listed
  <2> QED
    BY <1>2, <1>3, <1>4, <1>5, <1>6, <1>7, <1>8, <1>9
<1> QED
  BY <1>1, <1>9, <1>10 DEF tag, policy, all, lists, lead

\* No generator changes what a rule matches or where it leads.
LEMMA RoutesLead ==
  ASSUME NEW c, NEW R, c.rules \in Seq(R), NEW d, NEW f
  PROVE  FirstMatch(Routes(c), d, f) = FirstMatch(c.rules, d, f)
<1>1. DOMAIN Routes(c) = DOMAIN c.rules
  BY DEF Routes
<1>2. \A i \in DOMAIN c.rules : Routes(c)[i].match = c.rules[i].match /\ Routes(c)[i].out = c.rules[i].out
  BY DEF Routes, RouteOf, Captured
<1>3. Hits(Routes(c), d) = Hits(c.rules, d)
  BY <1>1, <1>2 DEF Hits
<1>4. CASE Hits(c.rules, d) = {}
  BY <1>3, <1>4 DEF FirstMatch, Hits
<1>5. CASE Hits(c.rules, d) # {}
  <2>1. FirstMatch(Routes(c), d, f) = Routes(c)[Min(Hits(c.rules, d))].out
    BY <1>3, <1>5 DEF FirstMatch, Hits
  <2>2. FirstMatch(c.rules, d, f) = c.rules[Min(Hits(c.rules, d))].out
    BY <1>5 DEF FirstMatch, Hits
  <2>3. Hits(c.rules, d) \in SUBSET Nat
    BY LenProperties DEF Hits
  <2>4. PICK m \in Hits(c.rules, d) : \A k \in Hits(c.rules, d) : m <= k
    BY <1>5, <2>3, LeastExists
  <2>5. Min(Hits(c.rules, d)) \in DOMAIN c.rules
    BY <2>3, <2>4, MinIs DEF Hits
  <2> QED
    BY <2>1, <2>2, <2>5, <1>2
<1> QED
  BY <1>4, <1>5

\* The outbound of a policy has a name, and it is one of the enabled sources.
LEMMA TagIsNamed == ASSUME NEW o PROVE Tag(o) # ""
  BY DEF Tag

LEMMA ChosenIsThere ==
  ASSUME NEW a, NEW R, Enabled(a.sources) \in Seq(R)
  PROVE  Tag(Chosen(a)) \in {"direct"} \cup Ids(Enabled(a.sources))
<1> DEFINE enabled == Enabled(a.sources)
           wanted == IF a.request # "" THEN a.request ELSE a.remembered
<1>1. Chosen(a) = IF Named(enabled, wanted).id # "" THEN Named(enabled, wanted)
                  ELSE IF enabled # <<>> THEN enabled[1] ELSE NoOutbound
  BY DEF Chosen
<1> HIDE DEF enabled, wanted
<1>2. enabled # <<>> => 1 \in DOMAIN enabled
  BY EmptySeq, LenProperties DEF enabled
<1>3. Named(enabled, wanted) = NoOutbound \/ \E i \in DOMAIN enabled : Named(enabled, wanted) = enabled[i]
  BY DEF Named
<1>4. Chosen(a) = NoOutbound \/ \E i \in DOMAIN enabled : Chosen(a) = enabled[i]
  BY <1>1, <1>2, <1>3
<1>5. NoOutbound.id = ""
  BY DEF NoOutbound
<1>6. Tag(Chosen(a)) = "direct" \/ Tag(Chosen(a)) = Chosen(a).id
  BY DEF Tag
<1>7. Chosen(a) = NoOutbound => Tag(Chosen(a)) = "direct"
  BY <1>5 DEF Tag
<1>8. \A i \in DOMAIN enabled : enabled[i].id \in Ids(enabled)
  BY DEF Ids
<1> QED
  BY <1>4, <1>6, <1>7, <1>8 DEF enabled

\* What Compose leaves behind.
Composition ==
    /\ config = Composed(ask) /\ ask.sources \in Seq(Outbounds)
    /\ \A i \in DOMAIN ask.sources : ask.sources[i].enabled => Compatible(ask.core, ask.sources[i])

\* What compileNative leaves behind.
KnownCore == ask.core \in {"sing-box", "mihomo", "xray"}

Compilation ==
    /\ Valid(config) /\ ~Refused(ask.core, config)
    /\ ask.core = "sing-box" => document = SingBox(config)
    /\ ask.core = "mihomo" => document = Mihomo(config)
    /\ ask.core = "xray" => document = Xray(config)

\* The outbounds of a configuration are whole, and suit the core.
LEMMA OutboundsSuit ==
  ASSUME Composition, Valid(config)
  PROVE  /\ \E R : Enabled(ask.sources) \in Seq(R)
         /\ \A i \in DOMAIN config.outbounds :
               ValidOutbound(config.outbounds[i]) /\ Compatible(ask.core, config.outbounds[i])
         /\ Ids(config.outbounds) = {"direct"} \cup Ids(Enabled(ask.sources))
         /\ \A s \in DOMAIN ask.sources : ask.sources[s].enabled =>
               \E i \in DOMAIN config.outbounds : config.outbounds[i] = ask.sources[s]
<1> DEFINE enabled == Enabled(ask.sources)
           R == On(ask.sources) \cup {Direct}
<1>1. /\ enabled \in Seq(On(ask.sources))
      /\ \A s \in DOMAIN ask.sources : ask.sources[s].enabled =>
            \E i \in DOMAIN enabled : enabled[i] = ask.sources[s]
  BY EnabledIsList DEF Composition
<1>2. \A o \in On(ask.sources) : Compatible(ask.core, o)
  BY DEF Composition, On
<1>3. Compatible(ask.core, Direct)
  <2>1. Direct.type = "direct"
    BY DEF Direct
  <2> QED
    BY <2>1 DEF Compatible
<1>4. config.outbounds = <<Direct>> \o enabled
  BY DEF Composition, Composed
<1>5. Direct.id = "direct"
  BY DEF Direct
<1> HIDE DEF enabled, R
<1>6. enabled \in Seq(R) /\ <<Direct>> \in Seq(R)
  <2>1. On(ask.sources) \subseteq R /\ Direct \in R
    BY DEF R
  <2> QED
    BY <1>1, <2>1, SeqMonotonic
<1>7. /\ Len(enabled) \in Nat /\ DOMAIN enabled = 1 .. Len(enabled)
      /\ config.outbounds \in Seq(R) /\ DOMAIN config.outbounds = 1 .. (1 + Len(enabled))
      /\ \A i \in 1 .. 1 + Len(enabled) : config.outbounds[i] = IF i <= 1 THEN Direct ELSE enabled[i - 1]
  <2> DEFINE head == <<Direct>>
  <2>1. Len(head) = 1 /\ head[1] = Direct
    OBVIOUS
  <2> HIDE DEF head
  <2>2. head \in Seq(R)
    BY <1>6 DEF head
  <2>3. /\ head \o enabled \in Seq(R) /\ Len(head \o enabled) = 1 + Len(enabled)
        /\ \A i \in 1 .. 1 + Len(enabled) : (head \o enabled)[i] = IF i <= 1 THEN head[i] ELSE enabled[i - 1]
    <3>1. /\ head \o enabled \in Seq(R) /\ Len(head \o enabled) = Len(head) + Len(enabled)
          /\ \A i \in 1 .. Len(head) + Len(enabled) :
                (head \o enabled)[i] = IF i <= Len(head) THEN head[i] ELSE enabled[i - Len(head)]
      BY <1>6, <2>2, ConcatProperties
    <3> QED
      BY <2>1, <3>1
  <2>4. Len(enabled) \in Nat /\ DOMAIN enabled = 1 .. Len(enabled) /\ DOMAIN (head \o enabled) = 1 .. 1 + Len(enabled)
    BY <1>6, <2>3, LenProperties
  <2> QED
    BY <1>4, <2>1, <2>3, <2>4 DEF head
<1>8. \A i \in DOMAIN config.outbounds : config.outbounds[i] \in R
  BY <1>7, ElementOfSeq
<1>9. Ids(config.outbounds) = {"direct"} \cup Ids(enabled)
  <2>1. ASSUME NEW i \in DOMAIN config.outbounds PROVE config.outbounds[i].id \in {"direct"} \cup Ids(enabled)
    <3>1. CASE i <= 1
      BY <1>5, <1>7, <3>1
    <3>2. CASE ~(i <= 1)
      <4>1. i - 1 \in DOMAIN enabled /\ config.outbounds[i] = enabled[i - 1]
        BY <1>7, <3>2
      <4> QED
        BY <4>1 DEF Ids
    <3> QED
      BY <3>1, <3>2
  <2>2. ASSUME NEW i \in DOMAIN enabled PROVE enabled[i].id \in Ids(config.outbounds)
    <3>1. i + 1 \in DOMAIN config.outbounds /\ ~(i + 1 <= 1) /\ i + 1 - 1 = i
      BY <1>7
    <3>2. config.outbounds[i + 1] = enabled[i]
      BY <1>7, <3>1
    <3> QED
      BY <3>1, <3>2 DEF Ids
  <2>3. "direct" \in Ids(config.outbounds)
    <3>1. 1 \in DOMAIN config.outbounds /\ config.outbounds[1] = Direct
      BY <1>7
    <3> QED
      BY <1>5, <3>1 DEF Ids
  <2> QED
    BY <2>1, <2>2, <2>3 DEF Ids
<1>10. \A i \in DOMAIN config.outbounds : ValidOutbound(config.outbounds[i])
  BY DEF Valid
<1>11. ASSUME NEW s \in DOMAIN ask.sources, ask.sources[s].enabled
       PROVE  \E i \in DOMAIN config.outbounds : config.outbounds[i] = ask.sources[s]
  <2>1. PICK i \in DOMAIN enabled : enabled[i] = ask.sources[s]
    BY <1>1, <1>11
  <2>2. i + 1 \in DOMAIN config.outbounds /\ ~(i + 1 <= 1) /\ i + 1 - 1 = i
    BY <1>7
  <2>3. config.outbounds[i + 1] = enabled[i]
    BY <1>7, <2>2
  <2> QED
    BY <2>1, <2>2, <2>3
<1>12. \A i \in DOMAIN config.outbounds : Compatible(ask.core, config.outbounds[i])
  BY <1>2, <1>3, <1>8 DEF R
<1> QED
  BY <1>6, <1>9, <1>10, <1>11, <1>12 DEF enabled

\* What a node cannot do without is among the fields that reach a document; a cipher is
\* not where a user name takes its place.
LEMMA SingBoxCarries ==
  ASSUME NEW o, ValidOutbound(o), o.type # "direct"
  PROVE  Required(o.type) \cup Transport(o) \subseteq SingBoxFields(o)
<1>1. Required(o.type) \cup Transport(o) \subseteq o.fields
  BY DEF ValidOutbound
<1>2. Required(o.type) \subseteq SingBoxFields(o)
  BY <1>1 DEF Required, SingBoxFields
<1>3. Transport(o) \subseteq SingBoxFields(o)
  BY <1>1 DEF Transport, SingBoxFields
<1> QED
  BY <1>2, <1>3

LEMMA MihomoCarries ==
  ASSUME NEW o, ValidOutbound(o), o.type # "direct"
  PROVE  Required(o.type) \cup Transport(o) \subseteq MihomoFields(o)
<1>1. Required(o.type) \cup Transport(o) \subseteq o.fields
  BY DEF ValidOutbound
<1>2. Required(o.type) \subseteq MihomoFields(o)
  BY <1>1 DEF Required, MihomoFields
<1>3. Transport(o) \subseteq MihomoFields(o)
  BY <1>1 DEF Transport, MihomoFields
<1> QED
  BY <1>2, <1>3

LEMMA CipherIsLost ==
  ASSUME NEW o, LosesCipher("xray", o) PROVE "method" \notin XrayFields(o) /\ "password" \notin XrayFields(o)
  BY DEF LosesCipher, XrayFields

LEMMA XrayCarries ==
  ASSUME NEW o, ValidOutbound(o), o.type # "direct", Compatible("xray", o), ~LosesCipher("xray", o)
  PROVE  Required(o.type) \cup Transport(o) \subseteq XrayFields(o)
<1>1. Required(o.type) \cup Transport(o) \subseteq o.fields
  BY DEF ValidOutbound
<1>2. Required(o.type) \subseteq XrayFields(o)
  BY <1>1 DEF Required, XrayFields, Compatible, LosesCipher
<1>3. Transport(o) \subseteq XrayFields(o)
  BY <1>1 DEF Transport, XrayFields
<1> QED
  BY <1>2, <1>3

\* The names and the echoes of TUN, which come before any rule.
Listened == [match : {{"dns"}, {"icmp"}}, out : {"hijack", "direct"}]

Listens(s) == s \in {<<Captured({"dns"}, "hijack"), Captured({"icmp"}, "direct")>>, <<Captured({"dns"}, "hijack")>>}

LEMMA TunListens ==
  ASSUME NEW d \in Destinations, NEW R, NEW t \in Seq(R), NEW f, NEW s, Listens(s)
  PROVE  /\ FirstMatch(s \o t, d, f) = FirstMatch(t, d, f)
         /\ FirstMatch(s \o t, d \cup {"dns"}, f) = "hijack"
<1> DEFINE Q == Listened \cup R
           names == Captured({"dns"}, "hijack")
           echoes == Captured({"icmp"}, "direct")
<1>1. /\ names \in Q /\ names.match = {"dns"} /\ names.out = "hijack"
      /\ echoes \in Q /\ echoes.match = {"icmp"} /\ echoes.out = "direct"
  BY DEF Captured, Listened
<1>2. "dns" \notin d /\ "icmp" \notin d
  BY DEF Destinations, Domains, Networks
<1>3. s \in {<<names, echoes>>, <<names>>}
  BY DEF Listens
<1> HIDE DEF names, echoes
<1>4. \A i \in DOMAIN s : s[i].match \cap d = {}
  BY <1>1, <1>2, <1>3
<1>5. \A g : FirstMatch(s, d, g) = g
  BY <1>4 DEF FirstMatch
<1>6. s \in Seq(Q) /\ t \in Seq(Q)
  <2> HIDE DEF Q
  <2>1. <<names, echoes>> \in Seq(Q) /\ <<names>> \in Seq(Q)
    BY <1>1
  <2>2. R \subseteq Q
    BY DEF Q
  <2>3. t \in Seq(Q)
    BY <2>2, SeqMonotonic
  <2> QED
    BY <1>3, <2>1, <2>3
<1>7. DOMAIN s \subseteq Nat /\ 1 \in DOMAIN s /\ s[1] = names /\ \A i \in DOMAIN s : 1 <= i
  BY <1>3
<1>8. 1 \in Hits(s, d \cup {"dns"}) /\ Hits(s, d \cup {"dns"}) \in SUBSET Nat /\ \A i \in Hits(s, d \cup {"dns"}) : 1 <= i
  BY <1>1, <1>7 DEF Hits
<1>9. \A g : FirstMatch(s, d \cup {"dns"}, g) = "hijack"
  <2>1. Min(Hits(s, d \cup {"dns"})) = 1
    BY <1>8, MinIs
  <2> QED
    BY <1>1, <1>7, <1>8, <2>1 DEF FirstMatch, Hits
<1> HIDE DEF Q
<1>10. \A e : FirstMatch(s \o t, e, f) = FirstMatch(s, e, FirstMatch(t, e, f))
  BY <1>6, FirstMatchConcat
<1> QED
  BY <1>5, <1>9, <1>10

\* What two of the documents are made of.
LEMMA MihomoDocument ==
  ASSUME NEW c
  PROVE  /\ Mihomo(c).rules = (IF c.tun THEN <<Captured({"dns"}, "hijack")>> ELSE <<>>) \o Routes(c)
         /\ c.final # "" => Mihomo(c).final = c.final
         /\ Mihomo(c).tags = Ids(c.outbounds)
         /\ Mihomo(c).carried = [i \in DOMAIN c.outbounds |->
                                    IF c.outbounds[i].type = "direct" THEN {} ELSE MihomoFields(c.outbounds[i])]
  BY Zenon DEF Mihomo

LEMMA XrayDocument ==
  ASSUME NEW c
  PROVE  /\ Xray(c).rules = Routes(c) /\ Xray(c).tags = Ids(c.outbounds) \cup {"block"}
         /\ c.final # "" => Xray(c).final = c.final
         /\ Xray(c).carried = [i \in DOMAIN c.outbounds |-> XrayFields(c.outbounds[i])]
  BY Zenon DEF Xray

\* Each document sends a connection where the policy does, and hijacks names under TUN.
LEMMA DocumentsRoute ==
  ASSUME Composition, Compilation, KnownCore, NEW d \in Destinations
  PROVE  /\ Exit(document, d) = Promised(ask, d) /\ Exit(document, d) \in document.tags
         /\ ask.tun => Exit(document, d \cup {"dns"}) = "hijack"
<1> DEFINE tag == Tag(Chosen(ask))
           policy == runtimeRoutingPolicy(ask, tag)
<1>1. config.rules = policy.rules /\ config.final = policy.final /\ config.tun = ask.tun
  BY DEF Composition, Composed
<1>2. policy.rules \in Seq(Rules(tag)) /\ FirstMatch(policy.rules, d, policy.final) = Promised(ask, d)
  BY PolicyIsPromised
<1>3. policy.final \in {"direct", tag}
  BY DEF runtimeRoutingPolicy
<1>4. tag # ""
  BY TagIsNamed
<1>5. Promised(ask, d) \in {"direct", tag}
  BY DEF Promised
<1>6. /\ Ids(config.outbounds) = {"direct"} \cup Ids(Enabled(ask.sources))
      /\ tag \in {"direct"} \cup Ids(Enabled(ask.sources))
  BY OutboundsSuit, ChosenIsThere DEF Compilation
<1> HIDE DEF tag, policy
<1>7. Promised(ask, d) \in Ids(config.outbounds)
  BY <1>5, <1>6
<1>8. config.final # ""
  BY <1>1, <1>3, <1>4
<1>9. \A e, f : FirstMatch(Routes(config), e, f) = FirstMatch(config.rules, e, f)
  BY <1>1, <1>2, RoutesLead
<1> DEFINE S == [match : SUBSET (Domains \cup Networks), out : {"direct", tag}]
<1>10. Routes(config) \in Seq(S)
  <2>1. \A r \in Rules(tag) : RouteOf(r) \in S
    BY DEF Rules, RouteOf, Captured
  <2>2. Len(config.rules) \in Nat /\ DOMAIN config.rules = 1 .. Len(config.rules) /\ \A i \in DOMAIN config.rules : config.rules[i] \in Rules(tag)
    BY <1>1, <1>2, LenProperties
  <2> HIDE DEF S
  <2>3. Routes(config) \in [1 .. Len(config.rules) -> S]
    BY <2>1, <2>2 DEF Routes
  <2> QED
    BY <2>2, <2>3, SeqDef
<1> HIDE DEF S
<1>11. FirstMatch(Routes(config), d, config.final) = Promised(ask, d)
  BY <1>1, <1>2, <1>9
<1>12. CASE ask.core = "sing-box"
  <2> DEFINE s == <<Captured({"dns"}, "hijack"), Captured({"icmp"}, "direct")>>
  <2>1. /\ document.rules = (IF ask.tun THEN s ELSE <<>>) \o Routes(config)
        /\ document.final = config.final /\ document.tags = Ids(config.outbounds)
    BY <1>1, <1>12 DEF Compilation, SingBox
  <2>2. /\ FirstMatch(s \o Routes(config), d, config.final) = Promised(ask, d)
        /\ FirstMatch(s \o Routes(config), d \cup {"dns"}, config.final) = "hijack"
    <3> HIDE DEF s
    <3>1. Listens(s)
      BY DEF s, Listens
    <3> DEFINE r == Routes(config)
               f == config.final
    <3>2. r \in Seq(S)
      BY <1>10
    <3> HIDE DEF r, f
    <3>3. FirstMatch(s \o r, d, f) = FirstMatch(r, d, f) /\ FirstMatch(s \o r, d \cup {"dns"}, f) = "hijack"
      BY <3>1, <3>2, TunListens
    <3> QED
      BY <1>11, <3>3 DEF r, f
  <2>3. <<>> \o Routes(config) = Routes(config)
    BY <1>10, ConcatEmptySeq
  <2> HIDE DEF s
  <2> QED
    BY <1>7, <1>11, <2>1, <2>2, <2>3 DEF Exit
<1>13. CASE ask.core = "mihomo"
  <2> DEFINE s == <<Captured({"dns"}, "hijack")>>
  <2>1. /\ document.rules = (IF ask.tun THEN s ELSE <<>>) \o Routes(config)
        /\ document.final = config.final /\ document.tags = Ids(config.outbounds)
    BY <1>1, <1>8, <1>13, MihomoDocument DEF Compilation
  <2>2. /\ FirstMatch(s \o Routes(config), d, config.final) = Promised(ask, d)
        /\ FirstMatch(s \o Routes(config), d \cup {"dns"}, config.final) = "hijack"
    <3> HIDE DEF s
    <3>1. Listens(s)
      BY DEF s, Listens
    <3> DEFINE r == Routes(config)
               f == config.final
    <3>2. r \in Seq(S)
      BY <1>10
    <3> HIDE DEF r, f
    <3>3. FirstMatch(s \o r, d, f) = FirstMatch(r, d, f) /\ FirstMatch(s \o r, d \cup {"dns"}, f) = "hijack"
      BY <3>1, <3>2, TunListens
    <3> QED
      BY <1>11, <3>3 DEF r, f
  <2>3. <<>> \o Routes(config) = Routes(config)
    BY <1>10, ConcatEmptySeq
  <2> HIDE DEF s
  <2> QED
    BY <1>7, <1>11, <2>1, <2>2, <2>3 DEF Exit
<1>14. CASE ask.core = "xray"
  <2>1. /\ document.rules = Routes(config) /\ document.final = config.final
        /\ Ids(config.outbounds) \subseteq document.tags /\ ~config.tun
    <3>1. document = Xray(config) /\ ~config.tun
      BY <1>14 DEF Compilation, Refused
    <3> QED
      BY <1>8, <3>1, XrayDocument
  <2> QED
    BY <1>1, <1>7, <1>11, <2>1 DEF Exit
<1> QED
  BY <1>12, <1>13, <1>14 DEF KnownCore

\* When sing-box asks for names in the clear, nothing goes through a node.
LEMMA NamesStayBehind ==
  ASSUME Composition, Compilation, KnownCore, ask.tun, document = SingBox(config), document.resolver = "direct",
         NEW d \in Destinations
  PROVE  Exit(document, d) = "direct"
<1> DEFINE tag == Tag(Chosen(ask))
           policy == runtimeRoutingPolicy(ask, tag)
<1>1. /\ config.tun = ask.tun /\ config.final = policy.final
      /\ config.detour = IF ask.tun /\ tag # "direct" /\ policy.final = "direct" THEN tag ELSE ""
  BY DEF Composition, Composed
<1>2. policy.final = IF ask.mode = "direct" THEN "direct" ELSE tag
  BY DEF runtimeRoutingPolicy
<1>3. tag # ""
  BY TagIsNamed
<1>4. document.resolver = Resolver(config)
  BY DEF SingBox
<1>5. Promised(ask, d) \in {"direct", tag}
  BY DEF Promised
<1> HIDE DEF tag, policy
<1>6. tag = "direct"
  BY <1>1, <1>2, <1>3, <1>4 DEF Resolver
<1> QED
  BY <1>5, <1>6, DocumentsRoute

\* What a node cannot do without is in the document.
LEMMA DocumentsCarry ==
  ASSUME Composition, Compilation, KnownCore,
         NEW i \in DOMAIN config.outbounds, config.outbounds[i].type # "direct",
         ~LosesCipher(ask.core, config.outbounds[i])
  PROVE  /\ Required(config.outbounds[i].type) \cup Transport(config.outbounds[i]) \subseteq document.carried[i]
         /\ config.outbounds[i].id \in document.tags
<1> DEFINE o == config.outbounds[i]
<1>1. ValidOutbound(o) /\ Compatible(ask.core, o)
  BY OutboundsSuit DEF Compilation
<1>2. o.id \in Ids(config.outbounds)
  BY DEF Ids
<1>3. CASE ask.core = "sing-box"
  <2>1. document = SingBox(config)
    BY <1>3 DEF Compilation
  <2>2. document.carried[i] = SingBoxFields(o) /\ document.tags = Ids(config.outbounds)
    BY <2>1 DEF SingBox
  <2> QED
    BY <1>1, <1>2, <2>2, SingBoxCarries
<1>4. CASE ask.core = "mihomo"
  <2>1. document = Mihomo(config)
    BY <1>4 DEF Compilation
  <2>2. document.carried[i] = MihomoFields(o) /\ document.tags = Ids(config.outbounds)
    BY <2>1, MihomoDocument
  <2> QED
    BY <1>1, <1>2, <2>2, MihomoCarries
<1>5. CASE ask.core = "xray"
  <2>1. document = Xray(config)
    BY <1>5 DEF Compilation
  <2>2. document.carried[i] = XrayFields(o) /\ Ids(config.outbounds) \subseteq document.tags
    BY <2>1, XrayDocument
  <2> QED
    BY <1>1, <1>2, <1>5, <2>2, XrayCarries
<1> QED
  BY <1>3, <1>4, <1>5 DEF KnownCore

\* What the compiler has composed and compiled is what was asked for.
CompilerInv ==
    /\ CompilerTypeOK
    /\ progress # "idle" => ask.sources \in Seq(Outbounds)
    /\ progress \in {"composed", "done"} => Composition
    /\ progress = "done" => Compilation

LEMMA CompilerAgrees == CompilerInv => DocumentsAgree
<1> SUFFICES ASSUME CompilerInv, progress = "done"
             PROVE  RoutesArePromised /\ NamesAreCaptured /\ NodesAreWhole
  BY DEF DocumentsAgree, RoutesArePromised, NamesAreCaptured, NodesAreWhole
<1>1. Composition /\ Compilation /\ KnownCore
  BY DEF CompilerInv, CompilerTypeOK, KnownCore
<1>2. RoutesArePromised
  BY <1>1, DocumentsRoute DEF RoutesArePromised
<1>3. NamesAreCaptured
  <2>1. ask.tun => \A d \in Destinations : Exit(document, d \cup {"dns"}) = "hijack"
    BY <1>1, DocumentsRoute
  <2>2. ASSUME ask.tun, ask.core = "sing-box", NEW d \in Destinations, Exit(document, d) # "direct"
        PROVE  document.resolver # "direct"
    <3>1. document = SingBox(config)
      BY <1>1, <2>2 DEF Compilation
    <3> QED
      BY <1>1, <2>2, <3>1, NamesStayBehind
  <2> QED
    BY <2>1, <2>2 DEF NamesAreCaptured
<1>4. NodesAreWhole
  <2> SUFFICES ASSUME NEW s \in DOMAIN ask.sources, ask.sources[s].enabled, ask.sources[s].type # "direct",
                      ~LosesCipher(ask.core, ask.sources[s])
               PROVE  /\ ask.sources[s].id \in document.tags
                      /\ \E i \in DOMAIN config.outbounds :
                            /\ config.outbounds[i] = ask.sources[s]
                            /\ (Required(ask.sources[s].type) \cup Transport(ask.sources[s])) \subseteq document.carried[i]
    BY DEF NodesAreWhole
  <2>1. PICK i \in DOMAIN config.outbounds : config.outbounds[i] = ask.sources[s]
    BY <1>1, OutboundsSuit DEF Compilation
  <2> QED
    BY <1>1, <2>1, DocumentsCarry
<1> QED
  BY <1>2, <1>3, <1>4

LEMMA CompilerInitInv == CompilerInit => CompilerInv
<1>1. NoDocument.controller = FALSE /\ NothingAsked.core \in {"sing-box", "mihomo", "xray"}
  BY DEF NoDocument, NothingAsked
<1> QED
  BY <1>1 DEF CompilerInit, CompilerInv, CompilerTypeOK

LEMMA CompilerNextInv == CompilerInv /\ [CompilerNext]_compilerVars => CompilerInv'
<1> SUFFICES ASSUME CompilerInv, [CompilerNext]_compilerVars PROVE CompilerInv'
  OBVIOUS
<1>1. CASE Ask
  <2>1. /\ progress = "idle" /\ ask' \in Asks /\ progress' = "asked" /\ UNCHANGED <<config, document>>
        /\ ask'.core \in {"sing-box", "mihomo", "xray"} /\ ask'.sources \in Seq(Outbounds)
    BY <1>1, AsksAssumption DEF Ask
  <2> QED
    BY <2>1 DEF CompilerInv, CompilerTypeOK
<1>2. CASE Compose
  <2>1. /\ progress = "asked" /\ progress' \in {"refused", "composed"} /\ UNCHANGED <<ask, document>>
        /\ ask.sources \in Seq(Outbounds)
    BY <1>2 DEF Compose, CompilerInv
  <2>2. CASE progress' = "refused"
    BY <2>1, <2>2 DEF CompilerInv, CompilerTypeOK
  <2>3. CASE progress' = "composed"
    <3>1. /\ config' = Composed(ask)
          /\ \A i \in DOMAIN ask.sources : ask.sources[i].enabled => Compatible(ask.core, ask.sources[i])
      BY <1>2, <2>3 DEF Compose
    <3>2. Composition'
      BY <2>1, <3>1 DEF Composition
    <3> QED
      BY <2>1, <2>3, <3>2 DEF CompilerInv, CompilerTypeOK
  <2> QED
    BY <2>1, <2>2, <2>3
<1>3. CASE compileNative
  <2>1. /\ progress = "composed" /\ UNCHANGED <<ask, config>> /\ KnownCore /\ Composition'
        /\ ask.sources \in Seq(Outbounds) /\ CompilerTypeOK
    BY <1>3 DEF compileNative, CompilerInv, CompilerTypeOK, KnownCore, Composition
  <2>2. CASE progress' = "refused" /\ UNCHANGED document
    BY <2>1, <2>2 DEF CompilerInv, CompilerTypeOK
  <2>3. CASE progress' = "done" /\ Compilation'
    <3>1. SingBox(config).controller \in BOOLEAN
      BY DEF SingBox, HasController
    <3>2. Mihomo(config).controller \in BOOLEAN
      BY DEF Mihomo
    <3>3. Xray(config).controller \in BOOLEAN
      BY DEF Xray
    <3>4. document' \in {SingBox(config), Mihomo(config), Xray(config)}
      BY <2>1, <2>3 DEF Compilation, KnownCore
    <3> QED
      BY <2>1, <2>3, <3>1, <3>2, <3>3, <3>4 DEF CompilerInv, CompilerTypeOK
  <2>4. \/ progress' = "refused" /\ UNCHANGED document
        \/ progress' = "done" /\ Compilation'
    <3> DEFINE fails == \/ config.disconnected /\ config.final # "direct"
                        \/ ~Valid(config) \/ Refused(ask.core, config)
    <3>1. CASE fails
      BY <1>3, <3>1 DEF compileNative
    <3>2. CASE ~fails
      <4>1. progress' = "done" /\ Valid(config) /\ ~Refused(ask.core, config)
        BY <1>3, <3>2 DEF compileNative
      <4>2. document' = CASE ask.core = "sing-box" -> SingBox(config)
                          [] ask.core = "mihomo" -> Mihomo(config)
                          [] ask.core = "xray" -> Xray(config)
        BY <1>3, <3>2 DEF compileNative
      <4>3. /\ ask.core = "sing-box" => document' = SingBox(config)
            /\ ask.core = "mihomo" => document' = Mihomo(config)
            /\ ask.core = "xray" => document' = Xray(config)
        BY <4>2
      <4> QED
        BY <2>1, <4>1, <4>3 DEF Compilation
    <3> QED
      BY <3>1, <3>2
  <2> QED
    BY <2>2, <2>3, <2>4
<1>4. CASE UNCHANGED compilerVars
  BY <1>4 DEF CompilerInv, CompilerTypeOK, Composition, Compilation, compilerVars
<1> QED
  BY <1>1, <1>2, <1>3, <1>4 DEF CompilerNext

-----------------------------------------------------------------------------
(* The Service: one component runs, the others rest.                       *)

PartsInv ==
    /\ part \in ServiceParts
    /\ RuntimeInv /\ SourcesInv /\ IpcInv /\ HealInv /\ CompilerInv /\ TunInv /\ SwitchInv /\ EnvironmentInv

LEMMA PartsBegin == ServiceInit => PartsInv
  BY RuntimeInitInv, SourcesInitInv, IpcInitInv, HealInitInv, CompilerInitInv, TunInitInv,
     SwitchInitInv, EnvironmentInitInv DEF ServiceInit, PartsInv

\* What one component does is a step of it, and a stutter of the others.
LEMMA OnePartMoves ==
    [ServiceNext]_partVars =>
        /\ UNCHANGED part
        /\ [RuntimeNext]_runtimeVars /\ [SourcesNext]_sourceVars /\ [IpcNext]_ipcVars /\ [HealNext]_healVars
        /\ [CompilerNext]_compilerVars /\ [TunNext]_tunVars /\ [SwitchNext]_switchVars
        /\ [EnvironmentNext]_environmentVars
  BY DEF ServiceNext, partVars, RuntimePart, SourcesPart, IpcPart, HealPart, CompilerPart,
     TunPart, SwitchPart, EnvironmentPart

LEMMA PartsKeep == PartsInv /\ [ServiceNext]_partVars => PartsInv'
  BY OnePartMoves, RuntimeNextInv, SourcesNextInv, IpcNextInv, HealNextInv, CompilerNextInv,
     TunNextInv, SwitchNextInv, EnvironmentNextInv DEF PartsInv

LEMMA PartsTyped == PartsInv => ServiceTypeOK
<1> SUFFICES ASSUME PartsInv PROVE ServiceTypeOK
  OBVIOUS
<1>1. RuntimeTypeOK
  BY DEF PartsInv, RuntimeInv
<1>2. SourcesTypeOK
  BY DEF PartsInv, SourcesInv, SourcesTyped, SourcesTypeOK
<1>3. IpcTypeOK
  BY DEF PartsInv, IpcInv, CallsTyped, CacheTyped, Wires, IpcTypeOK
<1>4. HealTypeOK
  BY HealAssumption DEF PartsInv, HealInv, QueueTyped, BreakerTyped, Paced, Circuits, HealTypeOK
<1>5. CompilerTypeOK
  BY DEF PartsInv, CompilerInv
<1>6. TunTypeOK
  BY TunSafe DEF PartsInv
<1>7. SwitchTypeOK
  BY DEF PartsInv, SwitchInv, SwitchTyped, Healths, SwitchTypeOK
<1>8. EnvironmentTypeOK
  BY DEF PartsInv, EnvironmentInv, EnvironmentTyped, EnvironmentTypeOK, Machines, ShownStates,
     Turns, IsHealth
<1>9. part \in ServiceParts
  BY DEF PartsInv
<1> QED
  BY <1>1, <1>2, <1>3, <1>4, <1>5, <1>6, <1>7, <1>8, <1>9 DEF ServiceTypeOK, ServiceParts

\* The invariant of every component holds in every state of the Service.
THEOREM ServiceInvariant == ServiceSpec => []PartsInv
  BY PartsBegin, PartsKeep, PTL DEF ServiceSpec

\* Every component keeps the types of its state, whichever runs
\* (internal/service, internal/agent/environment.go, internal/compiler).
THEOREM ServiceTypeCorrect == ServiceSpec => []ServiceTypeOK
  BY PartsTyped, ServiceInvariant, PTL

\* For any nodes, policies, versions, operations and crashes: the files that a start needs are
\* there, and no core runs the file of another one.  With one failure at most, a core that
\* runs runs what memory, disk and path say, what is called active was probed, and a change or
\* a switch that fails is undone (internal/service/runtime.go, warm_lease.go, service.go).
THEOREM RuntimeStaysAgreed == ServiceSpec => []RuntimeAgrees
<1>1. PartsInv => RuntimeAgrees
  BY RuntimeSafe, SwitchSafe DEF PartsInv, RuntimeAgrees
<1> QED
  BY <1>1, ServiceInvariant, PTL

\* For any subscriptions, upstream proxies and number of operations: one failure or crash at
\* most leaves no source without its secret and no node without its subscription, and an
\* answer is true of what is held unless its operation met more than one failure
\* (internal/subscription, internal/service/service.go:1087-1229).
THEOREM SourcesStaySafe == ServiceSpec => []SourcesAreSafe
<1>1. PartsInv => SourcesAreSafe
  BY SourcesSafe DEF PartsInv
<1> QED
  BY <1>1, ServiceInvariant, PTL

\* However often connections break, the Service restarts and requests are sent again, a call
\* returns its own answer, and a request that is remembered is executed once
\* (internal/agent/agent.go:311-380, internal/service/ipc_replay.go).
THEOREM RequestsStaySafe == ServiceSpec => []RequestsAreSafe
<1>1. PartsInv => RequestsAreSafe
  BY DEF PartsInv, IpcInv, RequestsAreSafe
<1> QED
  BY <1>1, ServiceInvariant, PTL

\* For any budgets, reporters, length of the queue and number of lives: as long as the record
\* can be written, one window sees at most MaxAttempts failed repairs that are no trials, and
\* the breaker is not left waiting for a trial that nobody makes
\* (internal/selfheal/state.go:56-141).
THEOREM BreakerStaysSafe == ServiceSpec => []BreakerIsSafe
<1>1. PartsInv => BreakerIsSafe
  BY HealIsSafe DEF PartsInv
<1> QED
  BY <1>1, ServiceInvariant, PTL

\* The store of the Agent catches up with every change of the capture, in the composition as
\* by itself (internal/agent/environment.go).
THEOREM ChangesStayObserved == ServiceSpec => []ChangesAreObserved
<1>1. PartsInv => ChangesAreObserved
  BY DEF PartsInv, EnvironmentInv
<1> QED
  BY <1>1, ServiceInvariant, PTL

\* Whatever step of a preparation, a reload or a rollback fails, and whenever the core, the
\* adapter or the process goes, a TUN session has an owner until it is gone, is bound to the
\* adapter that is there, was verified, and is accused only on evidence
\* (internal/service/capture_transition.go, runtime.go, tun_dataplane_verify_windows.go).
THEOREM TunStaysSafe == ServiceSpec => []TunIsSafe
<1>1. PartsInv => TunIsSafe
  BY TunSafe DEF PartsInv
<1> QED
  BY <1>1, ServiceInvariant, PTL

\* For any list of sources, any lists of the user and any selection, whatever core compiles
\* it: a connection leaves where the user was promised and through an outbound of the
\* document, TUN hijacks every query for a name, and a node keeps what it cannot do without
\* (runtime.go:1206-1236 against generator.go, multi_core.go and validator.go).
THEOREM DocumentsStayAgreed == ServiceSpec => []DocumentsAgree
<1>1. PartsInv => DocumentsAgree
  BY CompilerAgrees DEF PartsInv
<1> QED
  BY <1>1, ServiceInvariant, PTL
=============================================================================
