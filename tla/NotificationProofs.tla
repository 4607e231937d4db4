------------------------- MODULE NotificationProofs -------------------------
(***************************************************************************)
(* Theorems about Notification, for every value of its constants.          *)
(***************************************************************************)
EXTENDS Notification, FiniteSetTheorems, TLAPS

-----------------------------------------------------------------------------
(* Type correctness.                                                       *)

\* A server that is not idle has a call of its own and a channel to go on with.
Busy ==
  /\ \A s \in Server : serve[s].at = "idle" => serve[s] = Idle
  /\ \A s \in Server : serve[s].at # "idle" =>
       /\ serve[s].req \in Request /\ requests[serve[s].req].status = "busy"
       /\ serve[s].todo # <<>>
  /\ \A s, u \in Server :
       (s # u /\ serve[s].at # "idle") => serve[s].req # serve[u].req

TypeInv == TypeOK /\ Busy

\* What a step leaves alone in every call but the one it takes.
SameCall(r) ==
  /\ requests'[r].cust = requests[r].cust
  /\ requests'[r].refused = requests[r].refused

LEMMA IdleType == Idle \in ServeState
  BY DEF Idle, ServeState, Step, Logged, Channel

\* The channels _get_risk_routing returns are channels.
LEMMA RoutingType ==
  ASSUME NEW n \in 0..100 PROVE Routing(n) \in Seq(Channel)
<1>1. /\ "app_push" \in Channel /\ "sms" \in Channel /\ "whatsapp" \in Channel
      /\ "email" \in Channel /\ "rm_call" \in Channel /\ "collector_assignment" \in Channel
  BY DEF Channel, Routed
<1>2. n < 30 \/ (n >= 30 /\ n < 50) \/ (n >= 50 /\ n < 65) \/ (n >= 65 /\ n < 75)
        \/ (n >= 75 /\ n < 85) \/ n >= 85
  OBVIOUS
<1> HIDE DEF Channel
<1>3. CASE n < 30
  <2>1. Routing(n) = <<>>
    BY <1>3, n \in Int DEF Routing
  <2>2. <<>> \in Seq(Channel)
    OBVIOUS
  <2> QED
    BY <2>1, <2>2
<1>4. CASE n >= 30 /\ n < 50
  BY <1>1, <1>4 DEF Routing
<1>5. CASE n >= 50 /\ n < 65
  BY <1>1, <1>5 DEF Routing
<1>6. CASE n >= 65 /\ n < 75
  BY <1>1, <1>6 DEF Routing
<1>7. CASE n >= 75 /\ n < 85
  BY <1>1, <1>7 DEF Routing
<1>8. CASE n >= 85
  BY <1>1, <1>8 DEF Routing
<1> QED
  BY <1>2, <1>3, <1>4, <1>5, <1>6, <1>7, <1>8

\* Putting the bandit's choice first keeps a non-empty list of channels one.
LEMMA WithChoiceType ==
  ASSUME NEW choice \in Choice, NEW q \in Seq(Channel), q # <<>>
  PROVE  WithChoice(choice, q) \in Seq(Channel) /\ WithChoice(choice, q) # <<>>
<1>1. CASE choice = "none"
  BY <1>1 DEF WithChoice
<1>2. CASE choice # "none"
  <2>1. choice \in Channel /\ <<choice>> \in Seq(Channel) /\ Len(<<choice>>) = 1
    BY <1>2, NotificationAssumption DEF Channel
  <2>2. CASE \A i \in DOMAIN q : q[i] # choice
    <3>1. WithChoice(choice, q) = <<choice>> \o q
      BY <1>2, <2>2 DEF WithChoice
    <3>2. <<choice>> \o q \in Seq(Channel) /\ Len(<<choice>> \o q) = 1 + Len(q)
      BY <2>1
    <3> QED
      BY <3>1, <3>2
  <2>3. CASE \E i \in DOMAIN q : q[i] = choice
    <3> DEFINE i == CHOOSE j \in DOMAIN q : q[j] = choice
               a == SubSeq(q, 1, i-1)
               b == SubSeq(q, i+1, Len(q))
    <3>1. i \in 1..Len(q)
      BY <2>3
    <3>2. WithChoice(choice, q) = <<choice>> \o a \o b
      BY <1>2, <2>3 DEF WithChoice
    <3> HIDE DEF i
    <3>3. a \in Seq(Channel) /\ b \in Seq(Channel)
      BY <3>1
    <3> HIDE DEF a, b
    <3>4. <<choice>> \o a \in Seq(Channel) /\ Len(<<choice>> \o a) = 1 + Len(a)
      BY <2>1, <3>3
    <3>5. /\ <<choice>> \o a \o b \in Seq(Channel)
          /\ Len(<<choice>> \o a \o b) = 1 + Len(a) + Len(b)
      BY <3>3, <3>4
    <3>6. Len(a) \in Nat /\ Len(b) \in Nat
      BY <3>3
    <3> QED
      BY <3>2, <3>5, <3>6
  <2> QED
    BY <2>2, <2>3
<1> QED
  BY <1>1, <1>2

\* A server that goes on with its call keeps the types and Busy.
LEMMA MoveType ==
  ASSUME TypeInv, NEW s \in Server, serve[s].at # "idle",
         NEW x \in ServeState, x.at # "idle", x.req = serve[s].req, x.todo # <<>>,
         serve' = [serve EXCEPT ![s] = x], UNCHANGED requests
  PROVE  serve' \in [Server -> ServeState] /\ Busy'
<1>1. serve' \in [Server -> ServeState]
  BY DEF TypeInv, TypeOK
<1>2. serve'[s] = x /\ \A u \in Server \ {s} : serve'[u] = serve[u]
  BY DEF TypeInv, TypeOK
<1> QED
  BY <1>1, <1>2 DEF TypeInv, Busy

\* A server that is done with its call, too.
LEMMA ReleaseType ==
  ASSUME TypeInv, NEW s \in Server, serve[s].at # "idle",
         NEW q \in {"answered", "dropped"},
         serve' = [serve EXCEPT ![s] = Idle],
         requests' = [requests EXCEPT ![serve[s].req].status = q]
  PROVE  /\ serve' \in [Server -> ServeState]
         /\ requests' \in [Request -> RequestState]
         /\ Busy'
         /\ \A r \in Request : SameCall(r)
         /\ \A r \in Request : requests[r].status # "new" => requests'[r].status # "new"
<1>1. serve' \in [Server -> ServeState]
  BY IdleType DEF TypeInv, TypeOK
<1>2. serve'[s] = Idle /\ \A u \in Server \ {s} : serve'[u] = serve[u]
  BY DEF TypeInv, TypeOK
<1>3. serve[s].req \in Request
  BY DEF TypeInv, Busy
<1>4. requests' \in [Request -> RequestState]
  BY <1>3 DEF TypeInv, TypeOK, RequestState
<1>5. \A r \in Request \ {serve[s].req} : requests'[r] = requests[r]
  BY <1>3 DEF TypeInv, TypeOK
<1>6. /\ requests'[serve[s].req].status = q
      /\ requests'[serve[s].req].cust = requests[serve[s].req].cust
      /\ requests'[serve[s].req].refused = requests[serve[s].req].refused
  BY <1>3 DEF TypeInv, TypeOK, RequestState
<1>7. Idle.at = "idle"
  BY DEF Idle
<1>8. \A u \in Server : serve'[u].at = "idle" => serve'[u] = Idle
  BY <1>2 DEF TypeInv, Busy
<1>9. ASSUME NEW u \in Server, serve'[u].at # "idle"
      PROVE  /\ serve'[u].req \in Request /\ requests'[serve'[u].req].status = "busy"
             /\ serve'[u].todo # <<>>
  <2>1. u # s /\ serve'[u] = serve[u]
    BY <1>2, <1>7, <1>9
  <2>2. serve[u].req \in Request \ {serve[s].req}
    BY <2>1, <1>9 DEF TypeInv, Busy
  <2> QED
    BY <1>5, <1>9, <2>1, <2>2 DEF TypeInv, Busy
<1>10. ASSUME NEW u \in Server, NEW v \in Server, u # v, serve'[u].at # "idle"
       PROVE  serve'[u].req # serve'[v].req
  <2>1. u # s /\ serve'[u] = serve[u]
    BY <1>2, <1>7, <1>10
  <2>2. serve[u].req \in Request
    BY <2>1, <1>10 DEF TypeInv, Busy
  <2>3. CASE v = s
    BY <1>2, <2>1, <2>2, <2>3, NotificationAssumption DEF Idle
  <2>4. CASE v # s
    BY <1>2, <2>1, <2>4, <1>10 DEF TypeInv, Busy
  <2> QED
    BY <2>3, <2>4
<1>11. Busy'
  BY <1>8, <1>9, <1>10 DEF Busy
<1> QED
  BY <1>1, <1>4, <1>5, <1>6, <1>11 DEF SameCall

\* Going on to the next channel is one or the other.
LEMMA NextChannelType ==
  ASSUME TypeInv, NEW s \in Server, serve[s].at # "idle", NextChannel(s)
  PROVE  /\ serve' \in [Server -> ServeState]
         /\ requests' \in [Request -> RequestState]
         /\ Busy'
         /\ \A r \in Request : SameCall(r)
         /\ \A r \in Request : requests[r].status # "new" => requests'[r].status # "new"
         /\ \A u \in Server \ {s} : serve'[u] = serve[u]
         /\ serve'[s].at \in {"idle", "consent"}
         /\ serve'[s].at # "idle" => serve'[s].req = serve[s].req
<1>0. serve[s] \in ServeState /\ serve[s].req \in Request /\ serve[s].todo # <<>>
  BY DEF TypeInv, TypeOK, Busy
<1>1. CASE Len(serve[s].todo) > 1
  <2> DEFINE x == [Idle EXCEPT !.at = "consent", !.req = serve[s].req,
                               !.todo = Tail(serve[s].todo)]
  <2>1. serve' = [serve EXCEPT ![s] = x] /\ UNCHANGED requests
    BY <1>1 DEF NextChannel
  <2>2. serve[s].todo \in Seq(Channel)
    BY <1>0 DEF ServeState
  <2>3. Tail(serve[s].todo) \in Seq(Channel) /\ Tail(serve[s].todo) # <<>>
    <3> DEFINE q == serve[s].todo
    <3>1. q \in Seq(Channel) /\ Len(q) \in Nat /\ Len(q) > 1 /\ q # <<>>
      BY <1>0, <1>1, <2>2
    <3> HIDE DEF q
    <3>2. Tail(q) \in Seq(Channel) /\ Len(Tail(q)) = Len(q) - 1
      BY <3>1
    <3>3. Tail(q) # <<>>
      BY <3>1, <3>2
    <3> QED
      BY <3>2, <3>3 DEF q
  <2>4. x \in ServeState
    BY <1>0, <2>3, IdleType DEF ServeState, Step
  <2>5. x.at = "consent" /\ x.req = serve[s].req /\ x.todo # <<>>
    BY <2>3 DEF Idle
  <2> HIDE DEF x
  <2>6. serve' \in [Server -> ServeState] /\ Busy'
    BY <2>1, <2>4, <2>5, MoveType
  <2>7. serve'[s] = x /\ \A u \in Server \ {s} : serve'[u] = serve[u]
    BY <2>1 DEF TypeInv, TypeOK
  <2> QED
    BY <2>1, <2>5, <2>6, <2>7 DEF TypeInv, TypeOK, SameCall
<1>2. CASE ~(Len(serve[s].todo) > 1)
  <2>1. /\ serve' = [serve EXCEPT ![s] = Idle]
        /\ requests' = [requests EXCEPT ![serve[s].req].status = "answered"]
    BY <1>2 DEF NextChannel
  <2>2. serve'[s] = Idle /\ \A u \in Server \ {s} : serve'[u] = serve[u]
    BY <2>1 DEF TypeInv, TypeOK
  <2>3. Idle.at = "idle"
    BY DEF Idle
  <2> QED
    BY <2>1, <2>2, <2>3, ReleaseType
<1> QED
  BY <1>1, <1>2

\* A call is taken up as its own and nobody else's.
LEMMA TakeType ==
  ASSUME TypeInv, NEW s \in Server, serve[s].at = "idle",
         NEW r \in Request, requests[r].status = "new",
         NEW x \in ServeState, x.at # "idle", x.req = r, x.todo # <<>>,
         serve' = [serve EXCEPT ![s] = x],
         NEW y \in RequestState, y.status = "busy",
         requests' = [requests EXCEPT ![r] = y]
  PROVE  /\ serve' \in [Server -> ServeState]
         /\ requests' \in [Request -> RequestState]
         /\ Busy'
<1>1. serve' \in [Server -> ServeState] /\ requests' \in [Request -> RequestState]
  BY DEF TypeInv, TypeOK
<1>2. serve'[s] = x /\ \A u \in Server \ {s} : serve'[u] = serve[u]
  BY DEF TypeInv, TypeOK
<1>3. requests'[r] = y /\ \A q \in Request \ {r} : requests'[q] = requests[q]
  BY DEF TypeInv, TypeOK
<1>4. \A u \in Server \ {s} : serve[u].req # r
  <2> SUFFICES ASSUME NEW u \in Server \ {s} PROVE serve[u].req # r
    OBVIOUS
  <2>1. CASE serve[u].at = "idle"
    BY <2>1, NotificationAssumption DEF TypeInv, Busy, Idle
  <2>2. CASE serve[u].at # "idle"
    BY <2>2 DEF TypeInv, Busy
  <2> QED
    BY <2>1, <2>2
<1>5. \A u \in Server : serve'[u].at = "idle" => serve'[u] = Idle
  BY <1>2 DEF TypeInv, Busy
<1>6. ASSUME NEW u \in Server, serve'[u].at # "idle"
      PROVE  /\ serve'[u].req \in Request /\ requests'[serve'[u].req].status = "busy"
             /\ serve'[u].todo # <<>>
  <2>1. CASE u = s
    BY <1>2, <1>3, <2>1
  <2>2. CASE u # s
    BY <1>2, <1>3, <1>4, <1>6, <2>2 DEF TypeInv, Busy
  <2> QED
    BY <2>1, <2>2
<1>7. ASSUME NEW u \in Server, NEW v \in Server, u # v, serve'[u].at # "idle"
      PROVE  serve'[u].req # serve'[v].req
  BY <1>2, <1>4, <1>7 DEF TypeInv, Busy
<1> QED
  BY <1>1, <1>5, <1>6, <1>7 DEF Busy

\* The key of a server that is not idle is one of Customer \X Channel.
LEMMA KeyType ==
  ASSUME TypeInv, NEW s \in Server, serve[s].at # "idle"
  PROVE  /\ Chan(s) \in Channel /\ Cust(s) \in Customer
         /\ Key(s) \in Customer \X Channel /\ serve[s].req \in Request
<1>1. serve[s] \in ServeState /\ serve[s].req \in Request /\ serve[s].todo # <<>>
  BY DEF TypeInv, TypeOK, Busy
<1>2. serve[s].todo \in Seq(Channel)
  BY <1>1 DEF ServeState
<1>3. requests[serve[s].req] \in RequestState
  BY <1>1 DEF TypeInv, TypeOK
<1>4. Head(serve[s].todo) \in Channel
  BY <1>1, <1>2
<1> QED
  BY <1>1, <1>3, <1>4 DEF Chan, Cust, Key, RequestState

LEMMA InitType == Init => TypeInv
<1> SUFFICES ASSUME Init PROVE TypeInv
  OBVIOUS
<1>1. requests \in [Request -> RequestState]
  BY NotificationAssumption DEF Init, RequestState
<1>2. serve \in [Server -> ServeState]
  BY IdleType DEF Init
<1>3. consent \in [Customer \X ConsentChannel -> ConsentState]
  BY DEF Init, ConsentState
<1>4. log \in [Request \X Channel -> Logged \cup {"absent"}]
  BY DEF Init
<1>5. keys \in [Customer \X Channel -> Nat]
  BY DEF Init
<1>6. hour \in 0..MaxHour /\ faults \in 0..MaxFaults /\ claims \subseteq Claim /\ reached \subseteq Reach
  BY NotificationAssumption DEF Init
<1>7. \A s \in Server : serve[s] = Idle /\ serve[s].at = "idle"
  BY DEF Init, Idle
<1> QED
  BY <1>1, <1>2, <1>3, <1>4, <1>5, <1>6, <1>7 DEF TypeInv, TypeOK, Busy

LEMMA TakeStep ==
  ASSUME TypeInv, NEW s \in Server, Take(s) PROVE TypeInv'
<1>1. PICK r \in Request, choice \in Choice :
        /\ requests[r].status = "new"
        /\ \/ /\ Routing(requests[r].score) = <<>>
              /\ requests' = [requests EXCEPT ![r].status = "answered"]
              /\ UNCHANGED serve
           \/ /\ Routing(requests[r].score) # <<>>
              /\ requests' = [requests EXCEPT
                   ![r].status = "busy", ![r].since = hour,
                   ![r].refused = Objections(requests[r].cust, "refused")]
              /\ serve' = [serve EXCEPT ![s] =
                   [Idle EXCEPT !.at = "consent", !.req = r,
                      !.todo = WithChoice(choice, Routing(requests[r].score))]]
  BY DEF Take
<1>2. requests[r] \in RequestState /\ requests[r].score \in 0..100
  BY NotificationAssumption DEF TypeInv, TypeOK, RequestState
<1>3. /\ serve[s].at = "idle"
      /\ UNCHANGED <<hour, keys, consent, claims, reached, log, faults>>
  BY DEF Take
<1>4. CASE Routing(requests[r].score) = <<>>
  <2>1. requests' = [requests EXCEPT ![r].status = "answered"] /\ UNCHANGED serve
    BY <1>1, <1>4
  <2>2. requests' \in [Request -> RequestState]
    BY <1>2, <2>1 DEF TypeInv, TypeOK, RequestState
  <2>3. \A q \in Request : requests[q].status = "busy" => requests'[q] = requests[q]
    BY <1>1, <2>1 DEF TypeInv, TypeOK
  <2>4. \A u \in Server : serve[u].at # "idle" =>
          serve[u].req \in Request /\ requests'[serve[u].req].status = "busy"
    BY <2>3 DEF TypeInv, Busy
  <2>5. Busy'
    BY <2>1, <2>4 DEF TypeInv, Busy
  <2> QED
    BY <1>3, <2>1, <2>2, <2>5 DEF TypeInv, TypeOK
<1>5. CASE Routing(requests[r].score) # <<>>
  <2> DEFINE todo == WithChoice(choice, Routing(requests[r].score))
             x == [Idle EXCEPT !.at = "consent", !.req = r, !.todo = todo]
             y == [requests[r] EXCEPT
                     !.status = "busy", !.since = hour,
                     !.refused = Objections(requests[r].cust, "refused")]
  <2>1. todo \in Seq(Channel) /\ todo # <<>>
    BY <1>2, <1>5, RoutingType, WithChoiceType
  <2>2. serve' = [serve EXCEPT ![s] = x] /\ requests' = [requests EXCEPT ![r] = y]
    BY <1>1, <1>5 DEF TypeInv, TypeOK
  <2> HIDE DEF todo
  <2>3. x \in ServeState /\ x.at = "consent" /\ x.req = r /\ x.todo # <<>>
    BY <2>1, IdleType DEF ServeState, Idle, Step
  <2>4. Objections(requests[r].cust, "refused") \in SUBSET ConsentChannel
    BY DEF Objections
  <2>5. y \in RequestState /\ y.status = "busy"
    BY <1>2, <2>4 DEF RequestState, TypeInv, TypeOK
  <2> HIDE DEF x, y
  <2>6. /\ serve' \in [Server -> ServeState] /\ requests' \in [Request -> RequestState]
        /\ Busy'
    BY <1>1, <1>3, <2>2, <2>3, <2>5, TakeType
  <2> QED
    BY <1>3, <2>6 DEF TypeInv, TypeOK
<1> QED
  BY <1>4, <1>5

\* What every step of a busy server does to the calls and to the servers.
Moved(s) ==
  /\ serve' \in [Server -> ServeState]
  /\ requests' \in [Request -> RequestState]
  /\ Busy'
  /\ \A r \in Request : SameCall(r)
  /\ \A r \in Request : requests[r].status # "new" => requests'[r].status # "new"
  /\ \A u \in Server \ {s} : serve'[u] = serve[u]
  /\ \/ serve'[s].at \in {"idle", "consent"}
     \/ /\ serve'[s].req = serve[s].req
        /\ serve'[s].todo = serve[s].todo

LEMMA NextChannelMoves ==
  ASSUME TypeInv, NEW s \in Server, serve[s].at # "idle", NextChannel(s)
  PROVE  Moved(s) /\ serve'[s].at \in {"idle", "consent"}
BY NextChannelType DEF Moved

LEMMA CrashMoves ==
  ASSUME TypeInv, NEW s \in Server, serve[s].at # "idle", Crash(s)
  PROVE  Moved(s) /\ serve'[s].at \in {"idle", "consent"}
<1>1. /\ serve' = [serve EXCEPT ![s] = Idle]
      /\ requests' = [requests EXCEPT ![serve[s].req].status = "dropped"]
  BY DEF Crash
<1>2. serve'[s] = Idle /\ \A u \in Server \ {s} : serve'[u] = serve[u]
  BY <1>1 DEF TypeInv, TypeOK
<1>3. Idle.at = "idle"
  BY DEF Idle
<1> QED
  BY <1>1, <1>2, <1>3, ReleaseType DEF Moved

\* A server that stays with its channel.
LEMMA StayMoves ==
  ASSUME TypeInv, NEW s \in Server, serve[s].at # "idle",
         NEW x \in ServeState, x.at # "idle",
         x.req = serve[s].req, x.todo = serve[s].todo,
         serve' = [serve EXCEPT ![s] = x], UNCHANGED requests
  PROVE  Moved(s) /\ serve'[s] = x
<1>1. serve[s].todo # <<>>
  BY DEF TypeInv, Busy
<1>2. serve' \in [Server -> ServeState] /\ Busy'
  BY <1>1, MoveType
<1>3. serve'[s] = x /\ \A u \in Server \ {s} : serve'[u] = serve[u]
  BY DEF TypeInv, TypeOK
<1> QED
  BY <1>2, <1>3 DEF Moved, SameCall, TypeInv, TypeOK

\* The step of s is now the given one; nothing else of it changed.
LEMMA GoMoves ==
  ASSUME TypeInv, NEW s \in Server, serve[s].at # "idle",
         NEW a \in Step \ {"idle"}, serve' = [serve EXCEPT ![s].at = a],
         UNCHANGED requests
  PROVE  Moved(s) /\ serve'[s] = [serve[s] EXCEPT !.at = a]
<1> DEFINE x == [serve[s] EXCEPT !.at = a]
<1>1. serve[s] \in ServeState
  BY DEF TypeInv, TypeOK
<1>2. x \in ServeState /\ x.at = a /\ x.req = serve[s].req /\ x.todo = serve[s].todo
  BY <1>1 DEF ServeState
<1>3. serve' = [serve EXCEPT ![s] = x]
  OBVIOUS
<1> HIDE DEF x
<1>4. Moved(s) /\ serve'[s] = x
  BY <1>2, <1>3, StayMoves
<1> QED
  BY <1>4 DEF x

\* The step of s is "log", with the given result.
LEMMA ToLogMoves ==
  ASSUME TypeInv, NEW s \in Server, serve[s].at # "idle",
         NEW l \in Logged, ToLog(s, l), UNCHANGED requests
  PROVE  Moved(s) /\ serve'[s].at = "log" /\ serve'[s].result = l
                  /\ serve'[s].req = serve[s].req /\ serve'[s].todo = serve[s].todo
<1> DEFINE x == [serve[s] EXCEPT !.at = "log", !.result = l]
<1>1. serve[s] \in ServeState
  BY DEF TypeInv, TypeOK
<1>2. /\ x \in ServeState /\ x.at = "log" /\ x.req = serve[s].req
      /\ x.todo = serve[s].todo /\ x.result = l
  BY <1>1 DEF ServeState, Step
<1>3. serve' = [serve EXCEPT ![s] = x]
  BY <1>1 DEF ToLog, TypeInv, TypeOK
<1> HIDE DEF x
<1> QED
  BY <1>2, <1>3, StayMoves

\* The consent query failed: the channel goes on unchecked.
LEMMA UnsureMoves ==
  ASSUME TypeInv, NEW s \in Server, ConsentFails(s)
  PROVE  Moved(s) /\ serve'[s].at = "exists" /\ serve'[s].sure = FALSE
                  /\ serve'[s].req = serve[s].req /\ serve'[s].todo = serve[s].todo
<1> DEFINE x == [serve[s] EXCEPT !.at = "exists", !.sure = FALSE]
<1>1. serve[s] \in ServeState
  BY DEF TypeInv, TypeOK
<1>2. /\ x \in ServeState /\ x.at = "exists" /\ x.req = serve[s].req
      /\ x.todo = serve[s].todo /\ x.sure = FALSE
  BY <1>1 DEF ServeState, Step
<1>3. serve[s].at # "idle" /\ serve' = [serve EXCEPT ![s] = x] /\ UNCHANGED requests
  BY <1>1 DEF ConsentFails, TypeInv, TypeOK
<1> HIDE DEF x
<1> QED
  BY <1>2, <1>3, StayMoves

\* One delivery or assignment more.
LEMMA ReachesType ==
  ASSUME TypeInv, NEW s \in Server, serve[s].at # "idle", Reaches(s)
  PROVE  reached' \subseteq Reach
<1>1. serve[s] \in ServeState
  BY DEF TypeInv, TypeOK
<1> QED
  BY <1>1, KeyType DEF Reaches, Reach, ServeState, TypeInv, TypeOK

-----------------------------------------------------------------------------
(* The steps of a busy server, action by action.                           *)

LEMMA CheckConsentMoves ==
  ASSUME TypeInv, NEW s \in Server, CheckConsent(s)
  PROVE  /\ Moved(s) /\ UNCHANGED <<hour, keys, consent, claims, reached, log, faults>>
         /\ \/ serve'[s].at \in {"idle", "consent"}
            \/ /\ serve'[s] = [serve[s] EXCEPT !.at = "exists"]
               /\ Consent(Key(s)) # "refused"
<1>1. serve[s].at = "consent" /\ "exists" \in Step \ {"idle"}
  BY DEF CheckConsent, Step
<1> QED
  BY <1>1, NextChannelMoves, GoMoves DEF CheckConsent

LEMMA CheckKeyMoves ==
  ASSUME TypeInv, NEW s \in Server, CheckKey(s)
  PROVE  /\ Moved(s) /\ UNCHANGED <<hour, keys, consent, claims, reached, log, faults>>
         /\ \/ serve'[s].at \in {"idle", "consent"}
            \/ /\ serve'[s] = [serve[s] EXCEPT !.at = "claim"]
               /\ serve[s].at = "exists" /\ ~(keys[Key(s)] > hour)
<1>1. serve[s].at = "exists" /\ "claim" \in Step \ {"idle"}
  BY DEF CheckKey, Step
<1> QED
  BY <1>1, NextChannelMoves, GoMoves DEF CheckKey

LEMMA ClaimKeyMoves ==
  ASSUME TypeInv, NEW s \in Server, ClaimKey(s)
  PROVE  /\ Moved(s) /\ UNCHANGED <<hour, consent, reached, log, faults>>
         /\ serve'[s] = [serve[s] EXCEPT !.at = "send"]
         /\ keys' \in [Customer \X Channel -> Nat]
         /\ claims' \subseteq Claim
<1>1. serve[s].at = "claim" /\ "send" \in Step \ {"idle"}
  BY DEF ClaimKey, Step
<1>2. Moved(s) /\ serve'[s] = [serve[s] EXCEPT !.at = "send"]
  BY <1>1, GoMoves DEF ClaimKey
<1>3. hour + Hours \in Nat
  BY NotificationAssumption DEF TypeInv, TypeOK
<1>4. keys' \in [Customer \X Channel -> Nat]
  BY <1>3 DEF ClaimKey, TypeInv, TypeOK
<1>5. claims' \subseteq Claim
  BY <1>1, KeyType DEF ClaimKey, Claim, TypeInv, TypeOK
<1> QED
  BY <1>2, <1>4, <1>5 DEF ClaimKey

LEMMA SendMoves ==
  ASSUME TypeInv, NEW s \in Server, Send(s)
  PROVE  /\ Moved(s) /\ UNCHANGED <<hour, keys, consent, claims, log, faults>>
         /\ reached' \subseteq Reach
         /\ \/ serve'[s].at \in {"idle", "consent"} /\ UNCHANGED reached
            \/ serve'[s].at = "log" /\ serve'[s].result = "simulated" /\ UNCHANGED reached
            \/ /\ serve'[s].at = "log" /\ Reaches(s)
               /\ serve'[s].req = serve[s].req /\ serve'[s].todo = serve[s].todo
<1>0. serve[s].at = "send" /\ UNCHANGED <<hour, keys, consent, claims, log, faults>>
  BY DEF Send
<1>1. CASE NextChannel(s) /\ UNCHANGED reached
  BY <1>0, <1>1, NextChannelMoves DEF TypeInv, TypeOK
<1>2. CASE ToLog(s, "simulated") /\ UNCHANGED <<requests, reached>>
  BY <1>0, <1>2, ToLogMoves DEF TypeInv, TypeOK, Logged
<1>3. CASE /\ Reaches(s) /\ UNCHANGED requests
           /\ ToLog(s, IF Chan(s) \in Assigned THEN "assigned" ELSE "delivered")
  <2>1. (IF Chan(s) \in Assigned THEN "assigned" ELSE "delivered") \in Logged
    BY DEF Logged
  <2> QED
    BY <1>0, <1>3, <2>1, ToLogMoves, ReachesType
<1> QED
  BY <1>1, <1>2, <1>3 DEF Send

LEMMA LogMoves ==
  ASSUME TypeInv, NEW s \in Server, LogNotification(s)
  PROVE  /\ Moved(s) /\ UNCHANGED <<hour, keys, consent, claims, reached, faults>>
         /\ serve'[s].at \in {"idle", "consent"} /\ serve[s].at = "log"
         /\ log' \in [Request \X Channel -> Logged \cup {"absent"}]
<1>1. serve[s].at = "log" /\ serve[s] \in ServeState
  BY DEF LogNotification, TypeInv, TypeOK
<1>2. serve[s].result \in Logged
  BY <1>1 DEF ServeState
<1>3. log' \in [Request \X Channel -> Logged \cup {"absent"}]
  BY <1>2 DEF LogNotification, TypeInv, TypeOK
<1> QED
  BY <1>1, <1>3, NextChannelMoves DEF LogNotification

\* Taking a call changes that call and the server that takes it.
LEMMA TakeFacts ==
  ASSUME TypeInv, NEW s \in Server, Take(s)
  PROVE  /\ \A u \in Server \ {s} : serve'[u] = serve[u]
         /\ serve'[s].at \in {"idle", "consent"}
         /\ \E r \in Request :
              /\ requests[r].status = "new" /\ requests'[r].status # "new"
              /\ requests'[r].cust = requests[r].cust
              /\ \/ requests'[r].refused = requests[r].refused
                 \/ requests'[r].refused = Objections(requests[r].cust, "refused")
              /\ \A q \in Request \ {r} : requests'[q] = requests[q]
<1>1. PICK r \in Request, choice \in Choice :
        /\ requests[r].status = "new"
        /\ \/ /\ requests' = [requests EXCEPT ![r].status = "answered"]
              /\ UNCHANGED serve
           \/ /\ requests' = [requests EXCEPT
                   ![r].status = "busy", ![r].since = hour,
                   ![r].refused = Objections(requests[r].cust, "refused")]
              /\ serve' = [serve EXCEPT ![s] =
                   [Idle EXCEPT !.at = "consent", !.req = r,
                      !.todo = WithChoice(choice, Routing(requests[r].score))]]
  BY DEF Take
<1>2. requests[r] \in RequestState /\ serve[s].at = "idle"
  BY DEF Take, TypeInv, TypeOK
<1>3. CASE requests' = [requests EXCEPT ![r].status = "answered"] /\ UNCHANGED serve
  BY <1>1, <1>2, <1>3 DEF TypeInv, TypeOK, RequestState
<1>4. CASE /\ requests' = [requests EXCEPT
                ![r].status = "busy", ![r].since = hour,
                ![r].refused = Objections(requests[r].cust, "refused")]
           /\ serve' = [serve EXCEPT ![s] =
                [Idle EXCEPT !.at = "consent", !.req = r,
                   !.todo = WithChoice(choice, Routing(requests[r].score))]]
  <2> DEFINE x == [Idle EXCEPT !.at = "consent", !.req = r,
                     !.todo = WithChoice(choice, Routing(requests[r].score))]
             y == [requests[r] EXCEPT
                     !.status = "busy", !.since = hour,
                     !.refused = Objections(requests[r].cust, "refused")]
  <2>1. x.at = "consent"
    BY DEF Idle
  <2>2. /\ y.status = "busy" /\ y.cust = requests[r].cust
        /\ y.refused = Objections(requests[r].cust, "refused")
    BY <1>2 DEF RequestState
  <2>3. serve' = [serve EXCEPT ![s] = x] /\ requests' = [requests EXCEPT ![r] = y]
    BY <1>4 DEF TypeInv, TypeOK
  <2> HIDE DEF x, y
  <2>4. serve'[s] = x /\ \A u \in Server \ {s} : serve'[u] = serve[u]
    BY <2>3 DEF TypeInv, TypeOK
  <2>5. requests'[r] = y /\ \A q \in Request \ {r} : requests'[q] = requests[q]
    BY <2>3 DEF TypeInv, TypeOK
  <2> QED
    BY <1>1, <2>1, <2>2, <2>4, <2>5
<1> QED
  BY <1>1, <1>3, <1>4

LEMMA FaultMoves ==
  ASSUME TypeInv, NEW s \in Server, Fault(s)
  PROVE  /\ Moved(s) /\ UNCHANGED <<hour, keys, consent, claims, log>>
         /\ faults' \in 0..MaxFaults /\ reached' \subseteq Reach
         /\ \/ serve'[s].at \in {"idle", "consent"} /\ UNCHANGED reached
            \/ /\ serve'[s].at = "exists" /\ serve'[s].sure = FALSE /\ UNCHANGED reached
            \/ /\ serve'[s] = [serve[s] EXCEPT !.at = "send"] /\ UNCHANGED reached
               /\ serve[s].at \in {"exists", "claim"}
            \/ /\ serve'[s].at = "log" /\ serve'[s].result = "failed"
               /\ Reaches(s) \/ UNCHANGED reached
               /\ serve[s].at = "send"
<1>1. /\ UNCHANGED <<hour, keys, consent, claims, log>>
      /\ faults < MaxFaults /\ faults' = faults + 1
  BY DEF Fault
<1>2. faults' \in 0..MaxFaults /\ reached \subseteq Reach
  BY <1>1, NotificationAssumption DEF TypeInv, TypeOK
<1>3. CASE ConsentFails(s)
  BY <1>1, <1>2, <1>3, UnsureMoves DEF ConsentFails
<1>4. CASE RedisFails(s)
  <2>1. serve[s].at # "idle" /\ "send" \in Step \ {"idle"}
    BY <1>4 DEF RedisFails, Step
  <2> QED
    BY <1>1, <1>2, <1>4, <2>1, GoMoves DEF RedisFails
<1>5. CASE SendFails(s)
  <2>1. serve[s].at = "send" /\ ToLog(s, "failed") /\ UNCHANGED requests
        /\ (Reaches(s) \/ UNCHANGED reached)
    BY <1>5 DEF SendFails
  <2>2. "failed" \in Logged
    BY DEF Logged
  <2>3. Moved(s) /\ serve'[s].at = "log" /\ serve'[s].result = "failed"
    BY <2>1, <2>2, ToLogMoves
  <2>4. reached' \subseteq Reach
    BY <1>2, <2>1, ReachesType
  <2> QED
    BY <1>1, <1>2, <2>1, <2>3, <2>4
<1>6. CASE LogFails(s)
  BY <1>1, <1>2, <1>6, NextChannelMoves DEF LogFails
<1>7. CASE Crash(s)
  BY <1>1, <1>2, <1>7, CrashMoves DEF Crash
<1> QED
  BY <1>3, <1>4, <1>5, <1>6, <1>7 DEF Fault

\* Every step keeps the types.
LEMMA TypeStep == TypeInv /\ [Next]_vars => TypeInv'
<1> SUFFICES ASSUME TypeInv, [Next]_vars PROVE TypeInv'
  OBVIOUS
<1>1. ASSUME NEW s \in Server, Take(s) PROVE TypeInv'
  BY <1>1, TakeStep
<1>2. ASSUME NEW s \in Server, CheckConsent(s) PROVE TypeInv'
  BY <1>2, CheckConsentMoves DEF Moved, TypeInv, TypeOK
<1>3. ASSUME NEW s \in Server, CheckKey(s) PROVE TypeInv'
  BY <1>3, CheckKeyMoves DEF Moved, TypeInv, TypeOK
<1>4. ASSUME NEW s \in Server, ClaimKey(s) PROVE TypeInv'
  BY <1>4, ClaimKeyMoves DEF Moved, TypeInv, TypeOK
<1>5. ASSUME NEW s \in Server, Send(s) PROVE TypeInv'
  BY <1>5, SendMoves DEF Moved, TypeInv, TypeOK
<1>6. ASSUME NEW s \in Server, LogNotification(s) PROVE TypeInv'
  BY <1>6, LogMoves DEF Moved, TypeInv, TypeOK
<1>7. ASSUME NEW s \in Server, Fault(s) PROVE TypeInv'
  BY <1>7, FaultMoves DEF Moved, TypeInv, TypeOK
<1>8. ASSUME NEW c \in Customer, NEW ch \in Contested, Object(c, ch) PROVE TypeInv'
  <2>1. consent' \in [Customer \X ConsentChannel -> ConsentState]
    BY <1>8 DEF Object, ConsentState, TypeInv, TypeOK
  <2> QED
    BY <1>8, <2>1 DEF Object, TypeInv, TypeOK, Busy
<1>9. CASE Tick
  <2>1. hour' \in 0..MaxHour
    BY <1>9, NotificationAssumption DEF Tick, TypeInv, TypeOK
  <2> QED
    BY <1>9, <2>1 DEF Tick, TypeInv, TypeOK, Busy
<1>10. CASE UNCHANGED vars
  BY <1>10 DEF vars, TypeInv, TypeOK, Busy
<1>11. ASSUME NEW c \in Customer, NEW ch \in Channel, EvictKey(c, ch) PROVE TypeInv'
  <2>1. keys' \in [Customer \X Channel -> Nat] /\ claims' \subseteq Claim
    BY <1>11 DEF EvictKey, TypeInv, TypeOK
  <2>2. faults' \in 0..MaxFaults
    BY <1>11, NotificationAssumption DEF EvictKey, TypeInv, TypeOK
  <2> QED
    BY <1>11, <2>1, <2>2 DEF EvictKey, TypeInv, TypeOK, Busy
<1> QED
  BY <1>1, <1>2, <1>3, <1>4, <1>5, <1>6, <1>7, <1>8, <1>9, <1>10, <1>11 DEF Next, Handle

LEMMA TypeInvariant == Spec => []TypeInv
<1>1. Init => TypeInv
  BY InitType
<1> QED
  BY <1>1, TypeStep, PTL DEF Spec

\* Every variable keeps its type, whatever the numbers of servers, calls,
\* customers and faults: the queue of a busy server is never exhausted, and no
\* two servers have the same call (notify_customer).
THEOREM TypeCorrect == Spec => []TypeOK
<1>1. TypeInv => TypeOK
  BY DEF TypeInv
<1> QED
  BY <1>1, TypeInvariant, PTL

-----------------------------------------------------------------------------
(* What the log says has happened.                                         *)

\* Between the sender and the log, the delivery is among those made.
LogInv ==
  /\ LoggedImpliesReached
  /\ \A s \in Server :
       (serve[s].at = "log" /\ serve[s].result \in {"delivered", "assigned"}) =>
         \E x \in reached : x.req = serve[s].req /\ x.chan = Chan(s)

\* No step undoes a delivery, and a new row is that of a server at "log".
LEMMA LogInvStep ==
  ASSUME TypeInv, LogInv, [Next]_vars PROVE LogInv'
<1> DEFINE Made(r, ch) == \E x \in reached : x.req = r /\ x.chan = ch
<1>1. ASSUME reached \subseteq reached', UNCHANGED log PROVE LoggedImpliesReached'
  BY <1>1 DEF LogInv, LoggedImpliesReached
<1>2. ASSUME NEW s \in Server, reached \subseteq reached',
             \A u \in Server \ {s} : serve'[u] = serve[u],
             \/ serve'[s].at # "log"
             \/ serve'[s].result \notin {"delivered", "assigned"}
             \/ \E x \in reached' : x.req = serve'[s].req /\ x.chan = Head(serve'[s].todo),
             LoggedImpliesReached'
      PROVE  LogInv'
  BY <1>2 DEF LogInv, Chan
<1>3. ASSUME NEW s \in Server, Take(s) PROVE LogInv'
  <2>1. UNCHANGED <<reached, log>> /\ serve[s].at = "idle"
    BY <1>3 DEF Take
  <2>2. /\ \A u \in Server \ {s} : serve'[u] = serve[u]
        /\ serve'[s].at \in {"idle", "consent"}
    BY <1>3, TakeFacts
  <2> QED
    BY <1>1, <1>2, <2>1, <2>2
<1>4. ASSUME NEW s \in Server, CheckConsent(s) PROVE LogInv'
  <2>0. serve[s] \in ServeState
    BY DEF TypeInv, TypeOK
  <2>1. Moved(s) /\ UNCHANGED <<reached, log>> /\ serve'[s].at # "log"
    BY <1>4, <2>0, CheckConsentMoves DEF ServeState
  <2> QED
    BY <1>1, <1>2, <2>1 DEF Moved
<1>5. ASSUME NEW s \in Server, CheckKey(s) PROVE LogInv'
  <2>1. Moved(s) /\ UNCHANGED <<reached, log>> /\ serve'[s].at # "log"
    BY <1>5, CheckKeyMoves DEF TypeInv, TypeOK, ServeState
  <2> QED
    BY <1>1, <1>2, <2>1 DEF Moved
<1>6. ASSUME NEW s \in Server, ClaimKey(s) PROVE LogInv'
  <2>0. serve[s] \in ServeState
    BY DEF TypeInv, TypeOK
  <2>1. Moved(s) /\ UNCHANGED <<reached, log>> /\ serve'[s].at # "log"
    BY <1>6, <2>0, ClaimKeyMoves DEF ServeState
  <2> QED
    BY <1>1, <1>2, <2>1 DEF Moved
<1>7. ASSUME NEW s \in Server, Send(s) PROVE LogInv'
  <2>1. Moved(s) /\ UNCHANGED log
    BY <1>7, SendMoves
  <2>2. reached \subseteq reached'
    BY <1>7, SendMoves DEF Reaches
  <2>3. \/ serve'[s].at # "log"
        \/ serve'[s].result \notin {"delivered", "assigned"}
        \/ \E x \in reached' : x.req = serve'[s].req /\ x.chan = Head(serve'[s].todo)
    <3>1. ASSUME Reaches(s), serve'[s].req = serve[s].req, serve'[s].todo = serve[s].todo
          PROVE  \E x \in reached' : x.req = serve'[s].req /\ x.chan = Head(serve'[s].todo)
      <4> DEFINE x == [req |-> serve[s].req, chan |-> Chan(s), at |-> hour,
                       sure |-> serve[s].sure]
      <4>1. x \in reached' /\ x.req = serve[s].req /\ x.chan = Head(serve[s].todo)
        BY <3>1 DEF Reaches, Chan
      <4> QED
        BY <3>1, <4>1
    <3> QED
      BY <1>7, <3>1, SendMoves
  <2> QED
    BY <1>1, <1>2, <2>1, <2>2, <2>3 DEF Moved
<1>8. ASSUME NEW s \in Server, LogNotification(s) PROVE LogInv'
  <2>1. /\ Moved(s) /\ UNCHANGED reached /\ serve'[s].at # "log" /\ serve[s].at = "log"
        /\ log' = [log EXCEPT ![Tried(s)] = serve[s].result]
    BY <1>8, LogMoves DEF LogNotification
  <2>2. ASSUME NEW p \in Request \X Channel, log'[p] \in {"delivered", "assigned"}
        PROVE  \E x \in reached' : x.req = p[1] /\ x.chan = p[2]
    <3>1. CASE p = Tried(s)
      <4>1. serve[s].result \in {"delivered", "assigned"}
        BY <2>1, <2>2, <3>1 DEF TypeInv, TypeOK
      <4> QED
        BY <2>1, <3>1, <4>1 DEF LogInv, Tried
    <3>2. CASE p # Tried(s)
      BY <2>1, <2>2, <3>2 DEF LogInv, LoggedImpliesReached, TypeInv, TypeOK
    <3> QED
      BY <3>1, <3>2
  <2>3. LoggedImpliesReached'
    BY <2>2 DEF LoggedImpliesReached
  <2> QED
    BY <1>2, <2>1, <2>3 DEF Moved
<1>9. ASSUME NEW s \in Server, Fault(s) PROVE LogInv'
  <2>1. Moved(s) /\ UNCHANGED log
    BY <1>9, FaultMoves
  <2>2. reached \subseteq reached'
    BY <1>9, FaultMoves DEF Reaches
  <2>3. serve'[s].at # "log" \/ serve'[s].result \notin {"delivered", "assigned"}
    BY <1>9, FaultMoves DEF TypeInv, TypeOK, ServeState
  <2> QED
    BY <1>1, <1>2, <2>1, <2>2, <2>3 DEF Moved
<1>10. ASSUME UNCHANGED <<serve, reached, log>> PROVE LogInv'
  BY <1>10 DEF LogInv, LoggedImpliesReached, Chan
<1> QED
  BY <1>3, <1>4, <1>5, <1>6, <1>7, <1>8, <1>9, <1>10 DEF Next, Handle, Object, EvictKey, Tick, vars

\* Through any interleaving of servers, errors and crashes, a row "delivered"
\* or "assigned" stands for a delivery that was made (_log_notification).
THEOREM LogIsTrue == Spec => []LoggedImpliesReached
<1>1. Init => LogInv
  BY DEF Init, LogInv, LoggedImpliesReached, Idle
<1>2. TypeInv /\ LogInv /\ [Next]_vars => LogInv'
  BY LogInvStep
<1>3. LogInv => LoggedImpliesReached
  BY DEF LogInv
<1> QED
  BY <1>1, <1>2, <1>3, TypeInvariant, PTL DEF Spec

-----------------------------------------------------------------------------
(* Refusals.                                                               *)

\* Only calls that were taken reach anybody.
Taken == \A x \in reached : requests[x.req].status # "new"

\* A refusal that a call found when it was taken still stands.
StillRefused ==
  \A r \in Request : \A ch \in requests[r].refused :
    consent[<<requests[r].cust, ch>>] = "refused"

\* A server that found consent for its channel found no refusal before the
\* call was taken either.
Asked ==
  \A s \in Server : (serve[s].at \in {"exists", "claim", "send"} /\ serve[s].sure) =>
    Chan(s) \notin requests[serve[s].req].refused

RefusalInv == Taken /\ StillRefused /\ Asked /\ RefusalHonoured

\* A server moves within its call, and what it sends is not refused.
LEMMA RefusalMoves ==
  ASSUME TypeInv, RefusalInv, NEW s \in Server, serve[s].at # "idle", Moved(s),
         UNCHANGED consent,
         (serve'[s].at \in {"exists", "claim", "send"} /\ serve'[s].sure) =>
            Head(serve'[s].todo) \notin requests'[serve'[s].req].refused,
         UNCHANGED reached \/ (Reaches(s) /\ serve[s].at = "send")
  PROVE  RefusalInv'
<1>1. \A r \in Request : /\ requests'[r].cust = requests[r].cust
                         /\ requests'[r].refused = requests[r].refused
  BY DEF Moved, SameCall
<1>2. \A x \in reached : x.req \in Request
  BY DEF TypeInv, TypeOK, Reach
<1>3. serve[s].req \in Request /\ requests[serve[s].req].status = "busy"
  BY DEF TypeInv, Busy
<1>4. ASSUME NEW x \in reached'
      PROVE  x \in reached \/ /\ x.req = serve[s].req /\ x.chan = Chan(s)
                              /\ x.sure = serve[s].sure /\ serve[s].at = "send"
  BY DEF Reaches
<1>5. Taken'
  BY <1>2, <1>3, <1>4 DEF Moved, RefusalInv, Taken
<1>6. StillRefused'
  BY <1>1 DEF RefusalInv, StillRefused
<1>7. Asked'
  <2> SUFFICES ASSUME NEW u \in Server,
                      serve'[u].at \in {"exists", "claim", "send"}, serve'[u].sure
               PROVE  Head(serve'[u].todo) \notin requests'[serve'[u].req].refused
    BY DEF Asked, Chan
  <2>1. CASE u = s
    BY <2>1
  <2>2. CASE u # s
    <3>1. serve'[u] = serve[u] /\ serve[u].req \in Request
      BY <2>2 DEF Moved, TypeInv, Busy
    <3> QED
      BY <1>1, <3>1 DEF RefusalInv, Asked, Chan
  <2> QED
    BY <2>1, <2>2
<1>8. RefusalHonoured'
  <2> SUFFICES ASSUME NEW x \in reached', x.sure
               PROVE  x.chan \notin requests'[x.req].refused
    BY DEF RefusalHonoured
  <2>1. CASE x \in reached
    BY <1>1, <1>2, <2>1 DEF RefusalInv, RefusalHonoured
  <2>2. CASE x \notin reached
    <3>1. /\ x.req = serve[s].req /\ x.chan = Chan(s) /\ x.sure = serve[s].sure
          /\ serve[s].at = "send"
      BY <1>4, <2>2
    <3> QED
      BY <1>1, <1>3, <3>1 DEF RefusalInv, Asked
  <2> QED
    BY <2>1, <2>2
<1> QED
  BY <1>5, <1>6, <1>7, <1>8 DEF RefusalInv

\* Taking a call notes the refusals that stand.
LEMMA RefusalTake ==
  ASSUME TypeInv, RefusalInv, NEW s \in Server, Take(s) PROVE RefusalInv'
<1>1. UNCHANGED <<consent, reached>> /\ serve[s].at = "idle"
  BY DEF Take
<1>2. /\ \A u \in Server \ {s} : serve'[u] = serve[u]
      /\ serve'[s].at \in {"idle", "consent"}
  BY TakeFacts
<1>3. PICK r \in Request :
        /\ requests[r].status = "new" /\ requests'[r].status # "new"
        /\ requests'[r].cust = requests[r].cust
        /\ \/ requests'[r].refused = requests[r].refused
           \/ requests'[r].refused = Objections(requests[r].cust, "refused")
        /\ \A q \in Request \ {r} : requests'[q] = requests[q]
  BY TakeFacts
<1>4. \A x \in reached : x.req \in Request \ {r}
  BY <1>3 DEF TypeInv, TypeOK, Reach, RefusalInv, Taken
<1>5. Taken'
  BY <1>1, <1>3, <1>4 DEF RefusalInv, Taken
<1>6. StillRefused'
  BY <1>1, <1>3 DEF RefusalInv, StillRefused, Objections
<1>7. Asked'
  <2> SUFFICES ASSUME NEW u \in Server,
                      serve'[u].at \in {"exists", "claim", "send"}, serve'[u].sure
               PROVE  Head(serve'[u].todo) \notin requests'[serve'[u].req].refused
    BY DEF Asked, Chan
  <2>1. u # s /\ serve'[u] = serve[u]
    BY <1>2
  <2>2. serve[u].req \in Request \ {r}
    BY <1>3, <2>1 DEF TypeInv, Busy
  <2> QED
    BY <1>3, <2>1, <2>2 DEF RefusalInv, Asked, Chan
<1>8. RefusalHonoured'
  BY <1>1, <1>3, <1>4 DEF RefusalInv, RefusalHonoured
<1> QED
  BY <1>5, <1>6, <1>7, <1>8 DEF RefusalInv

LEMMA RefusalStep ==
  ASSUME TypeInv, RefusalInv, [Next]_vars PROVE RefusalInv'
<1>0. \A s \in Server : serve[s] \in ServeState
  BY DEF TypeInv, TypeOK
<1>1. ASSUME NEW s \in Server, Take(s) PROVE RefusalInv'
  BY <1>1, RefusalTake
<1>2. ASSUME NEW s \in Server, CheckConsent(s) PROVE RefusalInv'
  <2>1. serve[s].at = "consent" /\ Moved(s) /\ UNCHANGED <<consent, reached>>
    BY <1>2, CheckConsentMoves DEF CheckConsent
  <2>2. CASE serve'[s].at \in {"idle", "consent"}
    BY <2>1, <2>2, RefusalMoves
  <2>3. CASE /\ serve'[s] = [serve[s] EXCEPT !.at = "exists"]
             /\ Consent(Key(s)) # "refused"
    <3>1. serve'[s].req = serve[s].req /\ serve'[s].todo = serve[s].todo
      BY <1>0, <2>3 DEF ServeState
    <3>2. serve[s].req \in Request /\ requests[serve[s].req] \in RequestState
      BY <2>1 DEF TypeInv, TypeOK, Busy
    <3>3. requests[serve[s].req].refused \subseteq ConsentChannel
      BY <3>2 DEF RequestState
    <3>4. Chan(s) \notin requests[serve[s].req].refused
      BY <2>3, <3>2, <3>3 DEF RefusalInv, StillRefused, Consent, Key, Cust
    <3>5. Head(serve'[s].todo) \notin requests'[serve'[s].req].refused
      BY <2>1, <3>1, <3>2, <3>4 DEF Moved, SameCall, Chan
    <3> QED
      BY <2>1, <3>5, RefusalMoves
  <2> QED
    BY <1>2, <2>2, <2>3, CheckConsentMoves
<1>3. ASSUME NEW s \in Server, serve[s].at \in {"exists", "claim"}, Moved(s),
             NEW a \in {"claim", "send"}, serve'[s] = [serve[s] EXCEPT !.at = a],
             UNCHANGED <<consent, reached>>
      PROVE  RefusalInv'
  <2>1. /\ serve'[s].req = serve[s].req /\ serve'[s].todo = serve[s].todo
        /\ serve'[s].sure = serve[s].sure
    BY <1>0, <1>3 DEF ServeState
  <2>2. serve[s].req \in Request
    BY <1>3 DEF TypeInv, Busy
  <2>3. serve[s].sure => Head(serve'[s].todo) \notin requests'[serve'[s].req].refused
    BY <1>3, <2>1, <2>2 DEF Moved, SameCall, RefusalInv, Asked, Chan
  <2> QED
    BY <1>3, <2>1, <2>3, RefusalMoves
<1>4. ASSUME NEW s \in Server, CheckKey(s) PROVE RefusalInv'
  <2>1. serve[s].at = "exists" /\ Moved(s) /\ UNCHANGED <<consent, reached>>
    BY <1>4, CheckKeyMoves DEF CheckKey
  <2>2. CASE serve'[s].at \in {"idle", "consent"}
    BY <2>1, <2>2, RefusalMoves
  <2> QED
    BY <1>3, <1>4, <2>1, <2>2, CheckKeyMoves
<1>5. ASSUME NEW s \in Server, ClaimKey(s) PROVE RefusalInv'
  <2>1. serve[s].at = "claim"
    BY <1>5 DEF ClaimKey
  <2> QED
    BY <1>3, <1>5, <2>1, ClaimKeyMoves
<1>6. ASSUME NEW s \in Server, Send(s) PROVE RefusalInv'
  <2>1. serve[s].at = "send" /\ Moved(s) /\ UNCHANGED consent
    BY <1>6, SendMoves DEF Send
  <2>2. serve'[s].at \in {"idle", "consent", "log"} /\ (UNCHANGED reached \/ Reaches(s))
    BY <1>6, SendMoves
  <2> QED
    BY <2>1, <2>2, RefusalMoves
<1>7. ASSUME NEW s \in Server, LogNotification(s) PROVE RefusalInv'
  BY <1>7, LogMoves, RefusalMoves
<1>8. ASSUME NEW s \in Server, Fault(s) PROVE RefusalInv'
  <2>1. serve[s].at # "idle" /\ Moved(s) /\ UNCHANGED consent
    BY <1>8, FaultMoves
       DEF Fault, ConsentFails, RedisFails, SendFails, LogFails, Crash
  <2>2. CASE serve'[s].at \in {"idle", "consent"} /\ UNCHANGED reached
    BY <2>1, <2>2, RefusalMoves
  <2>3. CASE serve'[s].at = "exists" /\ serve'[s].sure = FALSE /\ UNCHANGED reached
    BY <2>1, <2>3, RefusalMoves
  <2>4. CASE /\ serve'[s] = [serve[s] EXCEPT !.at = "send"] /\ UNCHANGED reached
             /\ serve[s].at \in {"exists", "claim"}
    BY <1>3, <2>1, <2>4
  <2>5. CASE /\ serve'[s].at = "log" /\ (Reaches(s) \/ UNCHANGED reached)
             /\ serve[s].at = "send"
    BY <2>1, <2>5, RefusalMoves
  <2> QED
    BY <1>8, <2>2, <2>3, <2>4, <2>5, FaultMoves
<1>9. ASSUME NEW c \in Customer, NEW ch \in Contested, Object(c, ch) PROVE RefusalInv'
  <2>1. UNCHANGED <<requests, serve, reached>>
    BY <1>9 DEF Object
  <2>2. \A p \in Customer \X ConsentChannel : consent[p] = "refused" => consent'[p] = "refused"
    BY <1>9 DEF Object, TypeInv, TypeOK
  <2>3. \A r \in Request : /\ requests[r].cust \in Customer
                           /\ requests[r].refused \subseteq ConsentChannel
    BY DEF TypeInv, TypeOK, RequestState
  <2>4. StillRefused'
    BY <2>1, <2>2, <2>3 DEF RefusalInv, StillRefused
  <2> QED
    BY <2>1, <2>4 DEF RefusalInv, Taken, Asked, RefusalHonoured, Chan
<1>10. ASSUME UNCHANGED <<requests, serve, reached, consent>> PROVE RefusalInv'
  BY <1>10 DEF RefusalInv, Taken, StillRefused, Asked, RefusalHonoured, Chan
<1> QED
  BY <1>1, <1>2, <1>4, <1>5, <1>6, <1>7, <1>8, <1>9, <1>10
     DEF Next, Handle, EvictKey, Tick, vars

\* A channel refused before a dispatch began is never used by it, however other
\* servers, faults and later objections interleave, except where the consent
\* query itself failed (_check_consent in dispatch_notification).
THEOREM RefusalsHold == Spec => []RefusalHonoured
<1>1. Init => RefusalInv
  <2> SUFFICES ASSUME Init PROVE RefusalInv
    OBVIOUS
  <2>1. reached = {} /\ \A r \in Request : requests[r].refused = {}
    BY DEF Init
  <2>2. \A s \in Server : serve[s].at = "idle"
    BY DEF Init, Idle
  <2> QED
    BY <2>1, <2>2 DEF RefusalInv, Taken, StillRefused, Asked, RefusalHonoured
<1>2. TypeInv /\ RefusalInv /\ [Next]_vars => RefusalInv'
  BY RefusalStep
<1>3. RefusalInv => RefusalHonoured
  BY DEF RefusalInv
<1> QED
  BY <1>1, <1>2, <1>3, TypeInvariant, PTL DEF Spec

-----------------------------------------------------------------------------
(* Cooldown keys.                                                          *)

\* The key a call claimed, and the servers that are about to claim a key.
KeyOf(x) == <<requests[x.req].cust, x.chan>>
Poised(p) == {s \in Server : serve[s].at = "claim" /\ Key(s) = p}

\* Every key claimed so far is held for its period at least.
Held == \A x \in claims : x.at <= hour /\ keys[KeyOf(x)] >= x.at + Hours

\* As long as a period lasts, its claims and the servers that may still add one are
\* no more than there are servers.
Room ==
  /\ IsFiniteSet(claims)
  /\ ClaimsBounded
  /\ \A x \in claims : hour < x.at + Hours =>
       Cardinality(Rush(x)) + Cardinality(Poised(KeyOf(x))) <= Cardinality(Server)

ClaimInv == Held /\ Room

\* The types of what is compared and counted.
LEMMA ClaimTypes ==
  ASSUME TypeInv, Room
  PROVE  /\ hour \in Nat /\ Hours \in Nat /\ Hours > 0
         /\ Cardinality(Server) \in Nat
         /\ \A x \in claims :
              /\ x.req \in Request /\ x.at \in Nat
              /\ KeyOf(x) \in Customer \X Channel /\ keys[KeyOf(x)] \in Nat
              /\ IsFiniteSet(Rush(x)) /\ Cardinality(Rush(x)) \in Nat
         /\ \A p : IsFiniteSet(Poised(p)) /\ Cardinality(Poised(p)) \in Nat
<1>1. hour \in Nat /\ Hours \in Nat /\ Hours > 0 /\ Cardinality(Server) \in Nat
  BY NotificationAssumption, FS_CardinalityType DEF TypeInv, TypeOK
<1>2. ASSUME NEW x \in claims
      PROVE  /\ x.req \in Request /\ x.at \in Nat
             /\ KeyOf(x) \in Customer \X Channel /\ keys[KeyOf(x)] \in Nat
  <2>1. x.req \in Request /\ x.at \in Nat /\ x.chan \in Channel
    BY NotificationAssumption DEF TypeInv, TypeOK, Claim
  <2>2. KeyOf(x) \in Customer \X Channel
    BY <2>1 DEF TypeInv, TypeOK, RequestState, KeyOf
  <2> QED
    BY <2>1, <2>2 DEF TypeInv, TypeOK
<1>3. \A x \in claims : IsFiniteSet(Rush(x))
  BY FS_Subset DEF Room, Rush
<1>4. \A p : IsFiniteSet(Poised(p))
  BY NotificationAssumption, FS_Subset DEF Poised
<1> QED
  BY <1>1, <1>2, <1>3, <1>4, FS_CardinalityType

\* Steps that claim nothing, and let no server come to a key that is held.
LEMMA ClaimIdles ==
  ASSUME TypeInv, ClaimInv, UNCHANGED <<keys, claims>>, hour' \in Int, hour' >= hour,
         \A r \in Request : requests'[r].cust = requests[r].cust,
         \A x \in claims : hour' < x.at + Hours => Poised(KeyOf(x))' \subseteq Poised(KeyOf(x))
  PROVE  ClaimInv'
<1>0. Held /\ Room
  BY DEF ClaimInv
<1>1. /\ hour \in Nat /\ Hours \in Nat /\ Cardinality(Server) \in Nat
      /\ \A x \in claims : x.req \in Request /\ x.at \in Nat /\ Cardinality(Rush(x)) \in Nat
      /\ \A p : IsFiniteSet(Poised(p)) /\ Cardinality(Poised(p)) \in Nat
  BY <1>0, ClaimTypes
<1>2. ASSUME NEW x \in claims
      PROVE  KeyOf(x)' = KeyOf(x) /\ Rush(x)' = Rush(x)
  BY <1>1, <1>2 DEF KeyOf, Rush, SameKey
<1>3. Held'
  BY <1>0, <1>1, <1>2 DEF Held
<1>4. ASSUME NEW x \in claims, hour' < x.at + Hours
      PROVE  Cardinality(Rush(x)) + Cardinality(Poised(KeyOf(x))') <= Cardinality(Server)
  <2> DEFINE P == Poised(KeyOf(x))
             Q == Poised(KeyOf(x))'
  <2>1. Cardinality(Rush(x)) + Cardinality(P) <= Cardinality(Server)
    BY <1>0, <1>1, <1>4 DEF Room
  <2>2. IsFiniteSet(P) /\ Q \subseteq P
    BY <1>1, <1>4
  <2> HIDE DEF P, Q
  <2>3. Cardinality(Q) <= Cardinality(P) /\ Cardinality(P) \in Nat /\ Cardinality(Q) \in Nat
    BY <2>2, FS_Subset, FS_CardinalityType
  <2>4. Cardinality(Rush(x)) + Cardinality(Q) <= Cardinality(Server)
    BY <1>1, <2>1, <2>3
  <2> QED
    BY <2>4 DEF Q
<1>5. Room'
  <2>1. \A x \in claims : (Poised(KeyOf(x)))' = Poised(KeyOf(x))'
    OBVIOUS
  <2> QED
    BY <1>0, <1>2, <1>4, <2>1 DEF Room, ClaimsBounded
<1> QED
  BY <1>3, <1>5 DEF ClaimInv

\* A step of a busy server other than ClaimKey.
LEMMA ClaimMoves ==
  ASSUME TypeInv, ClaimInv, NEW s \in Server, Moved(s), UNCHANGED <<hour, keys, claims>>,
         serve'[s].at = "claim" =>
           /\ serve'[s].req = serve[s].req /\ serve'[s].todo = serve[s].todo
           /\ keys[Key(s)] <= hour /\ serve[s].at # "idle"
  PROVE  ClaimInv'
<1>1. \A r \in Request : requests'[r].cust = requests[r].cust
  BY DEF Moved, SameCall
<1>2. /\ hour \in Nat /\ Hours \in Nat
      /\ \A x \in claims : x.req \in Request /\ x.at \in Nat /\ keys[KeyOf(x)] \in Nat
  BY ClaimTypes DEF ClaimInv
<1>3. ASSUME NEW x \in claims, hour < x.at + Hours, NEW u \in Server,
             serve'[u].at = "claim", (Key(u) = KeyOf(x))'
      PROVE  serve[u].at = "claim" /\ Key(u) = KeyOf(x)
  <2>1. KeyOf(x)' = KeyOf(x)
    BY <1>1, <1>2 DEF KeyOf
  <2>2. CASE u = s
    <3>1. Key(u)' = Key(s)
      BY <1>1, <1>3, <2>2, KeyType DEF Key, Cust, Chan
    <3>2. keys[KeyOf(x)] >= x.at + Hours
      BY DEF ClaimInv, Held
    <3>3. KeyOf(x) = Key(s)
      BY <1>3, <2>1, <3>1
    <3>4. keys[Key(s)] <= hour
      BY <1>3, <2>2
    <3> QED
      BY <1>2, <1>3, <3>2, <3>3, <3>4
  <2>3. CASE u # s
    <3>1. serve'[u] = serve[u] /\ serve[u].req \in Request
      BY <1>3, <2>3 DEF Moved, TypeInv, Busy
    <3> QED
      BY <1>1, <1>3, <2>1, <3>1 DEF Key, Cust, Chan
  <2> QED
    BY <2>2, <2>3
<1>4. \A x \in claims : hour' < x.at + Hours => Poised(KeyOf(x))' \subseteq Poised(KeyOf(x))
  BY <1>3 DEF Poised
<1>5. hour' \in Int /\ hour' >= hour
  BY <1>2
<1> QED
  BY <1>1, <1>4, <1>5, ClaimIdles

\* The claim itself takes the place of the server that was about to make it.
LEMMA ClaimClaims ==
  ASSUME TypeInv, ClaimInv, NEW s \in Server, ClaimKey(s) PROVE ClaimInv'
<1> PICK y, k : /\ y = [req |-> serve[s].req, chan |-> Chan(s), at |-> hour]
                /\ k = Key(s)
  OBVIOUS
<1>0. Held /\ Room
  BY DEF ClaimInv
<1>1. /\ serve[s].at = "claim" /\ UNCHANGED <<hour, requests>>
      /\ keys' = [keys EXCEPT ![k] = hour + Hours]
      /\ claims' = claims \cup {y}
  BY DEF ClaimKey
<1>2. k \in Customer \X Channel /\ serve[s].req \in Request
  BY <1>1, KeyType
<1>3. /\ hour \in Nat /\ Hours \in Nat /\ Hours > 0 /\ Cardinality(Server) \in Nat
      /\ keys \in [Customer \X Channel -> Nat]
      /\ \A x \in claims :
           /\ x.req \in Request /\ x.at \in Nat
           /\ KeyOf(x) \in Customer \X Channel /\ keys[KeyOf(x)] \in Nat
           /\ IsFiniteSet(Rush(x)) /\ Cardinality(Rush(x)) \in Nat
           /\ x.at <= hour /\ keys[KeyOf(x)] >= x.at + Hours
      /\ \A p : IsFiniteSet(Poised(p)) /\ Cardinality(Poised(p)) \in Nat
  BY <1>0, ClaimTypes DEF TypeInv, TypeOK, Held
<1>4. y.at = hour /\ KeyOf(y) = k
  BY DEF Key, KeyOf, Cust
<1>5. keys'[k] = hour + Hours
      /\ \A p \in Customer \X Channel : p # k => keys'[p] = keys[p]
  BY <1>1, <1>2, <1>3
<1>6. \A x, z : (SameKey(x, z) <=> KeyOf(x) = KeyOf(z))
  BY DEF SameKey, KeyOf
<1>7. \A x : KeyOf(x)' = KeyOf(x)
  BY <1>1 DEF KeyOf
<1>keys. \A x, z : KeyOf(x) = KeyOf(z) <=>
                   requests[x.req].cust = requests[z.req].cust /\ x.chan = z.chan
  BY DEF KeyOf
<1>8. Held'
  <2> SUFFICES ASSUME NEW x \in claims'
               PROVE  x.at <= hour /\ keys'[KeyOf(x)] >= x.at + Hours
    BY <1>1, <1>7 DEF Held
  <2>1. CASE x = y
    BY <1>3, <1>4, <1>5, <2>1
  <2>2. CASE x \in claims
    <3>1. /\ x.at \in Nat /\ x.at <= hour /\ KeyOf(x) \in Customer \X Channel
          /\ keys[KeyOf(x)] >= x.at + Hours
      BY <1>3, <2>2
    <3>2. keys'[KeyOf(x)] = hour + Hours \/ keys'[KeyOf(x)] = keys[KeyOf(x)]
      BY <1>5, <3>1
    <3> QED
      BY <1>3, <3>1, <3>2
  <2> QED
    BY <1>1, <2>1, <2>2
<1>9. \A p : Poised(p)' = Poised(p) \ {s}
  <2>1. serve[s] \in ServeState
    BY DEF TypeInv, TypeOK
  <2>2. serve'[s].at = "send" /\ \A u \in Server \ {s} : serve'[u] = serve[u]
    BY <2>1, ClaimKeyMoves DEF ServeState, Moved
  <2>3. \A u \in Server \ {s} : Key(u)' = Key(u)
    BY <1>1, <2>2 DEF Key, Cust, Chan
  <2> QED
    BY <2>2, <2>3 DEF Poised
<1>10. s \in Poised(k)
  BY <1>1 DEF Poised
<1>11. ASSUME NEW x \in claims
       PROVE  /\ IsFiniteSet(Rush(x)') /\ Cardinality(Rush(x)') <= Cardinality(Server)
              /\ hour < x.at + Hours =>
                   Cardinality(Rush(x)') + Cardinality(Poised(KeyOf(x)) \ {s})
                     <= Cardinality(Server)
  <2> DEFINE R == Rush(x)
             P == Poised(KeyOf(x))
             Q == Poised(KeyOf(x)) \ {s}
  <2>1. /\ IsFiniteSet(R) /\ Cardinality(R) \in Nat /\ Cardinality(R) <= Cardinality(Server)
        /\ hour < x.at + Hours => Cardinality(R) + Cardinality(P) <= Cardinality(Server)
        /\ IsFiniteSet(P) /\ Cardinality(P) \in Nat
    BY <1>0, <1>3 DEF Room, ClaimsBounded
  <2>2. CASE KeyOf(x) = k /\ hour < x.at + Hours
    <3>1. Rush(x)' = R \cup {y}
      BY <1>1, <1>3, <1>4, <1>6, <1>7, <2>2 DEF Rush, SameKey
    <3>2. s \in P
      BY <1>10, <2>2
    <3> HIDE DEF R, P
    <3>3. /\ IsFiniteSet(R \cup {y})
          /\ Cardinality(R \cup {y}) = Cardinality(R) \/ Cardinality(R \cup {y}) = Cardinality(R) + 1
      BY <2>1, FS_AddElement
    <3>4. IsFiniteSet(P \ {s}) /\ Cardinality(P \ {s}) = Cardinality(P) - 1
      BY <2>1, <3>2, FS_RemoveElement
    <3>5. Cardinality(P \ {s}) \in Nat
      BY <3>4, FS_CardinalityType
    <3>6. /\ IsFiniteSet(R \cup {y}) /\ Cardinality(R \cup {y}) <= Cardinality(Server)
          /\ Cardinality(R \cup {y}) + Cardinality(P \ {s}) <= Cardinality(Server)
      BY <1>3, <2>1, <2>2, <3>3, <3>4, <3>5
    <3> QED
      BY <3>1, <3>6 DEF P
  <2>3. CASE ~(KeyOf(x) = k /\ hour < x.at + Hours)
    <3>1. Rush(x)' = R
      BY <1>1, <1>3, <1>4, <1>6, <1>7, <2>3 DEF Rush, SameKey
    <3> HIDE DEF R, P
    <3>2. Cardinality(P \ {s}) <= Cardinality(P) /\ Cardinality(P \ {s}) \in Nat
      BY <2>1, FS_Subset, FS_CardinalityType
    <3>3. /\ IsFiniteSet(R) /\ Cardinality(R) <= Cardinality(Server)
          /\ hour < x.at + Hours =>
               Cardinality(R) + Cardinality(P \ {s}) <= Cardinality(Server)
      BY <1>3, <2>1, <3>2
    <3> QED
      BY <3>1, <3>3 DEF P
  <2> QED
    BY <2>2, <2>3
<1>12. /\ Cardinality(Rush(y)') <= Cardinality(Server)
       /\ Cardinality(Rush(y)') + Cardinality(Poised(k) \ {s}) <= Cardinality(Server)
  <2>1. CASE \E z \in claims : KeyOf(z) = k /\ z.at = hour
    <3>1. PICK z \in claims : KeyOf(z) = k /\ z.at = hour
      BY <2>1
    <3>2. Rush(y)' = Rush(z)'
      BY <1>1, <1>4, <1>keys, <3>1 DEF Rush, SameKey
    <3>3. hour < z.at + Hours
      BY <1>3, <3>1
    <3> QED
      BY <1>11, <3>1, <3>2, <3>3
  <2>2. CASE ~\E z \in claims : KeyOf(z) = k /\ z.at = hour
    <3>1. ASSUME NEW z \in Rush(y)' PROVE z = y
      <4>1. z \in claims' /\ KeyOf(z) = k /\ z.at >= hour
        BY <1>1, <1>4, <1>keys, <3>1 DEF Rush, SameKey
      <4>2. CASE z \in claims
        <5>1. z.at = hour
          BY <1>3, <4>1, <4>2
        <5> QED
          BY <2>2, <4>1, <4>2, <5>1
      <4> QED
        BY <1>1, <4>1, <4>2
    <3>2. Rush(y)' \subseteq {y} /\ IsFiniteSet({y}) /\ Cardinality({y}) = 1
      BY <3>1, FS_Singleton
    <3> DEFINE R == Rush(y)'
               P == Poised(k)
    <3> HIDE DEF R, P
    <3>3. Cardinality(R) <= 1 /\ Cardinality(R) \in Nat
      BY <3>2, FS_Subset, FS_CardinalityType DEF R
    <3>4. P \ {s} \subseteq Server \ {s}
      BY DEF P, Poised
    <3>5. IsFiniteSet(Server \ {s}) /\ Cardinality(Server \ {s}) = Cardinality(Server) - 1
      BY NotificationAssumption, FS_RemoveElement
    <3>6. Cardinality(P \ {s}) <= Cardinality(Server \ {s}) /\ Cardinality(P \ {s}) \in Nat
      BY <3>4, <3>5, FS_Subset, FS_CardinalityType
    <3>7. Cardinality(R) <= Cardinality(Server)
            /\ Cardinality(R) + Cardinality(P \ {s}) <= Cardinality(Server)
      BY <1>3, <3>3, <3>5, <3>6
    <3> QED
      BY <3>7 DEF R, P
  <2> QED
    BY <2>1, <2>2
<1>13. Room'
  <2>1. IsFiniteSet(claims')
    BY <1>0, <1>1, FS_AddElement DEF Room
  <2>2. ASSUME NEW x \in claims'
        PROVE  /\ Cardinality(Rush(x)') <= Cardinality(Server)
               /\ hour < x.at + Hours =>
                    Cardinality(Rush(x)') + Cardinality(Poised(KeyOf(x))') <= Cardinality(Server)
    <3>1. Poised(KeyOf(x))' = Poised(KeyOf(x)) \ {s}
      BY <1>7, <1>9 DEF Poised
    <3>2. CASE x = y
      BY <1>4, <1>12, <3>1, <3>2
    <3>3. CASE x \in claims
      BY <1>11, <3>1, <3>3
    <3> QED
      BY <1>1, <3>2, <3>3
  <2> QED
    BY <1>1, <2>1, <2>2 DEF Room, ClaimsBounded
<1> QED
  BY <1>8, <1>13 DEF ClaimInv

\* A key that is evicted takes its claims along.
LEMMA ClaimEvicts ==
  ASSUME TypeInv, ClaimInv, NEW c \in Customer, NEW ch \in Channel, EvictKey(c, ch)
  PROVE  ClaimInv'
<1>0. Held /\ Room
  BY DEF ClaimInv
<1>1. /\ keys' = [keys EXCEPT ![<<c, ch>>] = 0] /\ UNCHANGED <<hour, requests, serve>>
      /\ claims' = {x \in claims : requests[x.req].cust # c \/ x.chan # ch}
  BY DEF EvictKey
<1>2. /\ keys \in [Customer \X Channel -> Nat]
      /\ \A p \in Customer \X Channel : p # <<c, ch>> => keys'[p] = keys[p]
  BY <1>1 DEF TypeInv, TypeOK
<1>3. /\ hour \in Nat /\ Hours \in Nat /\ Cardinality(Server) \in Nat
      /\ \A x \in claims :
           /\ x.at \in Nat /\ KeyOf(x) \in Customer \X Channel
           /\ IsFiniteSet(Rush(x)) /\ Cardinality(Rush(x)) \in Nat
      /\ \A p : Cardinality(Poised(p)) \in Nat
  BY <1>0, ClaimTypes
<1>4. \A x : KeyOf(x)' = KeyOf(x)
  BY <1>1 DEF KeyOf
<1>5. Held'
  <2> SUFFICES ASSUME NEW x \in claims'
               PROVE  x.at <= hour /\ keys'[KeyOf(x)] >= x.at + Hours
    BY <1>1, <1>4 DEF Held
  <2>1. x \in claims /\ KeyOf(x) # <<c, ch>>
    BY <1>1 DEF KeyOf
  <2> QED
    BY <1>0, <1>2, <1>3, <2>1 DEF Held
<1>6. \A p : Poised(p)' = Poised(p)
  BY <1>1 DEF Poised, Key, Cust, Chan
<1>7. ASSUME NEW x \in claims'
      PROVE  x \in claims /\ Cardinality(Rush(x)') \in Nat
               /\ Cardinality(Rush(x)') <= Cardinality(Rush(x))
  <2>1. x \in claims /\ Rush(x)' \subseteq Rush(x) /\ IsFiniteSet(Rush(x))
    BY <1>1, <1>3 DEF Rush, SameKey
  <2> DEFINE R == Rush(x)'
  <2> HIDE DEF R
  <2>2. Cardinality(R) \in Nat /\ Cardinality(R) <= Cardinality(Rush(x))
    BY <2>1, FS_Subset, FS_CardinalityType DEF R
  <2> QED
    BY <2>1, <2>2 DEF R
<1>8. Room'
  <2>1. claims' \subseteq claims
    BY <1>1
  <2>2. IsFiniteSet(claims')
    BY <1>0, <2>1, FS_Subset DEF Room
  <2>3. ASSUME NEW x \in claims' PROVE Cardinality(Rush(x)') <= Cardinality(Server)
    BY <1>0, <1>3, <1>7, <2>3 DEF Room, ClaimsBounded
  <2>4. ASSUME NEW x \in claims', hour < x.at + Hours
        PROVE  Cardinality(Rush(x)') + Cardinality(Poised(KeyOf(x))) <= Cardinality(Server)
    BY <1>0, <1>3, <1>7, <2>4 DEF Room
  <2> QED
    BY <1>1, <1>4, <1>6, <2>2, <2>3, <2>4 DEF Room, ClaimsBounded
<1> QED
  BY <1>5, <1>8 DEF ClaimInv

LEMMA ClaimStep ==
  ASSUME TypeInv, ClaimInv, [Next]_vars PROVE ClaimInv'
<1>0. (\A s \in Server : serve[s] \in ServeState) /\ hour \in Int
  BY DEF TypeInv, TypeOK
<1>1. ASSUME NEW s \in Server, Take(s) PROVE ClaimInv'
  <2>1. UNCHANGED <<keys, claims, hour>> /\ hour' \in Int /\ hour' >= hour
    BY <1>0, <1>1 DEF Take
  <2>2. \A r \in Request : requests'[r].cust = requests[r].cust
    BY <1>1, TakeFacts
  <2>3. ASSUME NEW x \in claims PROVE Poised(KeyOf(x))' \subseteq Poised(KeyOf(x))
    <3>1. x.req \in Request
      BY DEF TypeInv, TypeOK, Claim
    <3>2. KeyOf(x)' = KeyOf(x)
      BY <2>2, <3>1 DEF KeyOf
    <3>3. ASSUME NEW u \in Server, serve'[u].at = "claim"
          PROVE  serve[u].at = "claim" /\ Key(u)' = Key(u)
      <4>1. serve'[u] = serve[u]
        BY <1>1, <3>3, TakeFacts
      <4>2. serve[u].req \in Request
        BY <3>3, <4>1, KeyType
      <4> QED
        BY <2>2, <3>3, <4>1, <4>2 DEF Key, Cust, Chan
    <3> QED
      BY <3>2, <3>3 DEF Poised
  <2> QED
    BY <2>1, <2>2, <2>3, ClaimIdles
<1>2. ASSUME NEW s \in Server, CheckConsent(s) PROVE ClaimInv'
  <2>1. serve'[s].at # "claim"
    BY <1>0, <1>2, CheckConsentMoves DEF ServeState
  <2> QED
    BY <1>2, <2>1, CheckConsentMoves, ClaimMoves
<1>3. ASSUME NEW s \in Server, CheckKey(s) PROVE ClaimInv'
  <2>1. Moved(s) /\ UNCHANGED <<hour, keys, claims>>
    BY <1>3, CheckKeyMoves
  <2>2. CASE serve'[s].at \in {"idle", "consent"}
    BY <2>1, <2>2, ClaimMoves
  <2>3. CASE /\ serve'[s] = [serve[s] EXCEPT !.at = "claim"]
             /\ serve[s].at = "exists" /\ ~(keys[Key(s)] > hour)
    <3>1. Key(s) \in Customer \X Channel
      BY <2>3, KeyType
    <3>2. keys[Key(s)] \in Int
      BY <3>1 DEF TypeInv, TypeOK
    <3>3. keys[Key(s)] <= hour
      BY <1>0, <2>3, <3>2
    <3>4. serve'[s].req = serve[s].req /\ serve'[s].todo = serve[s].todo
      BY <1>0, <2>3 DEF ServeState
    <3> QED
      BY <2>1, <2>3, <3>3, <3>4, ClaimMoves
  <2> QED
    BY <1>3, <2>2, <2>3, CheckKeyMoves
<1>4. ASSUME NEW s \in Server, ClaimKey(s) PROVE ClaimInv'
  BY <1>4, ClaimClaims
<1>5. ASSUME NEW s \in Server, Send(s) PROVE ClaimInv'
  <2>1. serve'[s].at # "claim"
    BY <1>5, SendMoves
  <2> QED
    BY <1>5, <2>1, SendMoves, ClaimMoves
<1>6. ASSUME NEW s \in Server, LogNotification(s) PROVE ClaimInv'
  <2>1. serve'[s].at # "claim"
    BY <1>6, LogMoves
  <2> QED
    BY <1>6, <2>1, LogMoves, ClaimMoves
<1>7. ASSUME NEW s \in Server, Fault(s) PROVE ClaimInv'
  <2>1. serve'[s].at # "claim"
    BY <1>0, <1>7, FaultMoves DEF ServeState
  <2> QED
    BY <1>7, <2>1, FaultMoves, ClaimMoves
<1>8. ASSUME UNCHANGED <<requests, serve, keys, claims>>, hour' \in Int, hour' >= hour
      PROVE  ClaimInv'
  <2>1. \A x \in claims : Poised(KeyOf(x))' = Poised(KeyOf(x))
    BY <1>8 DEF Poised, KeyOf, Key, Cust, Chan
  <2> QED
    BY <1>8, <2>1, ClaimIdles
<1>9. ASSUME NEW c \in Customer, NEW ch \in Contested, Object(c, ch) PROVE ClaimInv'
  BY <1>0, <1>8, <1>9 DEF Object
<1>10. CASE Tick
  BY <1>0, <1>8, <1>10 DEF Tick
<1>11. CASE UNCHANGED vars
  BY <1>0, <1>8, <1>11 DEF vars
<1> QED
  BY <1>1, <1>2, <1>3, <1>4, <1>5, <1>6, <1>7, <1>9, <1>10, <1>11, ClaimEvicts
     DEF Next, Handle

\* For any period and any numbers of servers, calls and customers, through any errors,
\* crashes and races: within a cooldown period no more calls claim the key of one
\* customer and channel than there are servers, unless Redis evicted the key
\* (_check_cooldown).
THEOREM ServersBoundClaims == Spec => []ClaimsBounded
<1>1. Init => ClaimInv
  BY FS_EmptySet DEF Init, ClaimInv, Held, Room, ClaimsBounded
<1>2. TypeInv /\ ClaimInv /\ [Next]_vars => ClaimInv'
  BY ClaimStep
<1>3. ClaimInv => ClaimsBounded
  BY DEF ClaimInv, Room
<1>4. Spec => []TypeInv
  BY TypeInvariant
<1> QED
  BY <1>1, <1>2, <1>3, <1>4, PTL DEF Spec

-----------------------------------------------------------------------------
(* Once per call and channel.                                              *)

Distinct(q) == \A i, j \in DOMAIN q : q[i] = q[j] => i = j

\* The channels a server still has to try are different ones, and its call has
\* used none of them, but for the one it is about to log.
OnceInv ==
  /\ \A s \in Server : serve[s].at # "idle" => Distinct(serve[s].todo)
  /\ \A s \in Server : serve[s].at # "idle" =>
       \A x \in reached : \A i \in DOMAIN serve[s].todo :
         (x.req = serve[s].req /\ x.chan = serve[s].todo[i])
           => i = 1 /\ serve[s].at = "log"
  /\ ReachedOnce

\* No channel is routed twice.
LEMMA RoutingDistinct ==
  ASSUME NEW n \in 0..100 PROVE Distinct(Routing(n))
<1>1. n < 30 \/ (n >= 30 /\ n < 50) \/ (n >= 50 /\ n < 65) \/ (n >= 65 /\ n < 75)
        \/ (n >= 75 /\ n < 85) \/ n >= 85
  OBVIOUS
<1>2. Distinct(<<>>)
  BY DEF Distinct
<1>3. ASSUME NEW a, NEW b, a # b PROVE Distinct(<<a, b>>)
  BY <1>3 DEF Distinct
<1>4. ASSUME NEW a, NEW b, NEW c, a # b, a # c, b # c PROVE Distinct(<<a, b, c>>)
  BY <1>4 DEF Distinct
<1>5. CASE n < 30
  <2>1. Routing(n) = <<>>
    BY <1>5, n \in Int DEF Routing
  <2> QED
    BY <1>2, <2>1
<1>6. CASE n >= 30 /\ n < 50
  <2>1. Routing(n) = <<"app_push", "sms">>
    BY <1>6, n \in Int DEF Routing
  <2> QED
    BY <1>3, <2>1
<1>7. CASE n >= 50 /\ n < 65
  <2>1. Routing(n) = <<"sms", "whatsapp", "app_push">>
    BY <1>7, n \in Int DEF Routing
  <2> QED
    BY <1>4, <2>1
<1>8. CASE n >= 65 /\ n < 75
  <2>1. Routing(n) = <<"email", "sms", "whatsapp">>
    BY <1>8, n \in Int DEF Routing
  <2> QED
    BY <1>4, <2>1
<1>9. CASE n >= 75 /\ n < 85
  <2>1. Routing(n) = <<"rm_call", "email", "sms">>
    BY <1>9, n \in Int DEF Routing
  <2> QED
    BY <1>4, <2>1
<1>10. CASE n >= 85
  <2>1. Routing(n) = <<"collector_assignment", "rm_call", "email">>
    BY <1>10, n \in Int DEF Routing
  <2> QED
    BY <1>4, <2>1
<1> QED
  BY <1>1, <1>5, <1>6, <1>7, <1>8, <1>9, <1>10

\* The bandit's choice moves to the front, it is not tried twice.
LEMMA WithChoiceDistinct ==
  ASSUME NEW choice, NEW q \in Seq(Channel), Distinct(q)
  PROVE  Distinct(WithChoice(choice, q))
<1>0. <<choice>> \in Seq({choice}) /\ Len(<<choice>>) = 1 /\ <<choice>>[1] = choice
  OBVIOUS
<1>1. CASE choice = "none"
  BY <1>1 DEF WithChoice
<1>2. CASE choice # "none" /\ \A i \in DOMAIN q : q[i] # choice
  <2> DEFINE p == <<choice>> \o q
  <2>1. WithChoice(choice, q) = p
    BY <1>2 DEF WithChoice
  <2>2. /\ DOMAIN p = 1..(Len(q) + 1) /\ p[1] = choice
        /\ \A k \in 2..(Len(q) + 1) : p[k] = q[k-1] /\ k-1 \in DOMAIN q
    OBVIOUS
  <2> HIDE DEF p
  <2>3. Len(q) \in Nat
    OBVIOUS
  <2>4. ASSUME NEW i \in DOMAIN p, NEW j \in DOMAIN p, p[i] = p[j] PROVE i = j
    <3>1. CASE i = 1 \/ j = 1
      BY <1>2, <2>2, <2>3, <2>4, <3>1
    <3>2. CASE i \in 2..(Len(q) + 1) /\ j \in 2..(Len(q) + 1)
      <4>1. i - 1 = j - 1
        BY <2>2, <2>4, <3>2 DEF Distinct
      <4> QED
        BY <3>2, <4>1
    <3> QED
      BY <2>2, <2>3, <3>1, <3>2
  <2> QED
    BY <2>1, <2>4 DEF Distinct
<1>3. CASE choice # "none" /\ \E i \in DOMAIN q : q[i] = choice
  <2> DEFINE m == CHOOSE j \in DOMAIN q : q[j] = choice
             a == SubSeq(q, 1, m-1)
             b == SubSeq(q, m+1, Len(q))
             p == <<choice>> \o a \o b
  <2>1. m \in 1..Len(q) /\ q[m] = choice /\ Len(q) \in Nat
    BY <1>3
  <2>2. WithChoice(choice, q) = p
    BY <1>3 DEF WithChoice
  <2> HIDE DEF m
  <2>3. /\ a \in Seq(Channel) /\ Len(a) = m-1 /\ \A k \in 1..(m-1) : a[k] = q[k]
        /\ b \in Seq(Channel) /\ Len(b) = Len(q)-m /\ \A k \in 1..(Len(q)-m) : b[k] = q[m+k]
    BY <2>1
  <2> HIDE DEF a, b
  <2> DEFINE e == <<choice>> \o a
  <2>a. /\ e \in Seq({choice} \cup Channel) /\ Len(e) = m /\ e[1] = choice
        /\ \A k \in 2..m : e[k] = q[k-1]
    BY <2>1, <2>3
  <2>b. p = e \o b
    OBVIOUS
  <2> HIDE DEF e, p
  <2>c. b \in Seq({choice} \cup Channel)
    BY <2>3
  <2>d. /\ DOMAIN p = 1..(Len(e) + Len(b))
        /\ \A k \in 1..Len(e) : p[k] = e[k]
        /\ \A k \in 1..Len(b) : p[Len(e) + k] = b[k]
    BY <2>a, <2>b, <2>c
  <2>4. DOMAIN p = 1..Len(q) /\ p[1] = choice
    BY <2>1, <2>3, <2>a, <2>d
  <2>5. \A k \in 2..m : p[k] = q[k-1]
    BY <2>1, <2>a, <2>d
  <2>6. \A k \in (m+1)..Len(q) : p[k] = q[k]
    <3>1. ASSUME NEW k \in (m+1)..Len(q) PROVE p[k] = q[k]
      <4>1. k - m \in 1..Len(b) /\ Len(e) + (k - m) = k /\ m + (k - m) = k
        BY <2>1, <2>3, <2>a
      <4> QED
        BY <2>1, <2>3, <2>d, <4>1
    <3> QED
      BY <3>1
  <2> DEFINE at(k) == IF k = 1 THEN m ELSE IF k <= m THEN k-1 ELSE k
  <2>7. \A k \in 1..Len(q) : at(k) \in 1..Len(q) /\ p[k] = q[at(k)]
    BY <2>1, <2>4, <2>5, <2>6
  <2>8. \A i, j \in 1..Len(q) : at(i) = at(j) => i = j
    BY <2>1
  <2> HIDE DEF at
  <2>9. ASSUME NEW i \in DOMAIN p, NEW j \in DOMAIN p, p[i] = p[j] PROVE i = j
    <3>1. q[at(i)] = q[at(j)] /\ at(i) \in DOMAIN q /\ at(j) \in DOMAIN q
      BY <2>4, <2>7, <2>9
    <3>2. at(i) = at(j)
      BY <3>1 DEF Distinct
    <3> QED
      BY <2>4, <2>8, <3>2
  <2> QED
    BY <2>2, <2>9 DEF Distinct
<1> QED
  BY <1>1, <1>2, <1>3

\* A server is done with its call, has gone on to the next channel, or stays
\* with the current one; only its sender reaches the customer.
LEMMA Shifts ==
  ASSUME TypeInv, NEW s \in Server, Handle(s) \/ Fault(s)
  PROVE  /\ serve[s].at # "idle"
         /\ \A u \in Server \ {s} : serve'[u] = serve[u]
         /\ \/ serve'[s].at = "idle" /\ UNCHANGED reached
            \/ /\ serve'[s].req = serve[s].req /\ serve'[s].todo = Tail(serve[s].todo)
               /\ UNCHANGED reached
            \/ /\ serve'[s].req = serve[s].req /\ serve'[s].todo = serve[s].todo
               /\ serve[s].at # "log"
               /\ UNCHANGED reached \/ (Reaches(s) /\ serve'[s].at = "log")
<1>0. serve[s] \in ServeState
  BY DEF TypeInv, TypeOK
<1>1. serve[s].at # "idle"
  BY DEF Handle, CheckConsent, CheckKey, ClaimKey, Send, LogNotification, Fault,
         ConsentFails, RedisFails, SendFails, LogFails, Crash
<1>2. Moved(s)
  BY CheckConsentMoves, CheckKeyMoves, ClaimKeyMoves, SendMoves, LogMoves, FaultMoves
     DEF Handle
<1>3. NextChannel(s) => \/ serve'[s].at = "idle"
                        \/ /\ serve'[s].req = serve[s].req
                           /\ serve'[s].todo = Tail(serve[s].todo)
  <2>1. ASSUME serve' = [serve EXCEPT ![s] = Idle] PROVE serve'[s].at = "idle"
    BY <2>1 DEF Idle, TypeInv, TypeOK
  <2>2. ASSUME serve' = [serve EXCEPT ![s] = [Idle EXCEPT !.at = "consent",
                           !.req = serve[s].req, !.todo = Tail(serve[s].todo)]]
        PROVE  serve'[s].req = serve[s].req /\ serve'[s].todo = Tail(serve[s].todo)
    BY <2>2 DEF Idle, TypeInv, TypeOK
  <2> QED
    BY <2>1, <2>2 DEF NextChannel
<1>4. ASSUME NEW a, serve' = [serve EXCEPT ![s].at = a]
      PROVE  serve'[s].at = a /\ serve'[s].req = serve[s].req
               /\ serve'[s].todo = serve[s].todo
  BY <1>0, <1>4 DEF TypeInv, TypeOK, ServeState
<1>5. ASSUME NEW l, ToLog(s, l)
      PROVE  serve'[s].at = "log" /\ serve'[s].req = serve[s].req
               /\ serve'[s].todo = serve[s].todo
  BY <1>0, <1>5 DEF ToLog, TypeInv, TypeOK, ServeState
<1>6. CASE CheckConsent(s) \/ CheckKey(s) \/ ClaimKey(s)
  BY <1>1, <1>2, <1>3, <1>4, <1>6 DEF CheckConsent, CheckKey, ClaimKey, Moved
<1>7. CASE Send(s)
  BY <1>1, <1>2, <1>3, <1>5, <1>7 DEF Send, Moved
<1>8. CASE LogNotification(s) \/ LogFails(s)
  BY <1>1, <1>2, <1>3, <1>8 DEF LogNotification, LogFails, Moved
<1>9. CASE ConsentFails(s)
  BY <1>1, <1>2, <1>9, UnsureMoves DEF ConsentFails, Moved
<1>10. CASE RedisFails(s)
  BY <1>1, <1>2, <1>4, <1>10 DEF RedisFails, Moved
<1>11. CASE SendFails(s)
  BY <1>1, <1>2, <1>5, <1>11 DEF SendFails, Moved
<1>12. CASE Crash(s)
  <2>1. serve'[s].at = "idle"
    BY <1>12 DEF Crash, Idle, TypeInv, TypeOK
  <2> QED
    BY <1>1, <1>2, <1>12, <2>1 DEF Crash, Moved
<1> QED
  BY <1>6, <1>7, <1>8, <1>9, <1>10, <1>11, <1>12 DEF Handle, Fault

\* One step of a busy server.
LEMMA OnceMoves ==
  ASSUME TypeInv, TypeInv', OnceInv, NEW s \in Server, Handle(s) \/ Fault(s)
  PROVE  OnceInv'
<1> DEFINE q == serve[s].todo
           Unused(u) == \A x \in reached : \A i \in DOMAIN serve[u].todo :
                        (x.req = serve[u].req /\ x.chan = serve[u].todo[i])
                          => i = 1 /\ serve[u].at = "log"
<1>1. serve[s].at # "idle" /\ \A u \in Server \ {s} : serve'[u] = serve[u]
  BY Shifts
<1>2. /\ serve[s] \in ServeState /\ q \in Seq(Channel) /\ q # <<>>
      /\ Distinct(q) /\ Unused(s)
  BY <1>1 DEF TypeInv, TypeOK, Busy, ServeState, OnceInv
<1>3. Len(q) \in Nat /\ DOMAIN q = 1..Len(q) /\ 1 \in DOMAIN q /\ Head(q) = q[1]
  BY <1>2
<1>4. UNCHANGED reached \/ (Reaches(s) /\ serve[s].at # "log")
  BY Shifts
<1>5. ASSUME NEW x \in reached', NEW y \in reached',
             x.req = y.req, x.chan = y.chan
      PROVE  x = y
  <2>1. CASE x \in reached /\ y \in reached
    BY <1>5, <2>1 DEF OnceInv, ReachedOnce
  <2>2. CASE Reaches(s) /\ serve[s].at # "log"
    <3> DEFINE n == [req |-> serve[s].req, chan |-> Chan(s), at |-> hour,
                     sure |-> serve[s].sure]
    <3>1. reached' = reached \cup {n}
      BY <2>2 DEF Reaches
    <3>2. n.req = serve[s].req /\ n.chan = q[1]
      BY <1>3 DEF Chan
    <3> HIDE DEF n
    <3>3. \A z \in reached : ~(z.req = n.req /\ z.chan = n.chan)
      BY <1>2, <1>3, <2>2, <3>2
    <3> QED
      BY <1>5, <2>1, <3>1, <3>3
  <2> QED
    BY <1>4, <2>1, <2>2
<1>6. ASSUME NEW u \in Server, u # s, serve'[u].at # "idle"
      PROVE  Distinct(serve'[u].todo) /\ Unused(u)'
  <2>1. serve'[u] = serve[u] /\ Distinct(serve[u].todo) /\ Unused(u)
    BY <1>1, <1>6 DEF OnceInv
  <2>2. serve[u].req # serve[s].req
    BY <1>1, <1>6, <2>1 DEF TypeInv, Busy
  <2>3. ASSUME NEW x \in reached', x.req = serve[u].req PROVE x \in reached
    <3>1. CASE UNCHANGED reached
      BY <3>1
    <3>2. CASE Reaches(s)
      <4> DEFINE n == [req |-> serve[s].req, chan |-> Chan(s), at |-> hour,
                       sure |-> serve[s].sure]
      <4>1. reached' = reached \cup {n} /\ n.req = serve[s].req
        BY <3>2 DEF Reaches
      <4> HIDE DEF n
      <4> QED
        BY <2>2, <2>3, <4>1
    <3> QED
      BY <1>4, <3>1, <3>2
  <2> QED
    BY <2>1, <2>3
<1>7. ASSUME serve'[s].at # "idle"
      PROVE  Distinct(serve'[s].todo) /\ Unused(s)'
  <2>1. CASE serve'[s].req = serve[s].req /\ serve'[s].todo = Tail(q) /\ UNCHANGED reached
    <3> DEFINE p == Tail(q)
    <3>1. /\ p \in Seq(Channel) /\ DOMAIN p = 1..(Len(q) - 1)
          /\ \A i \in 1..(Len(q) - 1) : p[i] = q[i+1] /\ i+1 \in DOMAIN q /\ i \in Nat
      BY <1>2, <1>3
    <3> HIDE DEF p, q
    <3>2. ASSUME NEW i \in DOMAIN p, NEW j \in DOMAIN p, p[i] = p[j] PROVE i = j
      <4>1. i + 1 = j + 1
        BY <1>2, <3>1, <3>2 DEF Distinct
      <4> QED
        BY <3>1, <4>1
    <3>3. ASSUME NEW x \in reached, NEW i \in DOMAIN p, x.req = serve[s].req, x.chan = p[i]
          PROVE  FALSE
      <4>1. i + 1 = 1
        BY <1>2, <3>1, <3>3 DEF q
      <4> QED
        BY <3>1, <4>1
    <3>4. serve'[s].todo = p
      BY <2>1 DEF p
    <3> QED
      BY <2>1, <3>2, <3>3, <3>4 DEF Distinct
  <2>2. CASE /\ serve'[s].req = serve[s].req /\ serve'[s].todo = q
             /\ serve[s].at # "log" /\ UNCHANGED reached
    BY <1>2, <2>2
  <2>3. CASE /\ serve'[s].req = serve[s].req /\ serve'[s].todo = q
             /\ serve[s].at # "log" /\ Reaches(s) /\ serve'[s].at = "log"
    <3> DEFINE n == [req |-> serve[s].req, chan |-> Chan(s), at |-> hour,
                     sure |-> serve[s].sure]
    <3>1. reached' = reached \cup {n} /\ n.chan = q[1]
      BY <1>3, <2>3 DEF Reaches, Chan
    <3> HIDE DEF n
    <3>2. ASSUME NEW x \in reached', NEW i \in DOMAIN q, x.req = serve[s].req, x.chan = q[i]
          PROVE  i = 1
      <4>1. x = n
        BY <1>2, <2>3, <3>1, <3>2
      <4> QED
        BY <1>2, <1>3, <3>1, <3>2, <4>1 DEF Distinct
    <3> QED
      BY <1>2, <2>3, <3>2
  <2> QED
    BY <1>7, <2>1, <2>2, <2>3, Shifts
<1> QED
  BY <1>5, <1>6, <1>7 DEF OnceInv, ReachedOnce

\* A call that is taken has reached nobody, and its channels are distinct.
LEMMA OnceTake ==
  ASSUME TypeInv, RefusalInv, OnceInv, NEW s \in Server, Take(s)
  PROVE  OnceInv'
<1>1. PICK r \in Request, choice \in Choice :
        /\ requests[r].status = "new"
        /\ \/ UNCHANGED serve
           \/ /\ Routing(requests[r].score) # <<>>
              /\ serve' = [serve EXCEPT ![s] =
                   [Idle EXCEPT !.at = "consent", !.req = r,
                      !.todo = WithChoice(choice, Routing(requests[r].score))]]
  BY DEF Take
<1>2. UNCHANGED reached
  BY DEF Take
<1>3. CASE UNCHANGED serve
  BY <1>2, <1>3 DEF OnceInv, ReachedOnce
<1>4. CASE serve' = [serve EXCEPT ![s] =
                   [Idle EXCEPT !.at = "consent", !.req = r,
                      !.todo = WithChoice(choice, Routing(requests[r].score))]]
  <2> DEFINE q == WithChoice(choice, Routing(requests[r].score))
             x == [Idle EXCEPT !.at = "consent", !.req = r, !.todo = q]
  <2>1. requests[r].score \in 0..100
    BY NotificationAssumption DEF TypeInv, TypeOK, RequestState
  <2>2. Distinct(q)
    BY <2>1, RoutingType, RoutingDistinct, WithChoiceDistinct
  <2> HIDE DEF q
  <2>3. x.req = r /\ x.todo = q
    BY DEF Idle
  <2>4. serve' = [serve EXCEPT ![s] = x]
    BY <1>4 DEF q
  <2> HIDE DEF x
  <2>5. serve'[s] = x /\ \A u \in Server \ {s} : serve'[u] = serve[u]
    BY <2>4 DEF TypeInv, TypeOK
  <2>6. \A y \in reached : y.req # r
    BY <1>1 DEF RefusalInv, Taken
  <2> QED
    BY <1>2, <2>2, <2>3, <2>5, <2>6 DEF OnceInv, ReachedOnce
<1> QED
  BY <1>1, <1>3, <1>4

\* Whatever servers, calls, faults and clock do: one call reaches its customer
\* at most once on a channel (the loop of dispatch_notification over the routed
\* channels with the bandit's choice put first).
THEOREM CallsReachOnce == Spec => []ReachedOnce
<1>1. Init => OnceInv
  BY DEF Init, OnceInv, ReachedOnce, Idle
<1>2. Init => RefusalInv
  <2> SUFFICES ASSUME Init PROVE RefusalInv
    OBVIOUS
  <2>1. reached = {} /\ \A r \in Request : requests[r].refused = {}
    BY DEF Init
  <2>2. \A s \in Server : serve[s].at = "idle"
    BY DEF Init, Idle
  <2> QED
    BY <2>1, <2>2 DEF RefusalInv, Taken, StillRefused, Asked, RefusalHonoured
<1>3. TypeInv /\ RefusalInv /\ OnceInv /\ [Next]_vars => RefusalInv' /\ OnceInv'
  <2> SUFFICES ASSUME TypeInv, RefusalInv, OnceInv, [Next]_vars
               PROVE  RefusalInv' /\ OnceInv'
    OBVIOUS
  <2>1. RefusalInv' /\ TypeInv'
    BY RefusalStep, TypeStep
  <2>2. CASE UNCHANGED <<serve, reached>>
    BY <2>1, <2>2 DEF OnceInv, ReachedOnce, Distinct
  <2>3. ASSUME NEW s \in Server, Take(s) PROVE OnceInv'
    BY <2>3, OnceTake
  <2>4. ASSUME NEW s \in Server, Handle(s) \/ Fault(s) PROVE OnceInv'
    BY <2>1, <2>4, OnceMoves
  <2> QED
    BY <2>1, <2>2, <2>3, <2>4 DEF Next, Object, EvictKey, Tick, vars
<1>4. OnceInv => ReachedOnce
  BY DEF OnceInv
<1> QED
  BY <1>1, <1>2, <1>3, <1>4, TypeInvariant, PTL DEF Spec

=============================================================================
