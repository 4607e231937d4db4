---------------------------- MODULE Notification ----------------------------
(***************************************************************************)
(* The multi-channel dispatcher behind POST /notify:                       *)
(* intervention/notification_dispatcher.py, called by the scoring API's    *)
(* notify_customer for the n8n workflow and the dashboard.                 *)
(*                                                                         *)
(* A server is one process of the scoring API.  The endpoint is a          *)
(* coroutine with a blocking body, so a process handles one request at a   *)
(* time; the deployment runs several.  PostgreSQL holds the consent and    *)
(* notifications tables, Redis one cooldown key per customer and channel,  *)
(* and nothing is held between two accesses to them.                       *)
(***************************************************************************)
EXTENDS Integers, Sequences, FiniteSets

CONSTANTS Customer,    \* customers
          Request,     \* calls of POST /notify
          Server,      \* processes of the scoring API
          NoRequest,   \* what an idle server handles
          Score,       \* risk scores of the requests, in percent
          Choice,      \* what the bandit may select; "none" where no model file is
          Addressless, \* <<customer, channel>>: no phone number or mail address
          Configured,  \* channels whose provider has credentials
          Contested,   \* bound: channels customers object to
          Hours,       \* cooldown_hours of _check_cooldown: 24
          MaxHour,     \* bound: the clock stops here
          MaxFaults    \* bound: crashes, errors and evicted keys in a behaviour

VARIABLES hour,     \* the wall clock, in hours
          requests, \* state of each call
          serve,    \* what each server is doing, with its locals
          keys,     \* Redis notif_cooldown:{id}:{channel}: expiry, 0 if no key
          consent,  \* customer_consent rows
          claims,   \* history: cooldown keys set and not evicted since
          reached,  \* history: deliveries and assignments made
          log,      \* notifications table, by request and channel
          faults    \* history: crashes, errors and evicted keys so far

vars == <<hour, requests, serve, keys, consent, claims, reached, log, faults>>

\* Channels of CHANNEL_ROUTING, and what else the bandit knows.
Routed == {"app_push", "sms", "whatsapp", "email", "rm_call", "collector_assignment"}
BanditChannel == {"email", "sms", "whatsapp", "push", "rm_call"}
Channel == Routed \cup BanditChannel
\* Channels the constraint of customer_consent admits a row for.
ConsentChannel == {"sms", "email", "whatsapp", "rm_call", "app_push", "collector"}
Outbound == {"sms", "whatsapp", "email"}
Assigned == {"rm_call", "collector_assignment"}

ASSUME NotificationAssumption ==
  /\ NoRequest \notin Request
  /\ IsFiniteSet(Server)
  /\ Score \subseteq 0..100
  /\ Choice \subseteq BanditChannel \cup {"none"}
  /\ Addressless \subseteq Customer \X Outbound
  /\ Configured \subseteq Channel
  /\ Contested \subseteq ConsentChannel
  /\ Hours \in Nat \ {0} /\ MaxHour \in Nat /\ MaxFaults \in Nat

Step == {"idle", "consent", "exists", "claim", "send", "log"}
Logged == {"delivered", "assigned", "simulated", "failed"}

Idle == [at |-> "idle", req |-> NoRequest, todo |-> <<>>, sure |-> TRUE,
         result |-> "failed"]

RequestState == [status: {"new", "busy", "answered", "dropped"}, cust: Customer,
                 score: Score, since: 0..MaxHour,
                 refused: SUBSET ConsentChannel]
ServeState == [at: Step, req: Request \cup {NoRequest}, todo: Seq(Channel),
               sure: BOOLEAN, result: Logged]
ConsentState == {"none", "given", "refused", "withdrawn"}
Claim == [req: Request, chan: Channel, at: 0..MaxHour]
Reach == [req: Request, chan: Channel, at: 0..MaxHour, sure: BOOLEAN]

TypeOK ==
  /\ hour \in 0..MaxHour
  /\ requests \in [Request -> RequestState]
  /\ serve \in [Server -> ServeState]
  /\ keys \in [Customer \X Channel -> Nat]
  /\ consent \in [Customer \X ConsentChannel -> ConsentState]
  /\ claims \subseteq Claim
  /\ reached \subseteq Reach
  /\ log \in [Request \X Channel -> Logged \cup {"absent"}]
  /\ faults \in 0..MaxFaults

\* Consent is seeded for sms and email; other channels have no row at first.
Init ==
  /\ hour = 0
  /\ requests \in [Request -> {[status |-> "new", cust |-> c, score |-> s,
                                since |-> 0, refused |-> {}] :
                                 c \in Customer, s \in Score}]
  /\ serve = [s \in Server |-> Idle]
  /\ keys = [p \in Customer \X Channel |-> 0]
  /\ consent = [p \in Customer \X ConsentChannel |->
                  IF p[2] \in {"sms", "email"} THEN "given" ELSE "none"]
  /\ claims = {}
  /\ reached = {}
  /\ log = [p \in Request \X Channel |-> "absent"]
  /\ faults = 0

-----------------------------------------------------------------------------
(* Routing.                                                                *)

\* _get_risk_routing: the channels of a score; none for a stable customer.
Routing(score) ==
  CASE score < 30                 -> <<>>
    [] score >= 30 /\ score < 50  -> <<"app_push", "sms">>
    [] score >= 50 /\ score < 65  -> <<"sms", "whatsapp", "app_push">>
    [] score >= 65 /\ score < 75  -> <<"email", "sms", "whatsapp">>
    [] score >= 75 /\ score < 85  -> <<"rm_call", "email", "sms">>
    [] score >= 85                -> <<"collector_assignment", "rm_call", "email">>

\* Mutant of WithChoice: the bandit's choice stays at its routed place as well.
ChoiceTwice(choice, routed) ==
  IF choice = "none" THEN routed ELSE <<choice>> \o routed

\* The bandit's choice is tried first, whether it is a routed channel or not.
WithChoice(choice, routed) ==
  CASE choice = "none" -> routed
    [] choice # "none" /\ \A i \in DOMAIN routed : routed[i] # choice ->
         <<choice>> \o routed
    [] choice # "none" /\ \E i \in DOMAIN routed : routed[i] = choice ->
         LET i == CHOOSE j \in DOMAIN routed : routed[j] = choice
         IN  <<choice>> \o SubSeq(routed, 1, i-1) \o SubSeq(routed, i+1, Len(routed))

Chan(s) == Head(serve[s].todo)
Cust(s) == requests[serve[s].req].cust
Key(s) == <<Cust(s), Chan(s)>>
Tried(s) == <<serve[s].req, Chan(s)>>

\* The row _check_consent looks up; "collector_assignment" never has one.
Consent(p) == IF p[2] \in ConsentChannel THEN consent[p] ELSE "none"

\* Channels whose consent row of the customer is in the given state.
Objections(c, how) == {ch \in ConsentChannel : consent[<<c, ch>>] = how}

-----------------------------------------------------------------------------
(* dispatch_notification, one access to shared state per action.           *)

\* The loop is done with the current channel: the next one, or the answer.
NextChannel(s) ==
  IF Len(serve[s].todo) > 1
  THEN /\ serve' = [serve EXCEPT ![s] = [Idle EXCEPT !.at = "consent", !.req = serve[s].req,
                                                     !.todo = Tail(serve[s].todo)]]
       /\ UNCHANGED requests
  ELSE /\ serve' = [serve EXCEPT ![s] = Idle]
       /\ requests' = [requests EXCEPT ![serve[s].req].status = "answered"]

\* A free server takes a call; a stable customer is answered at once.
Take(s) ==
  /\ serve[s].at = "idle"
  /\ \E r \in Request, choice \in Choice :
       LET todo == WithChoice(choice, Routing(requests[r].score)) IN
       /\ requests[r].status = "new"
       /\ \/ /\ Routing(requests[r].score) = <<>>
             /\ requests' = [requests EXCEPT ![r].status = "answered"]
             /\ UNCHANGED serve
          \/ /\ Routing(requests[r].score) # <<>>
             /\ requests' = [requests EXCEPT
                  ![r].status = "busy", ![r].since = hour,
                  ![r].refused = Objections(requests[r].cust, "refused")]
             /\ serve' = [serve EXCEPT ![s] = [Idle EXCEPT !.at = "consent", !.req = r,
                                                           !.todo = todo]]
  /\ UNCHANGED <<hour, keys, consent, claims, reached, log, faults>>

\* Mutant of CheckConsent: the refused channel is skipped only if a key is set.
CheckConsentAfterKey(s) ==
  /\ serve[s].at = "consent"
  /\ IF Consent(Key(s)) = "refused" /\ keys[Key(s)] > hour
     THEN NextChannel(s)
     ELSE serve' = [serve EXCEPT ![s].at = "exists"] /\ UNCHANGED requests
  /\ UNCHANGED <<hour, keys, consent, claims, reached, log, faults>>

\* _check_consent ignores withdrawn rows, and no row means consent.
CheckConsent(s) ==
  /\ serve[s].at = "consent"
  /\ IF Consent(Key(s)) = "refused" THEN NextChannel(s)
     ELSE serve' = [serve EXCEPT ![s].at = "exists"] /\ UNCHANGED requests
  /\ UNCHANGED <<hour, keys, consent, claims, reached, log, faults>>

\* Mutant of CheckKey: a key in its last hour no longer counts.
CheckKeyEarly(s) ==
  /\ serve[s].at = "exists"
  /\ IF keys[Key(s)] > hour + 1 THEN NextChannel(s)
     ELSE serve' = [serve EXCEPT ![s].at = "claim"] /\ UNCHANGED requests
  /\ UNCHANGED <<hour, keys, consent, claims, reached, log, faults>>

\* _check_cooldown, EXISTS ...
CheckKey(s) ==
  /\ serve[s].at = "exists"
  /\ IF keys[Key(s)] > hour THEN NextChannel(s)
     ELSE serve' = [serve EXCEPT ![s].at = "claim"] /\ UNCHANGED requests
  /\ UNCHANGED <<hour, keys, consent, claims, reached, log, faults>>

\* Mutant of ClaimKey: the key outlives the cooldown.
ClaimKeyLong(s) ==
  /\ serve[s].at = "claim"
  /\ keys' = [keys EXCEPT ![Key(s)] = hour + 2 * Hours]
  /\ claims' = claims \cup {[req |-> serve[s].req, chan |-> Chan(s), at |-> hour]}
  /\ serve' = [serve EXCEPT ![s].at = "send"]
  /\ UNCHANGED <<hour, requests, consent, reached, log, faults>>

\* ... then SETEX, before anything is sent.
ClaimKey(s) ==
  /\ serve[s].at = "claim"
  /\ keys' = [keys EXCEPT ![Key(s)] = hour + Hours]
  /\ claims' = claims \cup {[req |-> serve[s].req, chan |-> Chan(s), at |-> hour]}
  /\ serve' = [serve EXCEPT ![s].at = "send"]
  /\ UNCHANGED <<hour, requests, consent, reached, log, faults>>

\* The customer hears from the bank, or a colleague gets the case.
Reaches(s) ==
  reached' = reached \cup {[req |-> serve[s].req, chan |-> Chan(s), at |-> hour,
                            sure |-> serve[s].sure]}

ToLog(s, result) ==
  serve' = [serve EXCEPT ![s].at = "log", ![s].result = result]

\* The channel has a sender that gets as far as its provider.
Sendable(s) ==
  /\ Chan(s) \in Routed
  /\ <<Cust(s), Chan(s)>> \notin Addressless
  /\ Chan(s) \in Assigned \cup Configured

\* The sender of the channel.  "push" has none, and without an address nothing
\* is sent or logged; without credentials the notification is simulated.
Send(s) ==
  /\ serve[s].at = "send"
  /\ \/ /\ Chan(s) \notin Routed \/ <<Cust(s), Chan(s)>> \in Addressless
        /\ NextChannel(s)
        /\ UNCHANGED reached
     \/ /\ Chan(s) \in Routed \ (Assigned \cup Configured)
        /\ <<Cust(s), Chan(s)>> \notin Addressless
        /\ ToLog(s, "simulated")
        /\ UNCHANGED <<requests, reached>>
     \/ /\ Sendable(s)
        /\ Reaches(s)
        /\ ToLog(s, IF Chan(s) \in Assigned THEN "assigned" ELSE "delivered")
        /\ UNCHANGED requests
  /\ UNCHANGED <<hour, keys, consent, claims, log, faults>>

\* _log_notification inserts the row of the attempt.
LogNotification(s) ==
  /\ serve[s].at = "log"
  /\ log' = [log EXCEPT ![Tried(s)] = serve[s].result]
  /\ NextChannel(s)
  /\ UNCHANGED <<hour, keys, consent, claims, reached, faults>>

-----------------------------------------------------------------------------
(* Errors and crashes.                                                     *)

\* The consent query raises: the notification is allowed.
ConsentFails(s) ==
  /\ serve[s].at = "consent"
  /\ serve' = [serve EXCEPT ![s].at = "exists", ![s].sure = FALSE]
  /\ UNCHANGED <<requests, reached>>

\* Redis raises: the notification proceeds, without a key.
RedisFails(s) ==
  /\ serve[s].at \in {"exists", "claim"}
  /\ serve' = [serve EXCEPT ![s].at = "send"]
  /\ UNCHANGED <<requests, reached>>

\* Mutant of SendFails: a failed attempt is recorded like any other.
SendFailsUnnoticed(s) ==
  /\ serve[s].at = "send"
  /\ Sendable(s)
  /\ ToLog(s, "delivered")
  /\ Reaches(s) \/ UNCHANGED reached
  /\ UNCHANGED requests

\* The provider or the INSERT of the assignment raises; it may have gone through.
SendFails(s) ==
  /\ serve[s].at = "send"
  /\ Sendable(s)
  /\ ToLog(s, "failed")
  /\ Reaches(s) \/ UNCHANGED reached
  /\ UNCHANGED requests

\* _log_notification swallows its error; no row is written.
LogFails(s) ==
  /\ serve[s].at = "log"
  /\ NextChannel(s)
  /\ UNCHANGED reached

\* The process dies: the caller gets an error, nothing is resumed.
Crash(s) ==
  /\ serve[s].at # "idle"
  /\ serve' = [serve EXCEPT ![s] = Idle]
  /\ requests' = [requests EXCEPT ![serve[s].req].status = "dropped"]
  /\ UNCHANGED reached

Fault(s) ==
  /\ faults < MaxFaults
  /\ faults' = faults + 1
  /\ ConsentFails(s) \/ RedisFails(s) \/ SendFails(s) \/ LogFails(s) \/ Crash(s)
  /\ UNCHANGED <<hour, keys, consent, claims, log>>

-----------------------------------------------------------------------------
(* The environment.                                                        *)

\* A customer objects to a channel: the row says no, or keeps its consent and
\* gets a withdrawal time.
Object(c, ch) ==
  /\ consent[<<c, ch>>] \in {"none", "given"}
  /\ \E how \in {"refused", "withdrawn"} : consent' = [consent EXCEPT ![<<c, ch>>] = how]
  /\ UNCHANGED <<hour, requests, serve, keys, claims, reached, log, faults>>

\* Redis is full and evicts a key in use (maxmemory-policy allkeys-lru); its
\* claims no longer keep anybody away.
EvictKey(c, ch) ==
  /\ faults < MaxFaults
  /\ faults' = faults + 1
  /\ keys[<<c, ch>>] > hour
  /\ keys' = [keys EXCEPT ![<<c, ch>>] = 0]
  /\ claims' = {x \in claims : requests[x.req].cust # c \/ x.chan # ch}
  /\ UNCHANGED <<hour, requests, serve, consent, reached, log>>

Tick ==
  /\ hour < MaxHour
  /\ hour' = hour + 1
  /\ UNCHANGED <<requests, serve, keys, consent, claims, reached, log, faults>>

-----------------------------------------------------------------------------

Handle(s) ==
  CheckConsent(s) \/ CheckKey(s) \/ ClaimKey(s) \/ Send(s) \/ LogNotification(s)

Next ==
  \/ \E s \in Server : Take(s) \/ Handle(s) \/ Fault(s)
  \/ \E c \in Customer, ch \in Contested : Object(c, ch)
  \/ \E c \in Customer, ch \in Channel : EvictKey(c, ch)
  \/ Tick

\* A server goes on with the call it has.  Nothing is assumed of callers,
\* customers, faults or the clock.
Fairness == \A s \in Server : WF_vars(Handle(s))

Spec == Init /\ [][Next]_vars /\ Fairness

-----------------------------------------------------------------------------
(* Properties that hold.                                                   *)

SameKey(x, y) == requests[x.req].cust = requests[y.req].cust /\ x.chan = y.chan

\* Claims of the key x claimed, from then on until the period x began is over.
Rush(x) ==
  {y \in claims : SameKey(x, y) /\ y.at >= x.at /\ y.at < x.at + Hours}

\* Servers race for a key, since _check_cooldown reads and sets it in two accesses,
\* but not without bound: whatever crashes and errors happen, within one period no
\* more calls claim the key of a customer and channel than there are servers, one
\* call with a single server, unless Redis evicted the key in between.
ClaimsBounded == \A x \in claims : Cardinality(Rush(x)) <= Cardinality(Server)

\* A customer who refused a channel before the dispatch began is not reached
\* on it, however the accesses of other servers and the customer's later
\* objections interleave, unless the consent query itself failed
\* (dispatch_notification asks _check_consent anew before every channel).
RefusalHonoured ==
  \A x \in reached : x.sure => x.chan \notin requests[x.req].refused

\* A row "delivered" or "assigned" stands for a real delivery of that call on
\* that channel, through errors and crashes (the row is inserted last, and a
\* failed sender inserts "failed").
LoggedImpliesReached ==
  \A p \in Request \X Channel : log[p] \in {"delivered", "assigned"} =>
    \E x \in reached : x.req = p[1] /\ x.chan = p[2]

\* One call reaches the customer at most once on a channel, even while Redis
\* is down and the bandit's choice is one of the routed channels.
ReachedOnce ==
  \A x, y \in reached : (x.req = y.req /\ x.chan = y.chan) => x = y

\* A call that claimed a key and did not get through, or is just failing to.
Failing(c, ch, since) ==
  \/ \E s \in Server : serve[s].at = "log" /\ serve[s].result = "failed" /\ Key(s) = <<c, ch>>
  \/ \E x \in claims :
       /\ requests[x.req].cust = c /\ x.chan = ch /\ x.at > since - Hours
       /\ \A y \in reached : y.req # x.req \/ y.chan # ch
       /\ \A s \in Server : serve[s].req = x.req => Chan(s) # ch

\* No interleaving of servers silences a customer, and neither do lost consent
\* queries, Redis errors, lost log rows and evicted keys: for each routed channel
\* with a sender that the customer does not refuse, this call or another one within
\* the cooldown before it gets through.  Only a provider that fails a call whose key
\* is set, or a process that dies with a call of the customer, may leave it silent
\* (_check_cooldown sets the key before the sender is tried).
CustomerCovered ==
  \A r \in Request : \A ch \in Routed :
    LET c == requests[r].cust IN
    ( /\ requests[r].status = "busy"
      /\ \E i \in DOMAIN Routing(requests[r].score) : Routing(requests[r].score)[i] = ch
      /\ <<c, ch>> \notin Addressless /\ ch \in Assigned \cup Configured )
    ~> \/ Consent(<<c, ch>>) = "refused"
       \/ \E q \in Request : requests[q].cust = c /\ requests[q].status = "dropped"
       \/ Failing(c, ch, requests[r].since)
       \/ \E x \in reached :
            /\ requests[x.req].cust = c /\ x.chan = ch
            /\ x.at > requests[r].since - Hours

=============================================================================
