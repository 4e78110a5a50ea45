------------------------------- MODULE Login -------------------------------
(***************************************************************************)
(* internal/login: interactive login attempts of several processes on one  *)
(* profile, and the browser tabs they open.  An attempt binds its loopback *)
(* listener before it registers a client, hands an authorization request   *)
(* to the browser and waits for one valid callback.  The port is the one   *)
(* the stored client registration names, so a later attempt listens where  *)
(* the tabs of an earlier one still send their callbacks.                  *)
(*                                                                         *)
(* An attempt is a number: it stands for the random state of the request.  *)
(* The browser may answer a request any number of times, with a code or an *)
(* error.  Registration and the token exchange are single steps here:      *)
(* CredentialFence has their protocol.  Faults: a crash, and a process     *)
(* that stalls until its login lease lapses.                               *)
(***************************************************************************)
EXTENDS LeaseTable, FiniteSets

CONSTANTS Process,      \* login processes
          Dead,         \* the owner in the lease row of a crashed process
          Port,         \* loopback ports
          NoPort,       \* the redirect of a record that has none
          MaxAttempt,   \* bound on the attempts of a behaviour
          MaxRequests,  \* bound on the callbacks being served at once
          MaxFaults     \* bound on the faults of a behaviour

VARIABLES lease,     \* the login lease
          client,    \* the stored client registration
          socket,    \* the attempt listening at each port, 0 for none
          call,      \* the attempt of each process
          tabs,      \* the authorization requests handed to the browser
          requests,  \* the callbacks accepted by a listener and not answered
          attempts,  \* the attempts started
          accepted,  \* history: accept pages shown, by attempt
          redeemed,  \* history: the code exchanged by each attempt
          faults

history == <<accepted, redeemed>>
vars == <<lease, client, socket, call, tabs, requests, attempts, history, faults>>

NoClient == [id |-> 0, redirect |-> NoPort]
Nothing == [kind |-> "none", state |-> 0]
NoAttempt == [ at |-> "idle", attempt |-> 0, port |-> NoPort, client |-> NoClient,
               decided |-> FALSE, terminal |-> Nothing, outcome |-> Nothing ]

Init ==
    /\ lease = NoLease
    \* no registration, or a legacy one without its redirect
    /\ client \in {NoClient, [id |-> MaxAttempt + 1, redirect |-> NoPort]}
    /\ socket = [t \in Port |-> 0]
    /\ call = [p \in Process |-> NoAttempt]
    /\ tabs = {} /\ requests = {} /\ attempts = 0
    /\ accepted = [a \in 1..MaxAttempt |-> 0]
    /\ redeemed = [a \in 1..MaxAttempt |-> Nothing]
    /\ faults = 0

Fault == faults < MaxFaults /\ faults' = faults + 1
At(p, l) == call[p].at = l
Goto(p, l) == call' = [call EXCEPT ![p].at = l]

\* Every return of Run closes the listener and releases the lease.
Closed(p) == [t \in Port |-> IF socket[t] = call[p].attempt THEN 0 ELSE socket[t]]
Dropped(p) == {r \in requests : r.to # call[p].attempt}
Return(p) ==
    /\ call' = [call EXCEPT ![p] = NoAttempt]
    /\ lease' = ReleaseLease(lease, p)
    /\ socket' = Closed(p) /\ requests' = Dropped(p)

-----------------------------------------------------------------------------
(* Run.                                                                    *)

ClaimLogin(p) ==
    /\ At(p, "idle") /\ Claimable(lease, p) /\ attempts < MaxAttempt
    /\ lease' = ClaimLease(lease, p, 0)
    /\ attempts' = attempts + 1
    /\ call' = [call EXCEPT ![p].at = "discover", ![p].attempt = attempts']
    /\ UNCHANGED <<client, socket, tabs, requests, history, faults>>

\* Discover, CheckRequestedScopes: metadata that does not bind the endpoint and
\* the issuer, or lacks a scope, ends the attempt (Abort).
Discover(p) ==
    /\ At(p, "discover")
    /\ Goto(p, "bind")
    /\ UNCHANGED <<lease, client, socket, tabs, requests, attempts, history, faults>>

\* bindCallbackListener: the registered port, or any free one.
BindAddress(t) == client.redirect \in {NoPort, t}

Bind(p) ==
    /\ At(p, "bind")
    /\ \E t \in Port :
         /\ BindAddress(t)
         /\ IF socket[t] # 0 THEN Return(p)
            ELSE /\ socket' = [socket EXCEPT ![t] = call[p].attempt]
                 /\ call' = [call EXCEPT ![p].at = "register", ![p].port = t]
                 /\ UNCHANGED <<lease, requests>>
    /\ UNCHANGED <<client, tabs, attempts, history, faults>>

\* Mutated form: the stored registration is reused for any redirect.
ReusableAnywhere(p) == TRUE

\* checkRegistrationReuse: a registration stored between the bind and this check
\* binds another redirect; a legacy record binds none.
Reusable(p) == client.redirect \in {NoPort, call[p].port}

\* RegisterForRedirect.
Register(p) ==
    /\ At(p, "register")
    /\ CASE client = NoClient ->
              /\ client' = [id |-> call[p].attempt, redirect |-> call[p].port]
              /\ call' = [call EXCEPT ![p].at = "handoff", ![p].client = client']
              /\ UNCHANGED <<lease, socket, requests>>
         [] client # NoClient /\ Reusable(p) ->
              /\ call' = [call EXCEPT ![p].at = "handoff", ![p].client = client]
              /\ UNCHANGED <<client, lease, socket, requests>>
         [] OTHER -> Return(p) /\ UNCHANGED client
    /\ UNCHANGED <<tabs, attempts, history, faults>>

\* NewAuthorizationRequest, handoff and NewCallback.
Handoff(p) ==
    /\ At(p, "handoff")
    /\ tabs' = tabs \union
         {[state |-> call[p].attempt, redirect |-> call[p].port, client |-> call[p].client]}
    /\ Goto(p, "wait")
    /\ UNCHANGED <<lease, client, socket, requests, attempts, history, faults>>

\* Wait's select, which picks at random when both are ready: the terminal
\* callback, or the deadline or cancellation.  Shutdown closes the listener.
Wait(p) ==
    /\ At(p, "wait")
    /\ \E got \in BOOLEAN :
         /\ got => call[p].terminal # Nothing
         /\ call' = [call EXCEPT ![p].at = "shutdown",
                        ![p].outcome = IF got THEN call[p].terminal ELSE Nothing]
    /\ socket' = Closed(p)
    /\ UNCHANGED <<lease, client, tabs, requests, attempts, history, faults>>

\* Shutdown and Close: requests being served are answered or cut off.
Join(p) ==
    /\ At(p, "shutdown")
    /\ IF call[p].outcome.kind = "code"
       THEN Goto(p, "exchange") /\ requests' = Dropped(p) /\ UNCHANGED <<lease, socket>>
       ELSE Return(p)
    /\ UNCHANGED <<client, tabs, attempts, history, faults>>

\* CompleteAuthorization: the stored registration is still the one the attempt
\* started from; then the code is exchanged.
Complete(p) ==
    /\ At(p, "exchange")
    /\ redeemed' = IF client = call[p].client
                   THEN [redeemed EXCEPT ![call[p].attempt] = call[p].outcome]
                   ELSE redeemed
    /\ Return(p)
    /\ UNCHANGED <<client, tabs, attempts, accepted, faults>>

\* Any step may fail or be cancelled, by the user or by a renewal that finds
\* the lease lost.
Abort(p) ==
    /\ ~At(p, "idle")
    /\ Return(p)
    /\ UNCHANGED <<client, tabs, attempts, history, faults>>

-----------------------------------------------------------------------------
(* The callback listener.                                                  *)

\* The browser sends the answer to a request where its redirect points: a code
\* or an error.  A request of another shape, or without the issuer discovery asks
\* for, is rejected by ServeHTTP and changes nothing.
Browse ==
    /\ Cardinality(requests) < MaxRequests
    /\ \E t \in tabs, k \in {"code", "error"} :
         /\ socket[t.redirect] # 0
         /\ requests' = requests \union
              {[to |-> socket[t.redirect], answer |-> [kind |-> k, state |-> t.state]]}
    /\ UNCHANGED <<lease, client, socket, call, tabs, attempts, history, faults>>

\* Mutated form: any state will do.
ValidForAnyState(p, answer) == TRUE

\* ServeHTTP: the callback echoes the state of this attempt.
Valid(p, answer) == answer.state = call[p].attempt

\* Mutated form: the attempt is not marked decided.
DecidedNever(p) == FALSE

\* selectTerminal: the first valid callback is recorded and accepted, the others
\* are rejected.
Decided(p) == call[p].decided

Serve(p) ==
    /\ call[p].at \in {"wait", "shutdown"}
    /\ \E r \in requests :
         /\ r.to = call[p].attempt
         /\ requests' = requests \ {r}
         /\ IF Valid(p, r.answer) /\ ~Decided(p)
            THEN /\ call' = [call EXCEPT ![p].decided = TRUE,
                        ![p].terminal = IF @ = Nothing THEN r.answer ELSE @]
                 /\ accepted' = [accepted EXCEPT ![r.to] = @ + 1]
            ELSE UNCHANGED <<call, accepted>>
    /\ UNCHANGED <<lease, client, socket, tabs, attempts, redeemed, faults>>

-----------------------------------------------------------------------------
(* Other processes, faults and time.                                       *)

\* A logout, in any process, forgets the registration.
Logout ==
    /\ client # NoClient
    /\ client' = NoClient
    /\ UNCHANGED <<lease, socket, call, tabs, requests, attempts, history, faults>>

Crash(p) ==
    /\ ~At(p, "idle") /\ Fault
    /\ call' = [call EXCEPT ![p] = NoAttempt]
    /\ lease' = IF lease.owner = p THEN [lease EXCEPT !.owner = Dead] ELSE lease
    /\ socket' = Closed(p) /\ requests' = Dropped(p)
    /\ UNCHANGED <<client, tabs, attempts, history>>

Lapse ==
    /\ lease.owner = Dead /\ lease.left > 0
    /\ lease' = Elapse(lease)
    /\ UNCHANGED <<client, socket, call, tabs, requests, attempts, history, faults>>

Stall ==
    /\ lease.owner \in Process /\ lease.left > 0 /\ Fault
    /\ lease' = Elapse(lease)
    /\ UNCHANGED <<client, socket, call, tabs, requests, attempts, history>>

Run(p) ==
    \/ ClaimLogin(p) \/ Discover(p) \/ Bind(p) \/ Register(p) \/ Handoff(p)
    \/ Wait(p) \/ Join(p) \/ Complete(p) \/ Abort(p)

Next ==
    \/ Browse \/ Logout \/ Lapse \/ Stall
    \/ \E p \in Process : Run(p) \/ Serve(p) \/ Crash(p)

Spec == Init /\ [][Next]_vars

-----------------------------------------------------------------------------
(* Properties.                                                             *)

\* However many callbacks race on a port that earlier attempts also used, at most
\* one of an attempt is answered with the accept page, and a code is exchanged
\* only when it answers the attempt's own authorization request and was accepted.
OneOwnCode ==
    \A a \in 1..MaxAttempt :
        /\ accepted[a] <= 1
        /\ redeemed[a] # Nothing =>
              redeemed[a] = [kind |-> "code", state |-> a] /\ accepted[a] = 1

\* No authorization request names a redirect its client was not registered for,
\* even when another process registers between an attempt's bind and its own
\* registration, its login lease having lapsed.
RegistrationServes ==
    \A t \in tabs : t.client.redirect \in {NoPort, t.redirect}
=============================================================================
