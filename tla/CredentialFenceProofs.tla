----------------------- MODULE CredentialFenceProofs -----------------------
(***************************************************************************)
(* Proofs about CredentialFence, for any number of processes, any number   *)
(* of faults and any bounds on the names in use.                           *)
(***************************************************************************)
EXTENDS CredentialFence, TLAPS

Op == {"none", "refresh", "register", "complete", "logout"}
CallType == [ op : Op, at : Location, kind : Kind, gen : Nat, rec : 0..MaxClient,
              tok : 0..MaxGrant, fgen : Nat, prev : 0..MaxSlot, slot : 0..MaxSlot,
              next : {"idle", "consent"} ]
FenceType == [Kind -> [gen : Nat, slot : 0..MaxSlot]]

\* TypeOK without the bound MaxGen on the generations, which rests on counting
\* the calls under way.
Shape ==
    /\ lease \in LeaseRow(Proc \union {Dead})
    /\ fence \in FenceType
    /\ retired \subseteq Label
    /\ marker \in BOOLEAN
    /\ keyring \in [Label -> Nat]
    /\ \A n \in 0..MaxSlot : /\ keyring[<<"refresh", n>>] <= MaxGrant
                             /\ keyring[<<"client", n>>] <= MaxClient
    /\ grants \in [1..MaxGrant -> 0..MaxClient]
    /\ expired \subseteq 1..MaxClient
    /\ call \in [Proc -> CallType]
    /\ faults \in Nat
    /\ stalled \in BOOLEAN /\ adopted \in BOOLEAN

-----------------------------------------------------------------------------
(* The inductive invariant.                                                *)

\* A process is at work from its claim to its release.
Resting == {"idle", "claim", "consent"}
AtWork(p) == call[p].at \notin Resting

\* The lease row names a process only with the generation of its own claim.
Epochs ==
    \A p \in Proc : lease.owner = p =>
        AtWork(p) /\ (call[p].at # "release" => lease.gen = call[p].gen)

\* Unless somebody stalled, whoever is at work holds the lease.
Serial == ~stalled => \A p \in Proc : AtWork(p) => Live(lease, p)

\* The operation and the kind a location belongs to; the slot in hand.
Local(c) ==
    /\ c.at \in {"claim", "load", "exchange", "gate", "record", "adopt", "recheck", "post",
                 "existing", "sweep", "unmark", "dropPrevious", "outGrantSlot", "outMark",
                 "outClearGrant", "consent"} => c.kind = "refresh"
    /\ c.at \in {"read", "outClientSlot", "outClearClient"} => c.kind = "client"
    /\ c.at = "claim" => c.op \in {"refresh", "register", "complete"}
    /\ c.at \in {"exchange", "gate"} => c.op \in {"refresh", "complete"}
    /\ c.at \in {"record", "adopt"} => c.op = "complete"
    /\ c.at \in {"recheck", "post", "existing"} => c.op = "register"
    /\ c.at = "load" => c.op = "refresh"
    /\ c.slot # 0 => c.at \in {"rollback", "sweep", "read", "commit"}
    /\ c.at \in {"sweep", "read", "commit"} => c.slot # 0
    /\ c.at = "exchange" /\ c.op = "refresh" => c.tok # 0
    /\ c.at \in {"gate", "adopt"} => c.tok # 0
    /\ c.at \in {"set", "sweep", "commit"} /\ c.kind = "refresh" => c.tok # 0

\* On its way to commit a refresh grant.
Granting(c) ==
    \/ c.at \in {"exchange", "gate"} /\ c.op = "refresh"
    \/ c.at \in {"set", "sweep", "commit"} /\ c.kind = "refresh"

\* On its way to commit a client.
Registering(c) == c.at \in {"set", "read", "commit"} /\ c.kind = "client"

\* What the holder of the lease may rely on: nobody else moves a fence, and no
\* label a fence names, nor a legacy label, is ever written.
View(c, f, key, exp) ==
    LET s == f["refresh"].slot
        t == f["client"].slot
        client == key[<<"client", t>>]
    IN
    /\ Granting(c) => c.prev = s /\ c.fgen = f["refresh"].gen + 1
    /\ c.at = "commit" /\ c.kind = "client" => c.prev = t /\ c.fgen = f["client"].gen + 1
    /\ c.at \in {"invMark", "invClear", "outGrantSlot"} => c.prev = s
    /\ c.at = "outClientSlot" => c.prev = t
    /\ c.at \in {"outMark", "outClearGrant"} => s = 0 \/ key[<<"refresh", s>>] = 0
    /\ c.at = "outClearClient" => t = 0 \/ client = 0
    /\ c.at \in {"invSlot", "invLegacy", "invUnmark", "outClient", "outClientSlot",
                 "outClearClient", "outLegacyClient", "outLegacyGrant", "outUnmark",
                 "outSweep"} => s = 0
    /\ Registering(c) => s = 0
    /\ c.at \in {"outLegacyClient", "outLegacyGrant", "outUnmark", "outSweep"} => t = 0
    /\ c.at = "post" => client = 0 \/ client \in exp
    /\ c.at = "unmark" => s # 0

HolderView == \A p \in Proc : Holds(p) => View(call[p], fence, keyring, expired)

\* What a call may rely on whether it holds the lease or not: a deleted legacy
\* secret does not come back, its own slot holds its own secret, and its grant
\* is nobody else's.
Mine(c, key, own) ==
    /\ c.at \in {"outLegacyGrant", "outUnmark", "outSweep"} => key[<<"client", 0>>] = 0
    /\ c.at \in {"invUnmark", "outUnmark", "outSweep"} => key[<<"refresh", 0>>] = 0
    /\ c.at \in {"sweep", "read", "commit"} =>
          key[<<c.kind, c.slot>>] \in {0, IF c.kind = "client" THEN c.rec ELSE c.tok}
    /\ c.at \in {"gate", "adopt"} => own[c.tok] \in {0, c.rec}
    /\ c.at \in {"set", "sweep", "commit"} /\ c.kind = "refresh" => own[c.tok] \in {0, c.rec}

Private == \A p \in Proc : Local(call[p]) /\ Mine(call[p], keyring, grants)

\* No two calls have the same fresh slot in hand, and it is not live.
OwnSlot ==
    \A p \in Proc : call[p].slot # 0 =>
        /\ fence[call[p].kind].slot # call[p].slot
        /\ \A q \in Proc : q # p /\ call[q].kind = call[p].kind => call[q].slot # call[p].slot

\* A call knows a client from its lookup, or from its registration, on.
Known(c) ==
    /\ c.at \in {"load", "exchange", "gate", "record", "adopt", "existing", "invLoad", "invMark",
                 "invClear", "invSlot", "invLegacy", "invUnmark", "set", "sweep", "read", "commit",
                 "consent"} => c.rec # 0
    /\ c.at = "claim" /\ c.op # "register" => c.rec # 0
    /\ c.next = "consent" => c.rec # 0

ClientKnown == \A p \in Proc : Known(call[p])

\* The holder's grant and the registered client belong together.
Paired(c) ==
    \/ adopted \/ (stalled /\ c.op = "refresh" /\ c.prev = 0)
    \/ Committed("client") = 0
    \/ IF c.at = "exchange" THEN grants[c.tok] \in {0, Committed("client")}
                            ELSE Committed("client") = c.rec

HolderPaired == \A p \in Proc : Holds(p) /\ Granting(call[p]) => Paired(call[p])

\* Without a stall the marker covers the legacy grant from before a fence is
\* cleared until the grant is gone, and a client is registered only while no
\* grant is readable.
MaskedAt == {"invClear", "invSlot", "invLegacy", "outClearGrant", "outClient", "outClientSlot",
             "outClearClient", "outLegacyClient", "outLegacyGrant"}

Masked ==
    ~stalled => \A p \in Proc : /\ call[p].at \in MaskedAt => marker
                                /\ Registering(call[p]) => LiveGrant = 0

\* Without a fault nothing is lost on the way to the commit.
Intact(c, key, own, ret) ==
    /\ c.at # "rollback"
    /\ Registering(c) => c.op = "register"
    /\ c.at \in {"gate", "adopt"} => own[c.tok] # 0
    /\ c.at \in {"set", "sweep", "commit"} /\ c.kind = "refresh" => own[c.tok] # 0
    /\ c.at \in {"sweep", "commit"} /\ c.kind = "refresh" =>
          key[<<"refresh", c.slot>>] = c.tok /\ <<"refresh", c.slot>> \notin ret

Undisturbed ==
    faults = 0 => ~stalled /\ \A p \in Proc : Intact(call[p], keyring, grants, retired)

Core ==
    Shape /\ Epochs /\ Private /\ HolderView /\ OwnSlot /\ NothingStranded

IInv ==
    Core /\ ClientKnown /\ Serial /\ Masked /\ HolderPaired /\ GrantMatchesClient
         /\ Undisturbed /\ NoSpentGrant

-----------------------------------------------------------------------------
(* Calls.                                                                  *)

LEMMA Bounds ==
    /\ MaxSlot \in Nat /\ MaxGrant \in Nat /\ MaxClient \in Nat
    /\ MaxSlot # 0 /\ MaxGrant # 0 /\ MaxClient # 0
    /\ NoOwner \notin Proc /\ Dead \notin Proc /\ Dead # NoOwner
  BY FenceAssumption

LEMMA NoCallType == NoCall \in CallType
  BY Bounds DEF NoCall, CallType, Op, Location, Kind

LEMMA NoCallFields ==
    /\ NoCall.op = "none" /\ NoCall.at = "idle" /\ NoCall.kind = "refresh" /\ NoCall.gen = 0
    /\ NoCall.rec = 0 /\ NoCall.tok = 0 /\ NoCall.fgen = 0 /\ NoCall.prev = 0
    /\ NoCall.slot = 0 /\ NoCall.next = "idle"
  BY DEF NoCall

\* d is c at another location.
Moved(c, d, l) ==
    /\ d.at = l /\ d.op = c.op /\ d.kind = c.kind /\ d.gen = c.gen /\ d.rec = c.rec
    /\ d.tok = c.tok /\ d.fgen = c.fgen /\ d.prev = c.prev /\ d.slot = c.slot
    /\ d.next = c.next

\* d is a call that has given up everything it had.
Blank(d) ==
    /\ d.kind = "refresh" /\ d.gen = 0 /\ d.rec = 0 /\ d.tok = 0 /\ d.fgen = 0
    /\ d.prev = 0 /\ d.slot = 0 /\ d.next = "idle"

Only(p) == \A q \in Proc : q # p => call'[q] = call[q]

LEMMA GotoFacts ==
    ASSUME Shape, NEW p \in Proc, NEW l \in Location, Goto(p, l)
    PROVE  /\ call' \in [Proc -> CallType] /\ Only(p)
           /\ Moved(call[p], call'[p], l)
  BY DEF Shape, Goto, CallType, Moved, Only

LEMMA FailFacts ==
    ASSUME Shape, NEW p \in Proc, Fail(p)
    PROVE  /\ call' \in [Proc -> CallType] /\ Only(p)
           /\ call'[p].at = "release" /\ call'[p].op = call[p].op /\ Blank(call'[p])
  <1>1. call \in [Proc -> CallType] /\ call[p].op \in Op
    BY DEF Shape, CallType
  <1>2. [NoCall EXCEPT !.op = call[p].op, !.at = "release"] \in CallType
    BY <1>1, NoCallType DEF CallType, Location
  <1>3. call'[p] = [NoCall EXCEPT !.op = call[p].op, !.at = "release"]
    BY <1>1 DEF Fail
  <1>4. QED
    BY <1>1, <1>2, <1>3 DEF Fail, Only, Blank, NoCall

LEMMA EndFacts ==
    ASSUME Shape, NEW p \in Proc, call' = [call EXCEPT ![p] = NoCall]
    PROVE  /\ call' \in [Proc -> CallType] /\ Only(p)
           /\ call'[p].at = "idle" /\ Blank(call'[p])
  <1>1. call \in [Proc -> CallType]
    BY DEF Shape
  <1>2. call'[p] = NoCall
    BY <1>1
  <1>3. QED
    BY <1>1, <1>2, NoCallType DEF Only, Blank, NoCall

LEMMA StoreClientFacts ==
    ASSUME Shape, NEW p \in Proc, StoreClient(p)
    PROVE  /\ call' \in [Proc -> CallType] /\ Only(p)
           /\ call'[p].at = "set" /\ call'[p].kind = "client" /\ call'[p].prev = 0
           /\ call'[p].op = call[p].op /\ call'[p].gen = call[p].gen
           /\ call'[p].rec = call[p].rec /\ call'[p].tok = call[p].tok
           /\ call'[p].slot = call[p].slot
  <1>1. call \in [Proc -> CallType] /\ call[p] \in CallType
    BY DEF Shape
  <1>2. call' = [call EXCEPT ![p] = [call[p] EXCEPT !.at = "set", !.kind = "client", !.prev = 0]]
    BY <1>1 DEF StoreClient
  <1>3. call'[p] = [call[p] EXCEPT !.at = "set", !.kind = "client", !.prev = 0] /\ Only(p)
    BY <1>1, <1>2 DEF Only
  <1>4. [call[p] EXCEPT !.at = "set", !.kind = "client", !.prev = 0] \in CallType
    <2>1. "set" \in Location /\ "client" \in Kind /\ 0 \in 0..MaxSlot
      BY Bounds DEF Location, Kind
    <2>2. QED
      BY <1>1, <2>1 DEF CallType
  <1>5. QED
    BY <1>1, <1>2, <1>3, <1>4 DEF CallType

LEMMA UpdateFacts ==
    ASSUME Shape, NEW p \in Proc, NEW n \in CallType, call' = [call EXCEPT ![p] = n]
    PROVE  call' \in [Proc -> CallType] /\ Only(p) /\ call'[p] = n
  BY DEF Shape, Only

\* What the live secrets are.
LEMMA LiveTypes ==
    ASSUME Shape
    PROVE  /\ \A k \in Kind, n \in 0..MaxSlot : <<k, n>> \in Label /\ keyring[<<k, n>>] \in Nat
           /\ \A k \in Kind : fence[k].slot \in 0..MaxSlot /\ fence[k].gen \in Nat
           /\ LiveGrant \in 0..MaxGrant /\ Committed("client") \in 0..MaxClient
           /\ RegisteredClient \in 0..MaxClient
  <1>1. \A k \in Kind, n \in 0..MaxSlot : <<k, n>> \in Label /\ keyring[<<k, n>>] \in Nat
    BY DEF Shape, Label
  <1>2. \A k \in Kind : fence[k].slot \in 0..MaxSlot /\ fence[k].gen \in Nat
    BY DEF Shape, FenceType
  <1>3. "refresh" \in Kind /\ "client" \in Kind
    BY DEF Kind
  <1>4. Committed("refresh") \in 0..MaxGrant /\ Committed("client") \in 0..MaxClient
    <2>1. ASSUME NEW n \in 0..MaxSlot
          PROVE  keyring[<<"refresh", n>>] \in 0..MaxGrant /\ keyring[<<"client", n>>] \in 0..MaxClient
      <3>1. keyring[<<"refresh", n>>] <= MaxGrant /\ keyring[<<"client", n>>] <= MaxClient
        BY DEF Shape
      <3>2. QED
        BY <1>1, <1>3, <3>1, Bounds
    <2>2. QED
      BY <1>2, <1>3, <2>1 DEF Committed
  <1>5. QED
    BY <1>1, <1>2, <1>4, Bounds DEF LiveGrant, RegisteredClient

LEMMA StartFacts ==
    ASSUME Shape, NEW p \in Proc
    PROVE  /\ StartRefresh(p) =>
                /\ call' \in [Proc -> CallType] /\ Only(p)
                /\ call'[p] = [NoCall EXCEPT !.op = "refresh", !.at = "claim",
                                             !.rec = RegisteredClient]
           /\ StartLogin(p) =>
                /\ call' \in [Proc -> CallType] /\ Only(p)
                /\ call'[p] = [NoCall EXCEPT !.op = "register", !.rec = RegisteredClient,
                                 !.at = IF RegisteredClient = 0 THEN "claim" ELSE "consent"]
           /\ StartLogout(p) /\ lease'.gen \in Nat =>
                /\ call' \in [Proc -> CallType] /\ Only(p)
                /\ call'[p] = [NoCall EXCEPT !.op = "logout", !.at = "outGrant",
                                             !.gen = lease'.gen]
  <1> DEFINE at == IF RegisteredClient = 0 THEN "claim" ELSE "consent"
  <1>1. RegisteredClient \in 0..MaxClient
    BY LiveTypes
  <1>2. /\ {"refresh", "register", "logout"} \subseteq Op
        /\ {"claim", "consent", "outGrant"} \subseteq Location
        /\ at \in Location
    BY DEF Op, Location
  <1> HIDE DEF at
  <1>3. /\ [NoCall EXCEPT !.op = "refresh", !.at = "claim", !.rec = RegisteredClient] \in CallType
        /\ [NoCall EXCEPT !.op = "register", !.rec = RegisteredClient, !.at = at] \in CallType
        /\ \A n \in Nat : [NoCall EXCEPT !.op = "logout", !.at = "outGrant", !.gen = n] \in CallType
    BY <1>1, <1>2, NoCallType DEF CallType
  <1>4. ASSUME StartRefresh(p)
        PROVE  call' = [call EXCEPT ![p] = [NoCall EXCEPT !.op = "refresh", !.at = "claim",
                                                          !.rec = RegisteredClient]]
    BY <1>4 DEF StartRefresh
  <1>5. ASSUME StartLogin(p)
        PROVE  call' = [call EXCEPT ![p] = [NoCall EXCEPT !.op = "register",
                                              !.rec = RegisteredClient, !.at = at]]
    BY <1>5 DEF StartLogin, at
  <1>6. ASSUME StartLogout(p)
        PROVE  call' = [call EXCEPT ![p] = [NoCall EXCEPT !.op = "logout", !.at = "outGrant",
                                                          !.gen = lease'.gen]]
    BY <1>6 DEF StartLogout
  <1>7. QED
    BY <1>3, <1>4, <1>5, <1>6, UpdateFacts DEF at

LEMMA ClaimFacts ==
    ASSUME Shape, NEW p \in Proc, Claim(p), call[p].op \in {"refresh", "register", "complete"},
           lease'.gen \in Nat
    PROVE  /\ call' \in [Proc -> CallType] /\ Only(p)
           /\ call'[p] = [call[p] EXCEPT !.at = FirstStep(call[p].op), !.gen = lease'.gen]
           /\ FirstStep(call[p].op) \in {"load", "recheck", "record"}
           /\ call[p].op = "refresh" => FirstStep(call[p].op) = "load"
           /\ call[p].op = "register" => FirstStep(call[p].op) = "recheck"
           /\ call[p].op = "complete" => FirstStep(call[p].op) = "record"
  <1>1. call \in [Proc -> CallType] /\ call[p] \in CallType
    BY DEF Shape
  <1>2. /\ FirstStep(call[p].op) \in {"load", "recheck", "record"}
        /\ call[p].op = "refresh" => FirstStep(call[p].op) = "load"
        /\ call[p].op = "register" => FirstStep(call[p].op) = "recheck"
        /\ call[p].op = "complete" => FirstStep(call[p].op) = "record"
    BY DEF FirstStep
  <1> DEFINE l == FirstStep(call[p].op)
             n == [call[p] EXCEPT !.at = l, !.gen = lease'.gen]
  <1>3. l \in Location
    BY <1>2 DEF Location
  <1>4. call' = [call EXCEPT ![p].at = l, ![p].gen = lease'.gen]
    BY DEF Claim
  <1> HIDE DEF l
  <1>5. n \in CallType /\ call' = [call EXCEPT ![p] = n]
    BY <1>1, <1>3, <1>4 DEF CallType
  <1>6. call' \in [Proc -> CallType] /\ Only(p) /\ call'[p] = n
    BY <1>5, UpdateFacts
  <1>7. QED
    BY <1>2, <1>6 DEF l

LEMMA LoadFacts ==
    ASSUME Shape, NEW p \in Proc, LoadCredential(p), LiveGrant # 0
    PROVE  /\ call' \in [Proc -> CallType] /\ Only(p)
           /\ call'[p] = [call[p] EXCEPT !.at = "exchange", !.tok = LiveGrant,
                            !.fgen = fence["refresh"].gen + 1, !.prev = fence["refresh"].slot]
  <1>1. call \in [Proc -> CallType] /\ call[p] \in CallType
    BY DEF Shape
  <1>2. LiveGrant \in 0..MaxGrant /\ fence["refresh"].slot \in 0..MaxSlot
        /\ fence["refresh"].gen + 1 \in Nat /\ "exchange" \in Location
    BY LiveTypes DEF Kind, Location
  <1> DEFINE g == LiveGrant
             f == fence["refresh"].gen + 1
             s == fence["refresh"].slot
             n == [call[p] EXCEPT !.at = "exchange", !.tok = g, !.fgen = f, !.prev = s]
  <1>3. call' = [call EXCEPT ![p].at = "exchange", ![p].tok = g, ![p].fgen = f, ![p].prev = s]
    BY DEF LoadCredential, NextGen
  <1> HIDE DEF g, f, s
  <1>4. n \in CallType /\ call' = [call EXCEPT ![p] = n]
    BY <1>1, <1>2, <1>3 DEF CallType, g, f, s
  <1>5. QED
    BY <1>4, UpdateFacts DEF g, f, s

LEMMA LoadFields ==
    ASSUME Shape, NEW p \in Proc, LoadCredential(p), LiveGrant # 0
    PROVE  /\ call' \in [Proc -> CallType] /\ Only(p)
           /\ call'[p].at = "exchange" /\ call'[p].tok = LiveGrant
           /\ call'[p].fgen = fence["refresh"].gen + 1
           /\ call'[p].prev = fence["refresh"].slot /\ call'[p].op = call[p].op
           /\ call'[p].kind = call[p].kind /\ call'[p].gen = call[p].gen
           /\ call'[p].rec = call[p].rec /\ call'[p].slot = call[p].slot
           /\ call'[p].next = call[p].next
  <1>1. call[p] \in CallType
    BY DEF Shape
  <1>2. /\ call' \in [Proc -> CallType] /\ Only(p)
        /\ call'[p] = [call[p] EXCEPT !.at = "exchange", !.tok = LiveGrant,
                         !.fgen = fence["refresh"].gen + 1, !.prev = fence["refresh"].slot]
    BY LoadFacts
  <1>3. QED
    BY <1>1, <1>2 DEF CallType

\* An exchange that is answered with grant g.
LEMMA ExchangedFacts ==
    ASSUME Shape, NEW p \in Proc, NEW g \in 1..MaxGrant,
           call' = [call EXCEPT ![p].at = "gate", ![p].tok = g]
    PROVE  /\ call' \in [Proc -> CallType] /\ Only(p)
           /\ call'[p] = [call[p] EXCEPT !.at = "gate", !.tok = g]
  <1>1. call \in [Proc -> CallType] /\ call[p] \in CallType
    BY DEF Shape
  <1>2. "gate" \in Location /\ g \in 0..MaxGrant
    BY DEF Location
  <1>3. [call[p] EXCEPT !.at = "gate", !.tok = g] \in CallType
        /\ call' = [call EXCEPT ![p] = [call[p] EXCEPT !.at = "gate", !.tok = g]]
    BY <1>1, <1>2 DEF CallType
  <1>4. QED
    BY <1>3, UpdateFacts

LEMMA AdoptFacts ==
    ASSUME Shape, NEW p \in Proc, Adopt(p), SameRecord(p), ~SlotMissing("refresh")
    PROVE  /\ call' \in [Proc -> CallType] /\ Only(p)
           /\ call'[p] = [call[p] EXCEPT !.at = "set", !.fgen = fence["refresh"].gen + 1,
                                         !.prev = fence["refresh"].slot]
  <1>1. call \in [Proc -> CallType] /\ call[p] \in CallType
    BY DEF Shape
  <1>2. fence["refresh"].slot \in 0..MaxSlot /\ fence["refresh"].gen + 1 \in Nat
        /\ "set" \in Location
    BY LiveTypes DEF Kind, Location
  <1> DEFINE f == fence["refresh"].gen + 1
             s == fence["refresh"].slot
             n == [call[p] EXCEPT !.at = "set", !.fgen = f, !.prev = s]
  <1>3. call' = [call EXCEPT ![p].at = "set", ![p].fgen = f, ![p].prev = s]
    BY DEF Adopt, NextGen
  <1> HIDE DEF f, s
  <1>4. n \in CallType /\ call' = [call EXCEPT ![p] = n]
    BY <1>1, <1>2, <1>3 DEF CallType, f, s
  <1>5. QED
    BY <1>4, UpdateFacts DEF f, s

LEMMA AdoptFields ==
    ASSUME Shape, NEW p \in Proc, Adopt(p), SameRecord(p), ~SlotMissing("refresh")
    PROVE  /\ call' \in [Proc -> CallType] /\ Only(p)
           /\ call'[p].at = "set" /\ call'[p].fgen = fence["refresh"].gen + 1
           /\ call'[p].prev = fence["refresh"].slot /\ call'[p].op = call[p].op
           /\ call'[p].kind = call[p].kind /\ call'[p].gen = call[p].gen
           /\ call'[p].rec = call[p].rec /\ call'[p].tok = call[p].tok
           /\ call'[p].slot = call[p].slot /\ call'[p].next = call[p].next
  <1>1. call[p] \in CallType
    BY DEF Shape
  <1>2. /\ call' \in [Proc -> CallType] /\ Only(p)
        /\ call'[p] = [call[p] EXCEPT !.at = "set", !.fgen = fence["refresh"].gen + 1,
                                      !.prev = fence["refresh"].slot]
    BY AdoptFacts
  <1>3. QED
    BY <1>1, <1>2 DEF CallType

LEMMA RecheckFacts ==
    ASSUME Shape, NEW p \in Proc, Recheck(p), ~SlotMissing("client"), RegisteredClient # 0
    PROVE  /\ call' \in [Proc -> CallType] /\ Only(p)
           /\ call'[p] = [call[p] EXCEPT !.at = "release", !.rec = RegisteredClient,
                                         !.next = "consent"]
  <1>1. call \in [Proc -> CallType] /\ call[p] \in CallType
    BY DEF Shape
  <1>2. RegisteredClient \in 0..MaxClient /\ "release" \in Location
    BY LiveTypes DEF Location
  <1> DEFINE r == RegisteredClient
             n == [call[p] EXCEPT !.at = "release", !.rec = r, !.next = "consent"]
  <1>3. call' = [call EXCEPT ![p].at = "release", ![p].rec = r, ![p].next = "consent"]
    BY DEF Recheck
  <1> HIDE DEF r
  <1>4. n \in CallType /\ call' = [call EXCEPT ![p] = n]
    BY <1>1, <1>2, <1>3 DEF CallType, r
  <1>5. QED
    BY <1>4, UpdateFacts DEF r

LEMMA RecheckFields ==
    ASSUME Shape, NEW p \in Proc, Recheck(p), ~SlotMissing("client"), RegisteredClient # 0
    PROVE  /\ call' \in [Proc -> CallType] /\ Only(p)
           /\ call'[p].at = "release" /\ call'[p].rec = RegisteredClient
           /\ call'[p].next = "consent" /\ call'[p].op = call[p].op
           /\ call'[p].kind = call[p].kind /\ call'[p].gen = call[p].gen
           /\ call'[p].tok = call[p].tok /\ call'[p].fgen = call[p].fgen
           /\ call'[p].prev = call[p].prev /\ call'[p].slot = call[p].slot
  <1>1. call[p] \in CallType
    BY DEF Shape
  <1>2. /\ call' \in [Proc -> CallType] /\ Only(p)
        /\ call'[p] = [call[p] EXCEPT !.at = "release", !.rec = RegisteredClient, !.next = "consent"]
    BY RecheckFacts
  <1>3. QED
    BY <1>1, <1>2 DEF CallType

LEMMA PostFacts ==
    ASSUME Shape, NEW p \in Proc, NEW c \in 1..MaxClient,
           call' = [call EXCEPT ![p].at = "existing", ![p].rec = c]
    PROVE  /\ call' \in [Proc -> CallType] /\ Only(p)
           /\ call'[p] = [call[p] EXCEPT !.at = "existing", !.rec = c]
  <1>1. call \in [Proc -> CallType] /\ call[p] \in CallType
    BY DEF Shape
  <1>2. "existing" \in Location /\ c \in 0..MaxClient
    BY DEF Location
  <1>3. [call[p] EXCEPT !.at = "existing", !.rec = c] \in CallType
        /\ call' = [call EXCEPT ![p] = [call[p] EXCEPT !.at = "existing", !.rec = c]]
    BY <1>1, <1>2 DEF CallType
  <1>4. QED
    BY <1>3, UpdateFacts

LEMMA SetFacts ==
    ASSUME Shape, NEW p \in Proc, SetSlot(p)
    PROVE  \E n \in 1..MaxSlot, l \in {"rollback", "read", "sweep"} :
             /\ call' \in [Proc -> CallType] /\ Only(p)
             /\ call'[p] = [call[p] EXCEPT !.slot = n, !.at = l]
             /\ FreshSlot(call[p].kind, n)
             /\ l = "read" => call[p].kind = "client"
             /\ l = "sweep" => call[p].kind = "refresh"
             /\ l = "rollback" => Fault
             /\ l # "rollback" => UNCHANGED faults /\
                    keyring' = [keyring EXCEPT ![<<call[p].kind, n>>] = Secret(p)]
             /\ \/ keyring' = keyring
                \/ keyring' = [keyring EXCEPT ![<<call[p].kind, n>>] = Secret(p)]
  <1>1. call \in [Proc -> CallType] /\ call[p] \in CallType /\ call[p].kind \in Kind
    BY DEF Shape, CallType
  <1>2. PICK n \in 1..MaxSlot, written \in BOOLEAN, reported \in BOOLEAN :
             /\ FreshSlot(call[p].kind, n)
             /\ reported => written
             /\ MayFault(reported)
             /\ keyring' = IF written THEN [keyring EXCEPT ![<<call[p].kind, n>>] = Secret(p)]
                                      ELSE keyring
             /\ call' = [call EXCEPT ![p].slot = n,
                            ![p].at = IF ~reported THEN "rollback"
                                      ELSE IF call[p].kind = "client" THEN "read" ELSE "sweep"]
    BY DEF SetSlot
  <1> DEFINE l == IF ~reported THEN "rollback"
                  ELSE IF call[p].kind = "client" THEN "read" ELSE "sweep"
             m == [call[p] EXCEPT !.slot = n, !.at = l]
  <1>3. /\ l \in {"rollback", "read", "sweep"}
        /\ l = "read" => call[p].kind = "client"
        /\ l = "sweep" => call[p].kind = "refresh"
        /\ l = "rollback" => Fault
        /\ l # "rollback" => UNCHANGED faults /\ reported
    BY <1>1, <1>2 DEF Kind, MayFault
  <1>4. l \in Location /\ n \in 0..MaxSlot
    BY <1>3 DEF Location
  <1>5. call' = [call EXCEPT ![p].slot = n, ![p].at = l]
    BY <1>2
  <1> HIDE DEF l
  <1>6. m \in CallType /\ call' = [call EXCEPT ![p] = m]
    BY <1>1, <1>4, <1>5 DEF CallType
  <1>7. call' \in [Proc -> CallType] /\ Only(p) /\ call'[p] = m
    BY <1>6, UpdateFacts
  <1>8. QED
    BY <1>2, <1>3, <1>7

LEMMA ReadFacts ==
    ASSUME Shape, NEW p \in Proc, ReadClientFence(p)
    PROVE  /\ call' \in [Proc -> CallType] /\ Only(p)
           /\ call'[p] = [call[p] EXCEPT !.at = "commit", !.fgen = fence["client"].gen + 1,
                                         !.prev = fence["client"].slot]
  <1>1. call \in [Proc -> CallType] /\ call[p] \in CallType
    BY DEF Shape
  <1>2. fence["client"].slot \in 0..MaxSlot /\ fence["client"].gen + 1 \in Nat
        /\ "commit" \in Location
    BY LiveTypes DEF Kind, Location
  <1> DEFINE f == fence["client"].gen + 1
             s == fence["client"].slot
             n == [call[p] EXCEPT !.at = "commit", !.fgen = f, !.prev = s]
  <1>3. call' = [call EXCEPT ![p].at = "commit", ![p].fgen = f, ![p].prev = s]
    BY DEF ReadClientFence, NextGen
  <1> HIDE DEF f, s
  <1>4. n \in CallType /\ call' = [call EXCEPT ![p] = n]
    BY <1>1, <1>2, <1>3 DEF CallType, f, s
  <1>5. QED
    BY <1>4, UpdateFacts DEF f, s

LEMMA ReadFields ==
    ASSUME Shape, NEW p \in Proc, ReadClientFence(p)
    PROVE  /\ call' \in [Proc -> CallType] /\ Only(p)
           /\ call'[p].at = "commit" /\ call'[p].fgen = fence["client"].gen + 1
           /\ call'[p].prev = fence["client"].slot /\ call'[p].op = call[p].op
           /\ call'[p].kind = call[p].kind /\ call'[p].gen = call[p].gen
           /\ call'[p].rec = call[p].rec /\ call'[p].tok = call[p].tok
           /\ call'[p].slot = call[p].slot /\ call'[p].next = call[p].next
  <1>1. call[p] \in CallType
    BY DEF Shape
  <1>2. /\ call' \in [Proc -> CallType] /\ Only(p)
        /\ call'[p] = [call[p] EXCEPT !.at = "commit", !.fgen = fence["client"].gen + 1,
                                      !.prev = fence["client"].slot]
    BY ReadFacts
  <1>3. QED
    BY <1>1, <1>2 DEF CallType

LEMMA CommitFacts ==
    ASSUME Shape, NEW p \in Proc, Commit(p)
    PROVE  \E l \in {"dropLegacy", "unmark"}, nx \in {"idle", "consent"}, pr \in 0..MaxSlot :
             /\ call' \in [Proc -> CallType] /\ Only(p)
             /\ call'[p] = [call[p] EXCEPT !.at = l, !.next = nx, !.prev = pr, !.slot = 0,
                                           !.tok = 0, !.fgen = 0]
             /\ l = "dropLegacy" <=> call[p].kind = "client"
  <1>1. call \in [Proc -> CallType] /\ call[p] \in CallType /\ call[p].prev \in 0..MaxSlot
    BY DEF Shape, CallType
  <1> DEFINE k == call[p].kind
             l == IF k = "client" THEN "dropLegacy" ELSE "unmark"
             nx == IF k = "client" THEN "consent" ELSE "idle"
             pr == IF k = "client" THEN 0 ELSE call[p].prev
             m == [call[p] EXCEPT !.at = l, !.next = nx, !.prev = pr, !.slot = 0, !.tok = 0,
                                  !.fgen = 0]
  <1>2. /\ l \in {"dropLegacy", "unmark"} /\ nx \in {"idle", "consent"} /\ pr \in 0..MaxSlot
        /\ l \in Location /\ 0 \in 0..MaxSlot /\ 0 \in 0..MaxGrant
        /\ l = "dropLegacy" <=> k = "client"
    BY <1>1, Bounds DEF Location
  <1>3. call' = [call EXCEPT ![p].at = l, ![p].next = nx, ![p].prev = pr,
                             ![p].slot = 0, ![p].tok = 0, ![p].fgen = 0]
    BY DEF Commit
  <1> HIDE DEF l, nx, pr
  <1>4. m \in CallType /\ call' = [call EXCEPT ![p] = m]
    BY <1>1, <1>2, <1>3 DEF CallType
  <1>5. call' \in [Proc -> CallType] /\ Only(p) /\ call'[p] = m
    BY <1>4, UpdateFacts
  <1>6. QED
    BY <1>2, <1>5

LEMMA InvalidateLoadFacts ==
    ASSUME Shape, NEW p \in Proc, InvalidateLoad(p), ~SlotMissing("refresh")
    PROVE  /\ call' \in [Proc -> CallType] /\ Only(p)
           /\ call'[p] = [call[p] EXCEPT !.at = "invMark", !.tok = 0, !.fgen = 0,
                                         !.prev = fence["refresh"].slot]
  <1>1. call \in [Proc -> CallType] /\ call[p] \in CallType
    BY DEF Shape
  <1>2. fence["refresh"].slot \in 0..MaxSlot /\ "invMark" \in Location /\ 0 \in 0..MaxGrant
        /\ 0 \in Nat
    BY LiveTypes, Bounds DEF Kind, Location
  <1>3. (IF LiveGrant = 0 THEN 0 ELSE fence["refresh"].slot) = fence["refresh"].slot
    BY DEF LiveGrant, SlotMissing
  <1> DEFINE s == fence["refresh"].slot
             n == [call[p] EXCEPT !.at = "invMark", !.tok = 0, !.fgen = 0, !.prev = s]
  <1>4. call' = [call EXCEPT ![p].at = "invMark", ![p].tok = 0, ![p].fgen = 0, ![p].prev = s]
    BY <1>3 DEF InvalidateLoad
  <1> HIDE DEF s
  <1>5. n \in CallType /\ call' = [call EXCEPT ![p] = n]
    BY <1>1, <1>2, <1>4 DEF CallType, s
  <1>6. QED
    BY <1>5, UpdateFacts DEF s

LEMMA InvalidateLoadFields ==
    ASSUME Shape, NEW p \in Proc, InvalidateLoad(p), ~SlotMissing("refresh")
    PROVE  /\ call' \in [Proc -> CallType] /\ Only(p)
           /\ call'[p].at = "invMark" /\ call'[p].tok = 0 /\ call'[p].fgen = 0
           /\ call'[p].prev = fence["refresh"].slot /\ call'[p].op = call[p].op
           /\ call'[p].kind = call[p].kind /\ call'[p].gen = call[p].gen
           /\ call'[p].rec = call[p].rec /\ call'[p].slot = call[p].slot
           /\ call'[p].next = call[p].next
  <1>1. call[p] \in CallType
    BY DEF Shape
  <1>2. /\ call' \in [Proc -> CallType] /\ Only(p)
        /\ call'[p] = [call[p] EXCEPT !.at = "invMark", !.tok = 0, !.fgen = 0,
                                      !.prev = fence["refresh"].slot]
    BY InvalidateLoadFacts
  <1>3. QED
    BY <1>1, <1>2 DEF CallType

LEMMA LogoutReadFacts ==
    ASSUME Shape, NEW p \in Proc, LogoutRead(p)
    PROVE  /\ call' \in [Proc -> CallType] /\ Only(p)
           /\ \/ /\ At(p, "outGrant")
                 /\ call'[p] = [call[p] EXCEPT !.at = "outGrantSlot", !.kind = "refresh",
                                               !.prev = fence["refresh"].slot]
              \/ /\ At(p, "outClient")
                 /\ call'[p] = [call[p] EXCEPT !.at = "outClientSlot", !.kind = "client",
                                               !.prev = fence["client"].slot]
  <1>1. call \in [Proc -> CallType] /\ call[p] \in CallType
    BY DEF Shape
  <1>2. /\ fence["refresh"].slot \in 0..MaxSlot /\ fence["client"].slot \in 0..MaxSlot
        /\ "outGrantSlot" \in Location /\ "outClientSlot" \in Location
        /\ "refresh" \in Kind /\ "client" \in Kind
    BY LiveTypes DEF Kind, Location
  <1> DEFINE s == fence["refresh"].slot
             t == fence["client"].slot
             n == [call[p] EXCEPT !.at = "outGrantSlot", !.kind = "refresh", !.prev = s]
             m == [call[p] EXCEPT !.at = "outClientSlot", !.kind = "client", !.prev = t]
  <1>3. \/ /\ At(p, "outGrant")
           /\ call' = [call EXCEPT ![p].at = "outGrantSlot", ![p].kind = "refresh", ![p].prev = s]
        \/ /\ At(p, "outClient")
           /\ call' = [call EXCEPT ![p].at = "outClientSlot", ![p].kind = "client", ![p].prev = t]
    BY DEF LogoutRead
  <1> HIDE DEF s, t
  <1>4. n \in CallType /\ m \in CallType
    BY <1>1, <1>2 DEF CallType, s, t
  <1>5. \/ At(p, "outGrant") /\ call' = [call EXCEPT ![p] = n]
        \/ At(p, "outClient") /\ call' = [call EXCEPT ![p] = m]
    BY <1>1, <1>3
  <1>6. QED
    BY <1>4, <1>5, UpdateFacts DEF s, t

LEMMA ReleaseFacts ==
    ASSUME Shape, NEW p \in Proc, Release(p)
    PROVE  /\ call' \in [Proc -> CallType] /\ Only(p)
           /\ \/ call'[p] = NoCall
              \/ call'[p] = [NoCall EXCEPT !.op = "register", !.at = "consent",
                                           !.rec = call[p].rec]
  <1>1. call \in [Proc -> CallType] /\ call[p] \in CallType /\ call[p].rec \in 0..MaxClient
    BY DEF Shape, CallType
  <1>2. [NoCall EXCEPT !.op = "register", !.at = "consent", !.rec = call[p].rec] \in CallType
    <2>1. "register" \in Op /\ "consent" \in Location
      BY DEF Op, Location
    <2>2. QED
      BY <1>1, <2>1, NoCallType DEF CallType
  <1>3. \/ call' = [call EXCEPT ![p] = NoCall]
        \/ call' = [call EXCEPT ![p] = [NoCall EXCEPT !.op = "register", !.at = "consent",
                                                      !.rec = call[p].rec]]
    BY DEF Release
  <1>4. QED
    BY <1>2, <1>3, NoCallType, UpdateFacts

LEMMA ConsentFacts ==
    ASSUME Shape, NEW p \in Proc, Consent(p)
    PROVE  /\ call' \in [Proc -> CallType] /\ Only(p)
           /\ \/ call'[p] = NoCall
              \/ call'[p] = [call[p] EXCEPT !.op = "complete", !.at = "claim"]
  <1>1. call \in [Proc -> CallType] /\ call[p] \in CallType
    BY DEF Shape
  <1>2. [call[p] EXCEPT !.op = "complete", !.at = "claim"] \in CallType
    <2>1. "complete" \in Op /\ "claim" \in Location
      BY DEF Op, Location
    <2>2. QED
      BY <1>1, <2>1 DEF CallType
  <1>3. \/ call' = [call EXCEPT ![p] = NoCall]
        \/ call' = [call EXCEPT ![p] = [call[p] EXCEPT !.op = "complete", !.at = "claim"]]
    BY <1>1 DEF Consent
  <1>4. QED
    BY <1>2, <1>3, NoCallType, UpdateFacts

-----------------------------------------------------------------------------
(* A step is one process's, or the environment's.                          *)

Acts(p) ==
    Start(p) \/ Step(p) \/ Fails(p) \/ Crash(p) \/ ExchangeLost(p) \/ ScopeMismatch(p)
Environs == Lapse \/ Stall \/ Expire \/ Revoke

LEMMA LeaseTypes ==
    ASSUME NEW r \in LeaseRow(Proc \union {Dead}), NEW p \in Proc
    PROVE  /\ ClaimLease(r, p, 0) \in LeaseRow(Proc \union {Dead})
           /\ ReleaseLease(r, p) \in LeaseRow(Proc \union {Dead})
           /\ Elapse(r) \in LeaseRow(Proc \union {Dead})
           /\ [r EXCEPT !.owner = Dead] \in LeaseRow(Proc \union {Dead})
           /\ ClaimLease(r, p, 0).gen \in Nat
  BY TTLAssumption DEF NoLease, LeaseRow, ClaimLease, ReleaseLease, Elapse

\* What a step of p does to its call; Local is preserved.
LEMMA OwnCall ==
    ASSUME Shape, Private, NEW p \in Proc, Acts(p)
    PROVE  call' \in [Proc -> CallType] /\ Only(p) /\ Local(call'[p])
  <1> DEFINE c == call[p]
             d == call'[p]
             Goal == call' \in [Proc -> CallType] /\ Only(p) /\ Local(d)
  <1>0. c \in CallType /\ Local(c) /\ c.kind \in Kind /\ c.slot \in 0..MaxSlot
    BY DEF Shape, Private, CallType
  <1>f. ASSUME Fail(p) PROVE Goal
    BY <1>f, FailFacts DEF Local, Blank
  <1>e. ASSUME call' = [call EXCEPT ![p] = NoCall] PROVE Goal
    BY <1>e, EndFacts DEF Local, Blank
  <1>g. ASSUME NEW l \in Location, Goto(p, l)
        PROVE  call' \in [Proc -> CallType] /\ Only(p) /\ Moved(c, d, l)
    BY <1>g, GotoFacts
  <1>i. ASSUME NEW l \in {"invLoad", "release", "rollback", "invClear", "invLegacy", "invSlot",
                          "invUnmark", "outClient", "outLegacyClient", "outLegacyGrant",
                          "outUnmark", "outSweep"},
               Goto(p, l), c.slot # 0 => l = "rollback"
        PROVE  Goal
    <2>1. l \in Location
      BY <1>i DEF Location
    <2>2. QED
      BY <1>0, <1>i, <1>g, <2>1 DEF Local, Moved
  <1>s. ASSUME StoreClient(p), c.slot = 0 PROVE Goal
    BY <1>0, <1>s, StoreClientFacts DEF Local
  <1> HIDE DEF Goal
  <1> SUFFICES Goal
    BY DEF Goal
  <1>1. CASE Start(p)
    <2>1. lease'.gen \in Nat \/ ~StartLogout(p)
      BY LeaseTypes DEF Shape, StartLogout
    <2>2. /\ call' \in [Proc -> CallType] /\ Only(p) /\ d.kind = "refresh" /\ d.slot = 0
          /\ \/ d.at = "claim" /\ d.op \in {"refresh", "register"}
             \/ d.at \in {"consent", "outGrant"}
      <3>0. NoCall \in CallType /\ NoCall.kind = "refresh" /\ NoCall.slot = 0
        BY NoCallType, NoCallFields
      <3>1. CASE StartRefresh(p)
        <4>1. call' \in [Proc -> CallType] /\ Only(p)
              /\ d = [NoCall EXCEPT !.op = "refresh", !.at = "claim", !.rec = RegisteredClient]
          BY <3>1, StartFacts
        <4>2. QED
          BY <3>0, <4>1 DEF CallType
      <3>2. CASE StartLogin(p)
        <4> DEFINE l == IF RegisteredClient = 0 THEN "claim" ELSE "consent"
        <4>1. call' \in [Proc -> CallType] /\ Only(p)
              /\ d = [NoCall EXCEPT !.op = "register", !.rec = RegisteredClient, !.at = l]
          BY <3>2, StartFacts
        <4>2. l \in {"claim", "consent"}
          OBVIOUS
        <4> HIDE DEF l
        <4>3. QED
          BY <3>0, <4>1, <4>2 DEF CallType
      <3>3. CASE StartLogout(p)
        <4>1. call' \in [Proc -> CallType] /\ Only(p)
              /\ d = [NoCall EXCEPT !.op = "logout", !.at = "outGrant", !.gen = lease'.gen]
          BY <2>1, <3>3, StartFacts
        <4>2. QED
          BY <3>0, <4>1 DEF CallType
      <3>4. QED
        BY <1>1, <3>1, <3>2, <3>3 DEF Start
    <2>3. QED
      BY <2>2 DEF Goal, Local
  <1>2. CASE Claim(p)
    <2>1. lease'.gen \in Nat /\ c.at = "claim"
      BY <1>2, LeaseTypes DEF Shape, Claim, At
    <2>2. c.op \in {"refresh", "register", "complete"} /\ c.kind = "refresh" /\ c.slot = 0
      BY <1>0, <2>1 DEF Local
    <2> DEFINE l == FirstStep(c.op)
    <2>3. /\ call' \in [Proc -> CallType] /\ Only(p) /\ d = [c EXCEPT !.at = l, !.gen = lease'.gen]
          /\ l \in {"load", "recheck", "record"}
          /\ c.op = "refresh" => l = "load"
          /\ c.op = "register" => l = "recheck"
          /\ c.op = "complete" => l = "record"
      BY <1>2, <2>1, <2>2, ClaimFacts
    <2> HIDE DEF l
    <2>4. d.at = l /\ d.op = c.op /\ d.kind = "refresh" /\ d.slot = 0
      BY <1>0, <2>2, <2>3 DEF CallType
    <2>5. QED
      BY <2>2, <2>3, <2>4 DEF Goal, Local
  <1>3. CASE Contended(p) \/ Crash(p)
    BY <1>3, <1>e DEF Contended, Crash
  <1>4. CASE LoadCredential(p)
    <2>1. c.at = "load" /\ (LiveGrant = 0 => Fail(p))
      BY <1>4 DEF LoadCredential, At
    <2>2. CASE LiveGrant # 0
      <3>1. d.at = "exchange" /\ d.op = c.op /\ d.kind = c.kind /\ d.slot = c.slot /\ d.tok # 0
            /\ call' \in [Proc -> CallType] /\ Only(p)
        BY <1>0, <1>4, <2>2, LoadFields
      <3>2. QED
        BY <1>0, <2>1, <3>1 DEF Goal, Local
    <2>3. QED
      BY <1>f, <2>1, <2>2
  <1>5. CASE ExchangeRefresh(p) \/ ExchangeCode(p)
    <2>1. c.at = "exchange"
      BY <1>5 DEF ExchangeRefresh, ExchangeCode, At
    <2>2. Fail(p) \/ \E g \in 1..MaxGrant : call' = [call EXCEPT ![p].at = "gate", ![p].tok = g]
      BY <1>5 DEF ExchangeRefresh, ExchangeCode
    <2>3. ASSUME NEW g \in 1..MaxGrant, call' = [call EXCEPT ![p].at = "gate", ![p].tok = g]
          PROVE  Goal
      <3>0. call' \in [Proc -> CallType] /\ Only(p) /\ d = [c EXCEPT !.at = "gate", !.tok = g]
        BY <2>3, ExchangedFacts
      <3>1. d.at = "gate" /\ d.op = c.op /\ d.kind = c.kind /\ d.slot = c.slot /\ d.tok = g
            /\ g # 0 /\ call' \in [Proc -> CallType] /\ Only(p)
        BY <1>0, <3>0 DEF CallType
      <3>2. QED
        BY <1>0, <2>1, <3>1 DEF Goal, Local
    <2>4. QED
      BY <1>f, <2>2, <2>3
  <1>6. CASE ExchangeRejected(p) \/ ExchangeLost(p) \/ ScopeMismatch(p) \/ PostRefused(p) \/ Fails(p)
    <2>1. Fail(p) \/ (Goto(p, "invLoad") /\ c.slot = 0)
      BY <1>0, <1>6
         DEF ExchangeRejected, ExchangeLost, ScopeMismatch, PostRefused, Fails, At, Local
    <2>2. QED
      BY <1>f, <1>i, <2>1
  <1>7. CASE Gate(p) \/ CurrentRecord(p)
    <2>1. \/ Fail(p)
          \/ c.at = "gate" /\ c.op = "refresh" /\ Goto(p, "set")
          \/ c.at = "gate" /\ c.op = "complete" /\ Goto(p, "adopt")
          \/ c.at = "record" /\ Goto(p, "exchange")
      BY <1>0, <1>7 DEF Gate, CurrentRecord, At, Local
    <2>2. "set" \in Location /\ "adopt" \in Location /\ "exchange" \in Location
      BY DEF Location
    <2>3. QED
      BY <1>0, <1>f, <1>g, <2>1, <2>2 DEF Goal, Local, Moved
  <1>8. CASE Adopt(p)
    <2>1. c.at = "adopt" /\ (~SameRecord(p) \/ SlotMissing("refresh") => Fail(p))
      BY <1>8 DEF Adopt, At
    <2>2. CASE SameRecord(p) /\ ~SlotMissing("refresh")
      <3>1. d.at = "set" /\ d.op = c.op /\ d.kind = c.kind /\ d.slot = c.slot /\ d.tok = c.tok
            /\ call' \in [Proc -> CallType] /\ Only(p)
        BY <1>0, <1>8, <2>2, AdoptFields
      <3>2. QED
        BY <1>0, <2>1, <3>1 DEF Goal, Local
    <2>3. QED
      BY <1>f, <2>1, <2>2
  <1>9. CASE Recheck(p)
    <2>1. c.at = "recheck" /\ (SlotMissing("client") => Fail(p))
          /\ (~SlotMissing("client") /\ RegisteredClient = 0 => Goto(p, "post"))
      BY <1>9 DEF Recheck, At
    <2>2. CASE ~SlotMissing("client") /\ RegisteredClient # 0
      <3>1. d.at = "release" /\ d.kind = c.kind /\ d.slot = c.slot
            /\ call' \in [Proc -> CallType] /\ Only(p)
        BY <1>0, <1>9, <2>2, RecheckFields
      <3>2. QED
        BY <1>0, <2>1, <3>1 DEF Goal, Local
    <2>3. CASE Goto(p, "post")
      <3>1. "post" \in Location
        BY DEF Location
      <3>2. QED
        BY <1>0, <1>g, <2>1, <2>3, <3>1 DEF Goal, Local, Moved
    <2>4. QED
      BY <1>f, <2>1, <2>2, <2>3
  <1>10. CASE PostRegistration(p)
    <2>1. c.at = "post"
      BY <1>10 DEF PostRegistration, At
    <2>2. PICK k \in 1..MaxClient : call' = [call EXCEPT ![p].at = "existing", ![p].rec = k]
      BY <1>10 DEF PostRegistration
    <2>3. d.at = "existing" /\ d.op = c.op /\ d.kind = c.kind /\ d.slot = c.slot
          /\ call' \in [Proc -> CallType] /\ Only(p)
      BY <1>0, <2>2, PostFacts DEF CallType
    <2>4. QED
      BY <1>0, <2>1, <2>3 DEF Goal, Local
  <1>11. CASE LoadExisting(p)
    <2>1. c.slot = 0 /\ (Fail(p) \/ StoreClient(p) \/ Goto(p, "invLoad"))
      BY <1>0, <1>11 DEF LoadExisting, At, Local
    <2>2. QED
      BY <1>f, <1>i, <1>s, <2>1
  <1>12. CASE SetSlot(p)
    <2>1. PICK n \in 1..MaxSlot, l \in {"rollback", "read", "sweep"} :
             /\ call' \in [Proc -> CallType] /\ Only(p)
             /\ call'[p] = [call[p] EXCEPT !.slot = n, !.at = l]
             /\ FreshSlot(call[p].kind, n)
             /\ l = "read" => call[p].kind = "client"
             /\ l = "sweep" => call[p].kind = "refresh"
             /\ l = "rollback" => Fault
             /\ l # "rollback" => UNCHANGED faults /\
                    keyring' = [keyring EXCEPT ![<<call[p].kind, n>>] = Secret(p)]
             /\ \/ keyring' = keyring
                \/ keyring' = [keyring EXCEPT ![<<call[p].kind, n>>] = Secret(p)]
      BY <1>12, SetFacts
    <2>2. d.at = l /\ d.op = c.op /\ d.kind = c.kind /\ d.slot = n /\ d.tok = c.tok /\ n # 0
          /\ c.at = "set"
      BY <1>0, <1>12, <2>1 DEF CallType, SetSlot, At
    <2>3. QED
      BY <1>0, <2>1, <2>2 DEF Goal, Local
  <1>13. CASE ReadClientFence(p)
    <2>1. c.at = "read"
      BY <1>13 DEF ReadClientFence, At
    <2>2. d.at = "commit" /\ d.kind = c.kind /\ d.slot = c.slot /\ d.op = c.op
          /\ call' \in [Proc -> CallType] /\ Only(p)
      BY <1>0, <1>13, ReadFields
    <2>3. QED
      BY <1>0, <2>1, <2>2 DEF Goal, Local
  <1>14. CASE Commit(p)
    <2>1. PICK l \in {"dropLegacy", "unmark"}, nx \in {"idle", "consent"}, pr \in 0..MaxSlot :
             /\ call' \in [Proc -> CallType] /\ Only(p)
             /\ d = [c EXCEPT !.at = l, !.next = nx, !.prev = pr, !.slot = 0, !.tok = 0,
                              !.fgen = 0]
             /\ l = "dropLegacy" <=> c.kind = "client"
      BY <1>14, CommitFacts
    <2>2. d.at = l /\ d.kind = c.kind /\ d.slot = 0 /\ (l = "unmark" => c.kind = "refresh")
      BY <1>0, <2>1 DEF CallType, Kind
    <2>3. QED
      BY <2>1, <2>2 DEF Goal, Local
  <1>15. CASE CommitRejected(p) \/ Rollback(p)
    BY <1>15, <1>f, <1>i DEF CommitRejected, Rollback
  <1>16. CASE Sweep(p)
    <2>1. \/ c.at = "sweep" /\ Goto(p, "commit")
          \/ c.at = "outSweep" /\ Goto(p, "release")
      BY <1>16 DEF Sweep, At
    <2>2. "commit" \in Location /\ (c.at = "outSweep" => c.slot = 0)
      BY <1>0 DEF Location, Local
    <2>3. CASE c.at = "sweep" /\ Goto(p, "commit")
      BY <1>0, <1>g, <2>2, <2>3 DEF Goal, Local, Moved
    <2>4. QED
      BY <1>i, <2>1, <2>2, <2>3
  <1>17. CASE UnmarkCommitted(p) \/ DropLegacy(p) \/ DropPrevious(p)
    <2>1. \/ Goto(p, "dropLegacy") \/ Goto(p, "release")
          \/ c.kind = "refresh" /\ Goto(p, "dropPrevious")
      BY <1>0, <1>17 DEF UnmarkCommitted, DropLegacy, DropPrevious, Kind
    <2>2. "dropLegacy" \in Location /\ "dropPrevious" \in Location /\ c.slot = 0
      BY <1>0, <1>17 DEF UnmarkCommitted, DropLegacy, DropPrevious, At, Location, Local
    <2>3. QED
      BY <1>0, <1>g, <1>i, <2>1, <2>2 DEF Goal, Local, Moved
  <1>18. CASE InvalidateLoad(p)
    <2>1. c.at = "invLoad" /\ (SlotMissing("refresh") => Fail(p))
      BY <1>18 DEF InvalidateLoad, At
    <2>2. CASE ~SlotMissing("refresh")
      <3>1. d.at = "invMark" /\ d.slot = c.slot /\ call' \in [Proc -> CallType] /\ Only(p)
        BY <1>0, <1>18, <2>2, InvalidateLoadFields
      <3>2. QED
        BY <1>0, <2>1, <3>1 DEF Goal, Local
    <2>3. QED
      BY <1>f, <2>1, <2>2
  <1>19. CASE Mark(p)
    <2>1. c.slot = 0 /\ \/ Goto(p, "invClear")
                        \/ c.kind = "refresh" /\ Goto(p, "outClearGrant")
      BY <1>0, <1>19 DEF Mark, At, Local
    <2>2. "outClearGrant" \in Location
      BY DEF Location
    <2>3. QED
      BY <1>g, <1>i, <2>1, <2>2 DEF Goal, Local, Moved
  <1>20. CASE InvalidateClear(p) \/ InvalidateSlot(p) \/ InvalidateLegacy(p) \/ InvalidateUnmark(p)
    <2>1. c.slot = 0
      BY <1>0, <1>20 DEF InvalidateClear, InvalidateSlot, InvalidateLegacy, InvalidateUnmark,
                        At, Local
    <2>2. Fail(p) \/ StoreClient(p) \/ \E l \in {"invLegacy", "invSlot", "invUnmark", "release"} : Goto(p, l)
      BY <1>20 DEF InvalidateClear, InvalidateSlot, InvalidateLegacy, InvalidateUnmark, Invalidated
    <2>3. QED
      BY <1>f, <1>i, <1>s, <2>1, <2>2
  <1>21. CASE LogoutRead(p)
    <2>1. c.slot = 0
      BY <1>0, <1>21 DEF LogoutRead, At, Local
    <2>2. /\ call' \in [Proc -> CallType] /\ Only(p)
          /\ \/ d = [c EXCEPT !.at = "outGrantSlot", !.kind = "refresh",
                              !.prev = fence["refresh"].slot]
             \/ d = [c EXCEPT !.at = "outClientSlot", !.kind = "client",
                              !.prev = fence["client"].slot]
      BY <1>21, LogoutReadFacts
    <2>3. d.at \in {"outGrantSlot", "outClientSlot"} /\ d.slot = 0
          /\ (d.at = "outGrantSlot" => d.kind = "refresh")
          /\ (d.at = "outClientSlot" => d.kind = "client")
      BY <1>0, <2>1, <2>2 DEF CallType
    <2>4. QED
      BY <2>2, <2>3 DEF Goal, Local
  <1>22. CASE LogoutSlot(p) \/ LogoutClear(p) \/ LogoutLegacy(p) \/ LogoutUnmark(p)
    <2>1. c.slot = 0
      BY <1>0, <1>22 DEF LogoutSlot, LogoutClear, LogoutLegacy, LogoutUnmark, At, Local
    <2>2. \/ Fail(p)
          \/ c.kind = "refresh" /\ Goto(p, "outMark")
          \/ c.kind = "client" /\ Goto(p, "outClearClient")
          \/ \E l \in {"outClient", "outLegacyClient", "outLegacyGrant", "outUnmark", "outSweep"} :
                Goto(p, l)
      BY <1>0, <1>22 DEF LogoutSlot, LogoutClear, LogoutLegacy, LogoutUnmark, At, Local
    <2>3. "outMark" \in Location /\ "outClearClient" \in Location
      BY DEF Location
    <2>4. QED
      BY <1>f, <1>g, <1>i, <2>1, <2>2, <2>3 DEF Goal, Local, Moved
  <1>23. CASE Release(p)
    <2>1. /\ call' \in [Proc -> CallType] /\ Only(p)
          /\ d.kind = "refresh" /\ d.slot = 0 /\ d.at \in {"idle", "consent"}
      <3>1. /\ call' \in [Proc -> CallType] /\ Only(p)
            /\ \/ d = NoCall
               \/ d = [NoCall EXCEPT !.op = "register", !.at = "consent", !.rec = c.rec]
        BY <1>23, ReleaseFacts
      <3>2. QED
        BY <3>1, NoCallType, NoCallFields DEF CallType
    <2>2. QED
      BY <2>1 DEF Goal, Local
  <1>24. CASE Consent(p)
    <2>1. c.at = "consent"
      BY <1>24 DEF Consent, At
    <2>2. CASE d = NoCall
      <3>1. d.kind = "refresh" /\ d.slot = 0 /\ d.at = "idle"
        BY <2>2 DEF NoCall
      <3>2. QED
        BY <1>24, <3>1, ConsentFacts DEF Goal, Local
    <2>3. CASE d = [c EXCEPT !.op = "complete", !.at = "claim"]
      <3>1. d.at = "claim" /\ d.op = "complete" /\ d.kind = c.kind /\ d.slot = c.slot
        BY <1>0, <2>3 DEF CallType
      <3>2. QED
        BY <1>0, <1>24, <2>1, <3>1, ConsentFacts DEF Goal, Local
    <2>4. QED
      BY <1>24, <2>2, <2>3, ConsentFacts
  <1>25. QED
    BY <1>1, <1>2, <1>3, <1>4, <1>5, <1>6, <1>7, <1>8, <1>9, <1>10, <1>11, <1>12, <1>13, <1>14,
       <1>15, <1>16, <1>17, <1>18, <1>19, <1>20, <1>21, <1>22, <1>23, <1>24
       DEF Acts, Step

LEMMA NextForms ==
    [Next]_vars => \/ \E p \in Proc : Acts(p)
                   \/ Environs /\ UNCHANGED <<call, store, keyring, leaked, adopted>>
                   \/ UNCHANGED vars
  BY DEF Next, Acts, Environs, Lapse, Stall, Expire, Revoke, history

LEMMA CallStep ==
    ASSUME Shape, Private, [Next]_vars
    PROVE  call' \in [Proc -> CallType] /\ \A q \in Proc : Local(call'[q])
  <1>1. ASSUME NEW p \in Proc, Acts(p)
        PROVE  call' \in [Proc -> CallType] /\ \A q \in Proc : Local(call'[q])
    BY <1>1, OwnCall DEF Only, Private
  <1>2. CASE UNCHANGED call
    BY <1>2 DEF Shape, Private
  <1>3. QED
    BY <1>1, <1>2, NextForms DEF vars

-----------------------------------------------------------------------------
(* What a step can do to the keyring.                                      *)

\* Secrets are only deleted ...
Erased == \A k \in Kind, n \in 0..MaxSlot : keyring'[<<k, n>>] \in {0, keyring[<<k, n>>]}

\* ... or one is written to a slot nothing refers to.
Written ==
    \E p \in Proc, n \in 1..MaxSlot :
        /\ SetSlot(p) /\ FreshSlot(call[p].kind, n) /\ call[p].kind \in Kind
        /\ keyring' = [keyring EXCEPT ![<<call[p].kind, n>>] = Secret(p)]
        /\ call'[p].slot = n /\ call'[p].kind = call[p].kind

LEMMA EraseFacts ==
    ASSUME Shape, NEW m \in Label, keyring' = [keyring EXCEPT ![m] = 0]
    PROVE  keyring' \in [Label -> Nat] /\ Erased /\ keyring'[m] = 0
           /\ \A l \in Label : keyring'[l] \in {0, keyring[l]}
  <1>1. \A k \in Kind, n \in 0..MaxSlot : <<k, n>> \in Label
    BY DEF Label
  <1>2. keyring \in [Label -> Nat]
    BY DEF Shape
  <1>3. keyring' \in [Label -> Nat] /\ keyring'[m] = 0
        /\ \A l \in Label : keyring'[l] \in {0, keyring[l]}
    BY <1>2
  <1>4. QED
    BY <1>1, <1>3 DEF Erased

LEMMA KeyStep ==
    ASSUME Shape, Private, [Next]_vars
    PROVE  keyring' \in [Label -> Nat] /\ (Erased \/ Written)
  <1> DEFINE Goal == keyring' \in [Label -> Nat] /\ (Erased \/ Written)
  <1>0. \A k \in Kind, n \in 0..MaxSlot : <<k, n>> \in Label
    BY DEF Label
  <1>1. CASE UNCHANGED keyring
    BY <1>1 DEF Shape, Erased
  <1>2. ASSUME NEW m \in Label, keyring' = [keyring EXCEPT ![m] = 0] PROVE Goal
    BY <1>2, EraseFacts
  <1>3. ASSUME NEW p \in Proc
        PROVE  /\ call[p].kind \in Kind /\ <<call[p].kind, 0>> \in Label
               /\ <<call[p].kind, call[p].slot>> \in Label
               /\ <<call[p].kind, call[p].prev>> \in Label
               /\ <<"refresh", call[p].prev>> \in Label
               /\ <<"refresh", 0>> \in Label /\ <<"client", 0>> \in Label
    <2>1. call[p].kind \in Kind /\ call[p].slot \in 0..MaxSlot /\ call[p].prev \in 0..MaxSlot
      BY DEF Shape, CallType
    <2>2. QED
      BY <1>0, <2>1, Bounds DEF Kind
  <1> HIDE DEF Goal
  <1> SUFFICES Goal
    BY DEF Goal
  <1>4. ASSUME NEW p \in Proc, SetSlot(p) PROVE Goal
    <2>1. PICK n \in 1..MaxSlot, l \in {"rollback", "read", "sweep"} :
             /\ call' \in [Proc -> CallType] /\ Only(p)
             /\ call'[p] = [call[p] EXCEPT !.slot = n, !.at = l]
             /\ FreshSlot(call[p].kind, n)
             /\ l = "read" => call[p].kind = "client"
             /\ l = "sweep" => call[p].kind = "refresh"
             /\ l = "rollback" => Fault
             /\ l # "rollback" => UNCHANGED faults /\
                    keyring' = [keyring EXCEPT ![<<call[p].kind, n>>] = Secret(p)]
             /\ \/ keyring' = keyring
                \/ keyring' = [keyring EXCEPT ![<<call[p].kind, n>>] = Secret(p)]
      BY <1>4, SetFacts
    <2>2. call'[p].slot = n /\ call'[p].kind = call[p].kind /\ Secret(p) \in Nat
      BY SMTT(30), <2>1, Bounds DEF Shape, CallType, Secret
    <2>3. CASE keyring' = keyring
      BY <1>1, <2>3 DEF Goal
    <2>4. CASE keyring' = [keyring EXCEPT ![<<call[p].kind, n>>] = Secret(p)]
      <3>1. keyring' \in [Label -> Nat]
        BY <2>2, <2>4 DEF Shape
      <3>2. Written
        BY <1>3, <1>4, <2>1, <2>2, <2>4 DEF Written
      <3>3. QED
        BY <3>1, <3>2 DEF Goal
    <2>5. QED
      BY <2>1, <2>3, <2>4
  <1>5. ASSUME NEW p \in Proc, Sweep(p) PROVE Goal
    <2>1. PICK kept \in SUBSET retired :
             keyring' = [l \in Label |-> IF l \in retired \ kept THEN 0 ELSE keyring[l]]
      BY <1>5 DEF Sweep, Swept
    <2>2. keyring' \in [Label -> Nat] /\ \A l \in Label : keyring'[l] \in {0, keyring[l]}
      BY <2>1 DEF Shape
    <2>3. QED
      BY <1>0, <2>2 DEF Goal, Erased
  <1>6. ASSUME NEW p \in Proc,
               \/ Rollback(p) \/ DropLegacy(p) \/ DropPrevious(p) \/ InvalidateSlot(p)
               \/ InvalidateLegacy(p) \/ LogoutSlot(p) \/ LogoutLegacy(p)
        PROVE  Goal
    <2>1. UNCHANGED keyring \/ \E m \in Label : keyring' = [keyring EXCEPT ![m] = 0]
      <3>1. CASE Rollback(p)
        BY <1>3, <3>1 DEF Rollback
      <3>2. CASE DropLegacy(p) \/ DropPrevious(p)
        BY <1>3, <3>2 DEF DropLegacy, DropPrevious
      <3>3. CASE InvalidateSlot(p) \/ InvalidateLegacy(p)
        BY <1>3, <3>3 DEF InvalidateSlot, InvalidateLegacy
      <3>4. CASE LogoutSlot(p) \/ LogoutLegacy(p)
        BY <1>3, <3>4 DEF LogoutSlot, LogoutLegacy
      <3>5. QED
        BY <1>6, <3>1, <3>2, <3>3, <3>4
    <2>2. QED
      BY <1>1, <1>2, <2>1 DEF Goal
  <1>7. ASSUME NEW p \in Proc, Acts(p) PROVE Goal
    <2>1. CASE UNCHANGED keyring
      BY <1>1, <2>1 DEF Goal
    <2>2. QED
      BY <1>4, <1>5, <1>6, <1>7, <2>1
         DEF Acts, Start, Step, StartRefresh, StartLogin, StartLogout, Claim, Contended,
             LoadCredential, ExchangeRefresh, ExchangeRejected, ExchangeCode, Gate, CurrentRecord,
             Adopt, Recheck, PostRefused, PostRegistration, LoadExisting, ReadClientFence, Commit,
             CommitRejected, UnmarkCommitted, InvalidateLoad, Mark, InvalidateClear,
             InvalidateUnmark, LogoutRead, LogoutClear, LogoutUnmark, Release, Consent, Fails,
             Crash, ExchangeLost, ScopeMismatch
  <1>8. QED
    BY <1>1, <1>7, NextForms DEF vars, Goal

\* A label a fence or a call refers to is not written, and a legacy label never.
LEMMA KeptLabels ==
    ASSUME Shape, Private, [Next]_vars, NEW k \in Kind, NEW n \in 0..MaxSlot,
           \/ n = 0 \/ n = fence[k].slot \/ <<k, n>> \in retired
           \/ \E q \in Proc : call[q].kind = k /\ n = call[q].slot
    PROVE  keyring'[<<k, n>>] \in {0, keyring[<<k, n>>]}
  <1>1. CASE Erased
    BY <1>1 DEF Erased
  <1>2. CASE Written
    <2>1. PICK p \in Proc, m \in 1..MaxSlot :
             /\ FreshSlot(call[p].kind, m)
             /\ keyring' = [keyring EXCEPT ![<<call[p].kind, m>>] = Secret(p)]
      BY <1>2 DEF Written
    <2>2. <<k, n>> # <<call[p].kind, m>>
      <3>1. SUFFICES ASSUME k = call[p].kind, n = m PROVE FALSE
        OBVIOUS
      <3>2. m \notin UsedSlots(k) /\ m # 0
        BY <2>1, <3>1 DEF FreshSlot
      <3>3. QED
        BY <3>1, <3>2 DEF UsedSlots
    <2>3. <<k, n>> \in Label /\ keyring \in [Label -> Nat]
      BY DEF Shape, Label
    <2>4. QED
      BY <2>1, <2>2, <2>3
  <1>3. QED
    BY <1>1, <1>2, KeyStep

-----------------------------------------------------------------------------
(* What a step can do to the fences, the lease and the grants.             *)

\* Only the holder of the lease moves a fence.
LEMMA FenceStep ==
    ASSUME NEW p \in Proc, Acts(p), fence' # fence
    PROVE  Holds(p) /\ (Commit(p) \/ InvalidateClear(p) \/ LogoutClear(p))
  <1>1. Commit(p) => Holds(p)
    BY DEF Commit, Commits
  <1>2. (InvalidateClear(p) \/ LogoutClear(p)) => Holds(p)
    BY DEF InvalidateClear, LogoutClear
  <1>3. Commit(p) \/ InvalidateClear(p) \/ LogoutClear(p)
    BY DEF Acts, Start, Step, StartRefresh, StartLogin, StartLogout, Claim, Contended, store,
           LoadCredential, ExchangeRefresh, ExchangeRejected, ExchangeCode, Gate, CurrentRecord,
           Adopt, Recheck, PostRefused, PostRegistration, LoadExisting, SetSlot, Sweep,
           ReadClientFence, CommitRejected, Rollback, UnmarkCommitted, DropLegacy, DropPrevious,
           InvalidateLoad, Mark, InvalidateSlot, InvalidateLegacy, InvalidateUnmark, LogoutRead,
           LogoutSlot, LogoutLegacy, LogoutUnmark, Release, Consent, Fails, Crash, ExchangeLost,
           ScopeMismatch
  <1>4. QED
    BY <1>1, <1>2, <1>3

\* Upstream gives out only names that nothing holds.
LEMMA UsedNames ==
    ASSUME Shape
    PROVE  /\ LiveGrant # 0 => LiveGrant \in UsedGrants
           /\ \A n \in 0..MaxSlot : keyring[<<"refresh", n>>] \in UsedGrants
           /\ \A n \in 0..MaxSlot : keyring[<<"client", n>>] \in UsedClients
           /\ \A p \in Proc : call[p].tok \in UsedGrants /\ call[p].rec \in UsedClients
           /\ \A g \in UsedGrants \ {0} : grants[g] \in UsedClients
  <1>1. fence["refresh"].slot \in 0..MaxSlot
    BY LiveTypes DEF Kind
  <1>2. QED
    BY <1>1 DEF UsedGrants, UsedClients, LiveGrant, Committed

LEMMA GrantStep ==
    ASSUME Shape, [Next]_vars
    PROVE  /\ grants' \in [1..MaxGrant -> 0..MaxClient]
           /\ \A g \in 1..MaxGrant : g \in UsedGrants => grants'[g] \in {0, grants[g]}
  <1> DEFINE Goal == /\ grants' \in [1..MaxGrant -> 0..MaxClient]
                     /\ \A g \in 1..MaxGrant : g \in UsedGrants => grants'[g] \in {0, grants[g]}
  <1>0. grants \in [1..MaxGrant -> 0..MaxClient] /\ 0 \in 0..MaxClient
    BY Bounds DEF Shape
  <1>1. CASE UNCHANGED grants
    BY <1>0, <1>1
  <1>2. CASE Forget
    BY <1>0, <1>2 DEF Forget
  <1>3. ASSUME NEW h, grants' = [grants EXCEPT ![h] = 0] PROVE Goal
    BY <1>0, <1>3
  <1>4. ASSUME NEW h, NEW g \in 1..MaxGrant, NEW c \in 0..MaxClient, FreshGrant(g),
               \/ grants' = [grants EXCEPT ![h] = 0, ![g] = c]
               \/ grants' = [grants EXCEPT ![g] = c]
        PROVE  Goal
    <2>1. g \notin UsedGrants
      BY <1>4 DEF FreshGrant
    <2>2. QED
      BY <1>0, <1>4, <2>1
  <1>5. ASSUME NEW c, grants' = [g \in 1..MaxGrant |-> IF grants[g] = c THEN 0 ELSE grants[g]]
        PROVE  Goal
    BY <1>0, <1>5
  <1> HIDE DEF Goal
  <1> SUFFICES Goal
    BY DEF Goal
  <1>6. ASSUME NEW p \in Proc, Acts(p) PROVE Goal
    <2>0. call[p].rec \in 0..MaxClient
      BY DEF Shape, CallType
    <2>1. CASE ExchangeRefresh(p)
      <3>1. PICK g \in 1..MaxGrant : Rotated(p, g)
        BY <2>1 DEF ExchangeRefresh
      <3>2. CASE UNCHANGED grants
        BY <1>1, <3>2 DEF Goal
      <3>3. QED
        BY <1>4, <2>0, <3>1, <3>2 DEF Rotated
    <2>2. CASE ExchangeCode(p)
      <3>1. CASE UNCHANGED grants
        BY <1>1, <3>1 DEF Goal
      <3>2. QED
        BY <1>4, <2>0, <2>2, <3>1 DEF ExchangeCode
    <2>3. CASE ExchangeLost(p)
      BY <1>3, <2>3 DEF ExchangeLost
    <2>4. CASE PostRegistration(p)
      BY <1>5, <2>4 DEF PostRegistration
    <2>5. CASE Release(p) \/ Crash(p)
      BY <1>2, <2>5 DEF Release, Crash, Goal
    <2>6. CASE UNCHANGED grants
      BY <1>1, <2>6 DEF Goal
    <2>7. QED
      BY <1>6, <2>1, <2>2, <2>3, <2>4, <2>5, <2>6
         DEF Acts, Start, Step, StartRefresh, StartLogin, StartLogout, Claim, Contended, upstream,
             LoadCredential, ExchangeRejected, Gate, CurrentRecord, Adopt, Recheck, PostRefused,
             LoadExisting, SetSlot, Sweep, ReadClientFence, Commit, CommitRejected, Rollback,
             UnmarkCommitted, DropLegacy, DropPrevious, InvalidateLoad, Mark, InvalidateClear,
             InvalidateSlot, InvalidateLegacy, InvalidateUnmark, LogoutRead, LogoutSlot,
             LogoutClear, LogoutLegacy, LogoutUnmark, Consent, Fails, ScopeMismatch
  <1>7. CASE Environs
    <2>1. CASE UNCHANGED grants
      BY <1>1, <2>1 DEF Goal
    <2>2. QED
      BY <1>3, <1>7, <2>1 DEF Environs, Lapse, Stall, Expire, Revoke, upstream
  <1>8. QED
    BY <1>1, <1>6, <1>7, NextForms DEF vars, upstream, Goal

\* A stored client whose secret has expired stays unusable.
LEMMA ExpiredStep ==
    ASSUME Shape, [Next]_vars
    PROVE  /\ expired' \subseteq 1..MaxClient
           /\ \A n \in 0..MaxSlot : keyring[<<"client", n>>] \in expired =>
                 keyring[<<"client", n>>] \in expired'
  <1> DEFINE Goal == /\ expired' \subseteq 1..MaxClient
                     /\ \A n \in 0..MaxSlot : keyring[<<"client", n>>] \in expired =>
                           keyring[<<"client", n>>] \in expired'
  <1>0. expired \subseteq 1..MaxClient
    BY DEF Shape
  <1>1. CASE UNCHANGED expired
    BY <1>0, <1>1
  <1>2. CASE Forget /\ UNCHANGED keyring
    <2>1. \A n \in 0..MaxSlot : keyring[<<"client", n>>] \in UsedClients'
      BY <1>2 DEF UsedClients
    <2>2. QED
      BY <1>0, <1>2, <2>1 DEF Forget
  <1>3. ASSUME NEW c, FreshClient(c), expired' = expired \ {c} PROVE Goal
    <2>1. \A n \in 0..MaxSlot : keyring[<<"client", n>>] # c
      BY <1>3, UsedNames DEF FreshClient
    <2>2. QED
      BY <1>0, <1>3, <2>1
  <1>4. CASE Expire
    <2>1. Committed("client") \in 1..MaxClient
      BY <1>4, LiveTypes, Bounds DEF Expire
    <2>2. QED
      BY <1>0, <1>4, <2>1 DEF Expire
  <1> HIDE DEF Goal
  <1> SUFFICES Goal
    BY DEF Goal
  <1>5. ASSUME NEW p \in Proc, Acts(p) PROVE Goal
    <2>1. CASE PostRegistration(p)
      BY <1>3, <2>1 DEF PostRegistration
    <2>2. CASE Release(p) \/ Crash(p)
      BY <1>2, <2>2 DEF Release, Crash, Goal
    <2>3. CASE UNCHANGED expired
      BY <1>1, <2>3 DEF Goal
    <2>4. QED
      BY <1>5, <2>1, <2>2, <2>3
         DEF Acts, Start, Step, StartRefresh, StartLogin, StartLogout, Claim, Contended, upstream,
             LoadCredential, ExchangeRefresh, ExchangeRejected, ExchangeCode, Gate, CurrentRecord,
             Adopt, Recheck, PostRefused, LoadExisting, SetSlot, Sweep, ReadClientFence, Commit,
             CommitRejected, Rollback, UnmarkCommitted, DropLegacy, DropPrevious,
             InvalidateLoad, Mark, InvalidateClear, InvalidateSlot, InvalidateLegacy,
             InvalidateUnmark, LogoutRead, LogoutSlot, LogoutClear, LogoutLegacy, LogoutUnmark,
             Consent, Fails, ExchangeLost, ScopeMismatch
  <1>6. CASE Environs
    <2>1. CASE UNCHANGED expired
      BY <1>1, <2>1 DEF Goal
    <2>2. QED
      BY <1>4, <1>6, <2>1 DEF Environs, Lapse, Stall, Revoke, upstream, Goal
  <1>7. QED
    BY <1>1, <1>5, <1>6, NextForms DEF vars, upstream, Goal

\* A call is at work from its claim to its release, with one generation.
LEMMA WorkStep ==
    ASSUME Shape, Private, NEW p \in Proc, Acts(p)
    PROVE  \/ /\ StartLogout(p) \/ Claim(p)
              /\ ~AtWork(p) /\ AtWork(p)' /\ call'[p].gen = lease'.gen
           \/ (Release(p) \/ Crash(p)) /\ ~AtWork(p)'
           \/ UNCHANGED lease /\ ~AtWork(p) /\ ~AtWork(p)'
           \/ /\ UNCHANGED lease /\ AtWork(p) /\ AtWork(p)'
              /\ call'[p].at = "release" \/ call'[p].gen = call[p].gen
  <1> DEFINE c == call[p]
             d == call'[p]
             Goes == /\ UNCHANGED lease /\ AtWork(p) /\ AtWork(p)'
                     /\ d.at = "release" \/ d.gen = c.gen
             Rests == UNCHANGED lease /\ ~AtWork(p) /\ ~AtWork(p)'
  <1>0. c \in CallType /\ Local(c) /\ NoCall \in CallType
    BY NoCallType DEF Shape, Private
  <1>a. \A l : c.at = l => (AtWork(p) <=> l \notin Resting)
    BY DEF AtWork
  <1>b. AtWork(p)' <=> d.at \notin Resting
    BY DEF AtWork
  <1>f. ASSUME Fail(p) PROVE d.at \notin Resting /\ d.at = "release"
    BY <1>f, FailFacts DEF Resting
  <1>g. ASSUME NEW l \in Location, Goto(p, l), l \notin Resting
        PROVE  d.at \notin Resting /\ d.gen = c.gen
    BY <1>g, GotoFacts DEF Moved
  <1>s. ASSUME StoreClient(p) PROVE d.at \notin Resting /\ d.gen = c.gen
    BY <1>s, StoreClientFacts DEF Resting
  <1>h. ASSUME NEW l \in {"invLoad", "set", "adopt", "exchange", "post", "commit", "release",
                          "rollback", "dropLegacy", "dropPrevious", "invClear", "outClearGrant",
                          "invLegacy", "invSlot", "invUnmark", "outMark", "outClearClient",
                          "outClient", "outLegacyClient", "outLegacyGrant", "outUnmark",
                          "outSweep"}, Goto(p, l)
        PROVE  d.at \notin Resting /\ d.gen = c.gen
    <2>1. l \in Location /\ l \notin Resting
      BY <1>h DEF Location, Resting
    <2>2. QED
      BY <1>g, <1>h, <2>1
  <1> HIDE DEF Goes, Rests
  <1>1. CASE StartRefresh(p) \/ StartLogin(p)
    <2>1. UNCHANGED lease /\ c.at = "idle"
      BY <1>1 DEF StartRefresh, StartLogin, At
    <2>2. d.at \in {"claim", "consent"}
      <3>1. CASE StartRefresh(p)
        <4>1. d = [NoCall EXCEPT !.op = "refresh", !.at = "claim", !.rec = RegisteredClient]
          BY <3>1, StartFacts
        <4>2. QED
          BY <1>0, <4>1 DEF CallType
      <3>2. CASE StartLogin(p)
        <4> DEFINE l == IF RegisteredClient = 0 THEN "claim" ELSE "consent"
        <4>1. d = [NoCall EXCEPT !.op = "register", !.rec = RegisteredClient, !.at = l]
          BY <3>2, StartFacts
        <4>2. l \in {"claim", "consent"}
          OBVIOUS
        <4> HIDE DEF l
        <4>3. QED
          BY <1>0, <4>1, <4>2 DEF CallType
      <3>3. QED
        BY <1>1, <3>1, <3>2
    <2>3. QED
      BY <1>a, <1>b, <2>1, <2>2 DEF Resting
  <1>2. CASE StartLogout(p)
    <2>1. c.at = "idle" /\ lease'.gen \in Nat
      BY <1>2, LeaseTypes DEF StartLogout, At, Shape
    <2>2. d = [NoCall EXCEPT !.op = "logout", !.at = "outGrant", !.gen = lease'.gen]
      BY <1>2, <2>1, StartFacts
    <2>3. d.at = "outGrant" /\ d.gen = lease'.gen
      BY <1>0, <2>2 DEF CallType
    <2>4. QED
      BY <1>2, <1>a, <1>b, <2>1, <2>3 DEF Resting
  <1>3. CASE Claim(p)
    <2>1. c.at = "claim" /\ lease'.gen \in Nat
      BY <1>3, LeaseTypes DEF Claim, At, Shape
    <2>2. c.op \in {"refresh", "register", "complete"}
      BY <1>0, <2>1 DEF Local
    <2>3. FirstStep(c.op) \in {"load", "recheck", "record"}
          /\ d = [c EXCEPT !.at = FirstStep(c.op), !.gen = lease'.gen]
      BY <1>3, <2>1, <2>2, ClaimFacts
    <2>4. d.at \in {"load", "recheck", "record"} /\ d.gen = lease'.gen
      BY <1>0, <2>3 DEF CallType
    <2>5. QED
      BY <1>3, <1>a, <1>b, <2>1, <2>4 DEF Resting
  <1>4. CASE Contended(p) \/ Consent(p)
    <2>1. UNCHANGED lease /\ c.at \in {"claim", "consent"}
      BY <1>4 DEF Contended, Consent, At
    <2>2. d.at \in {"idle", "claim"}
      <3>1. CASE Contended(p)
        BY <3>1, EndFacts DEF Contended
      <3>2. CASE Consent(p)
        <4>1. d = NoCall \/ d = [c EXCEPT !.op = "complete", !.at = "claim"]
          BY <3>2, ConsentFacts
        <4>2. QED
          BY <1>0, <4>1, NoCallFields DEF CallType
      <3>3. QED
        BY <1>4, <3>1, <3>2
    <2>3. QED
      BY <1>a, <1>b, <2>1, <2>2 DEF Resting
  <1>5. CASE Release(p)
    <2>1. d = NoCall \/ d = [NoCall EXCEPT !.op = "register", !.at = "consent", !.rec = c.rec]
      BY <1>5, ReleaseFacts
    <2>2. d.at \in Resting
      BY <1>0, <2>1, NoCallFields DEF CallType, Resting
    <2>3. QED
      BY <1>5, <1>b, <2>2
  <1>6. CASE Crash(p)
    <2>1. d.at \in Resting
      BY <1>6, EndFacts DEF Crash, Resting
    <2>2. QED
      BY <1>6, <1>b, <2>1
  <1>z. ASSUME UNCHANGED lease, c.at \notin Resting, d.at \notin Resting,
               d.at = "release" \/ d.gen = c.gen
        PROVE  Goes
    BY <1>a, <1>b, <1>z DEF Goes
  <1>7. CASE LoadCredential(p)
    <2>1. UNCHANGED lease /\ c.at = "load" /\ (LiveGrant = 0 => Fail(p))
      BY <1>7 DEF LoadCredential, At
    <2>2. CASE LiveGrant # 0
      <3>1. d.at = "exchange" /\ d.gen = c.gen
        BY <1>0, <1>7, <2>2, LoadFields
      <3>2. QED
        BY <1>z, <2>1, <3>1 DEF Resting, Goes
    <2>3. QED
      BY <1>f, <1>z, <2>1, <2>2 DEF Resting, Goes
  <1>8. CASE ExchangeRefresh(p) \/ ExchangeCode(p)
    <2>1. UNCHANGED lease /\ c.at = "exchange"
      BY <1>8 DEF ExchangeRefresh, ExchangeCode, At
    <2>2. Fail(p) \/ \E g \in 1..MaxGrant : call' = [call EXCEPT ![p].at = "gate", ![p].tok = g]
      BY <1>8 DEF ExchangeRefresh, ExchangeCode
    <2>3. ASSUME NEW g \in 1..MaxGrant, call' = [call EXCEPT ![p].at = "gate", ![p].tok = g]
          PROVE  d.at = "gate" /\ d.gen = c.gen
      <3>1. d = [c EXCEPT !.at = "gate", !.tok = g]
        BY <2>3, ExchangedFacts
      <3>2. QED
        BY <1>0, <3>1 DEF CallType
    <2>4. QED
      BY <1>f, <1>z, <2>1, <2>2, <2>3 DEF Resting, Goes
  <1>9. CASE \/ ExchangeRejected(p) \/ ExchangeLost(p) \/ ScopeMismatch(p) \/ PostRefused(p)
             \/ Fails(p) \/ Gate(p) \/ CurrentRecord(p)
    <2>1. UNCHANGED lease /\ c.at \notin Resting
      BY <1>9 DEF ExchangeRejected, ExchangeLost, ScopeMismatch, PostRefused, Fails, Gate,
                  CurrentRecord, At, Interruptible, Resting
    <2>2. Fail(p) \/ Goto(p, "invLoad") \/ Goto(p, "set") \/ Goto(p, "adopt") \/ Goto(p, "exchange")
      BY <1>9 DEF ExchangeRejected, ExchangeLost, ScopeMismatch, PostRefused, Fails, Gate,
                  CurrentRecord
    <2>3. QED
      BY <1>f, <1>h, <1>z, <2>1, <2>2 DEF Goes
  <1>10. CASE Adopt(p)
    <2>1. UNCHANGED lease /\ c.at = "adopt" /\ (~SameRecord(p) \/ SlotMissing("refresh") => Fail(p))
      BY <1>10 DEF Adopt, At
    <2>2. CASE SameRecord(p) /\ ~SlotMissing("refresh")
      <3>1. d.at = "set" /\ d.gen = c.gen
        BY <1>0, <1>10, <2>2, AdoptFields
      <3>2. QED
        BY <1>z, <2>1, <3>1 DEF Resting, Goes
    <2>3. QED
      BY <1>f, <1>z, <2>1, <2>2 DEF Resting, Goes
  <1>11. CASE Recheck(p)
    <2>1. UNCHANGED lease /\ c.at = "recheck" /\ (SlotMissing("client") => Fail(p))
          /\ (~SlotMissing("client") /\ RegisteredClient = 0 => Goto(p, "post"))
      BY <1>11 DEF Recheck, At
    <2>2. CASE ~SlotMissing("client") /\ RegisteredClient # 0
      <3>1. d.at = "release"
        BY <1>0, <1>11, <2>2, RecheckFields
      <3>2. QED
        BY <1>z, <2>1, <3>1 DEF Resting, Goes
    <2>3. QED
      BY <1>f, <1>h, <1>z, <2>1, <2>2 DEF Resting, Goes
  <1>12. CASE PostRegistration(p)
    <2>1. UNCHANGED lease /\ c.at = "post"
      BY <1>12 DEF PostRegistration, At
    <2>2. PICK k \in 1..MaxClient : call' = [call EXCEPT ![p].at = "existing", ![p].rec = k]
      BY <1>12 DEF PostRegistration
    <2>3. d.at = "existing" /\ d.gen = c.gen
      BY <1>0, <2>2, PostFacts DEF CallType
    <2>4. QED
      BY <1>z, <2>1, <2>3 DEF Resting, Goes
  <1>13. CASE SetSlot(p)
    <2>1. UNCHANGED lease /\ c.at = "set"
      BY <1>13 DEF SetSlot, At
    <2>2. PICK n \in 1..MaxSlot, l \in {"rollback", "read", "sweep"} :
             /\ call' \in [Proc -> CallType] /\ Only(p)
             /\ call'[p] = [call[p] EXCEPT !.slot = n, !.at = l]
             /\ FreshSlot(call[p].kind, n)
             /\ l = "read" => call[p].kind = "client"
             /\ l = "sweep" => call[p].kind = "refresh"
             /\ l = "rollback" => Fault
             /\ l # "rollback" => UNCHANGED faults /\
                    keyring' = [keyring EXCEPT ![<<call[p].kind, n>>] = Secret(p)]
             /\ \/ keyring' = keyring
                \/ keyring' = [keyring EXCEPT ![<<call[p].kind, n>>] = Secret(p)]
      BY <1>13, SetFacts
    <2>3. d.at = l /\ d.gen = c.gen
      BY <1>0, <2>2 DEF CallType
    <2>4. QED
      BY <1>z, <2>1, <2>3 DEF Resting, Goes
  <1>14. CASE ReadClientFence(p)
    <2>1. UNCHANGED lease /\ c.at = "read"
      BY <1>14 DEF ReadClientFence, At
    <2>2. d.at = "commit" /\ d.gen = c.gen
      BY <1>0, <1>14, ReadFields
    <2>3. QED
      BY <1>z, <2>1, <2>2 DEF Resting, Goes
  <1>15. CASE Commit(p)
    <2>1. UNCHANGED lease /\ c.at = "commit"
      BY <1>15 DEF Commit, At
    <2>2. PICK l \in {"dropLegacy", "unmark"}, nx \in {"idle", "consent"}, pr \in 0..MaxSlot :
             /\ call' \in [Proc -> CallType] /\ Only(p)
             /\ d = [c EXCEPT !.at = l, !.next = nx, !.prev = pr, !.slot = 0, !.tok = 0,
                              !.fgen = 0]
             /\ l = "dropLegacy" <=> c.kind = "client"
      BY <1>15, CommitFacts
    <2>3. d.at = l /\ d.gen = c.gen
      BY <1>0, <2>2 DEF CallType
    <2>4. QED
      BY <1>z, <2>1, <2>3 DEF Resting, Goes
  <1>16. CASE InvalidateLoad(p)
    <2>1. UNCHANGED lease /\ c.at = "invLoad" /\ (SlotMissing("refresh") => Fail(p))
      BY <1>16 DEF InvalidateLoad, At
    <2>2. CASE ~SlotMissing("refresh")
      <3>1. d.at = "invMark" /\ d.gen = c.gen
        BY <1>0, <1>16, <2>2, InvalidateLoadFields
      <3>2. QED
        BY <1>z, <2>1, <3>1 DEF Resting, Goes
    <2>3. QED
      BY <1>f, <1>z, <2>1, <2>2 DEF Resting, Goes
  <1>17. CASE LogoutRead(p)
    <2>1. UNCHANGED lease /\ c.at \notin Resting
      BY <1>17 DEF LogoutRead, At, Resting
    <2>2. d.at \in {"outGrantSlot", "outClientSlot"} /\ d.gen = c.gen
      BY ZenonT(40), <1>0, <1>17, LogoutReadFacts DEF CallType
    <2>3. QED
      BY <1>z, <2>1, <2>2 DEF Resting, Goes
  <1>18. CASE \/ LoadExisting(p) \/ Sweep(p) \/ CommitRejected(p) \/ Rollback(p)
              \/ UnmarkCommitted(p) \/ DropLegacy(p) \/ DropPrevious(p)
    <2>1. UNCHANGED lease /\ c.at \notin Resting
      BY <1>18 DEF LoadExisting, Sweep, CommitRejected, Rollback, UnmarkCommitted, DropLegacy,
                   DropPrevious, At, Resting
    <2>2. Fail(p) \/ StoreClient(p)
          \/ \E l \in {"invLoad", "commit", "release", "rollback", "dropLegacy", "dropPrevious"} :
                Goto(p, l)
      BY <1>18 DEF LoadExisting, Sweep, CommitRejected, Rollback, UnmarkCommitted, DropLegacy,
                   DropPrevious
    <2>3. QED
      BY <1>f, <1>h, <1>s, <1>z, <2>1, <2>2 DEF Goes
  <1>19. CASE \/ Mark(p) \/ InvalidateClear(p) \/ InvalidateSlot(p) \/ InvalidateLegacy(p)
              \/ InvalidateUnmark(p)
    <2>1. UNCHANGED lease /\ c.at \notin Resting
      BY <1>19 DEF Mark, InvalidateClear, InvalidateSlot, InvalidateLegacy, InvalidateUnmark, At,
                   Resting
    <2>2. Fail(p) \/ StoreClient(p)
          \/ \E l \in {"invClear", "outClearGrant", "invLegacy", "invSlot", "invUnmark",
                       "release"} : Goto(p, l)
      BY <1>19 DEF Mark, InvalidateClear, InvalidateSlot, InvalidateLegacy, InvalidateUnmark,
                   Invalidated
    <2>3. QED
      BY <1>f, <1>h, <1>s, <1>z, <2>1, <2>2 DEF Goes
  <1>20. CASE LogoutSlot(p) \/ LogoutClear(p) \/ LogoutLegacy(p) \/ LogoutUnmark(p)
    <2>1. UNCHANGED lease /\ c.at \notin Resting
      BY <1>20 DEF LogoutSlot, LogoutClear, LogoutLegacy, LogoutUnmark, At, Resting
    <2>2. Fail(p)
          \/ \E l \in {"outMark", "outClearClient", "outClient", "outLegacyClient",
                       "outLegacyGrant", "outUnmark", "outSweep"} : Goto(p, l)
      BY <1>20 DEF LogoutSlot, LogoutClear, LogoutLegacy, LogoutUnmark
    <2>3. QED
      BY <1>f, <1>h, <1>z, <2>1, <2>2 DEF Goes
  <1>21. QED
    BY <1>1, <1>2, <1>3, <1>4, <1>5, <1>6, <1>7, <1>8, <1>9, <1>10, <1>11, <1>12, <1>13, <1>14,
       <1>15, <1>16, <1>17, <1>18, <1>19, <1>20
       DEF Acts, Start, Step

\* A call that is to release its lease does so, or crashes.
LEMMA ReleaseStep ==
    ASSUME NEW p \in Proc, Acts(p), call[p].at = "release"
    PROVE  Release(p) \/ Crash(p)
  BY DEF Acts, Start, Step, StartRefresh, StartLogin, StartLogout, Claim, Contended,
         LoadCredential, ExchangeRefresh, ExchangeRejected, ExchangeCode, Gate, CurrentRecord,
         Adopt, Recheck, PostRefused, PostRegistration, LoadExisting, SetSlot, Sweep,
         ReadClientFence, Commit, CommitRejected, Rollback, UnmarkCommitted, DropLegacy,
         DropPrevious, InvalidateLoad, Mark, InvalidateClear, InvalidateSlot, InvalidateLegacy,
         InvalidateUnmark, LogoutRead, LogoutSlot, LogoutClear, LogoutLegacy, LogoutUnmark,
         Consent, Fails, ExchangeLost, ScopeMismatch, At, Interruptible

LEMMA LeaseFacts ==
    ASSUME NEW r \in LeaseRow(Proc \union {Dead}), NEW p \in Proc, NEW q \in Proc
    PROVE  /\ ClaimLease(r, p, 0).owner = p /\ ClaimLease(r, p, 0).left > 0
           /\ ReleaseLease(r, p).owner = q => q # p /\ ReleaseLease(r, p) = r
           /\ [r EXCEPT !.owner = Dead].owner # q
           /\ Elapse(r).owner = r.owner /\ Elapse(r).gen = r.gen
           /\ Elapse(r).left > 0 => r.left > 0
  BY TTLAssumption, Bounds DEF NoLease, LeaseRow, ClaimLease, ReleaseLease, Elapse

\* A process holds the lease after its step only if it did before or claims it;
\* while it holds it nobody else does.
LEMMA HolderStep ==
    ASSUME Shape, Private, Epochs, NEW p \in Proc, Acts(p)
    PROVE  /\ lease' \in LeaseRow(Proc \union {Dead}) /\ Epochs'
           /\ \A q \in Proc : q # p /\ Holds(q)' => Holds(q) /\ ~Holds(p) /\ call'[q] = call[q]
           /\ Holds(p)' /\ call'[p].at # "release" => Holds(p) \/ Claim(p) \/ StartLogout(p)
  <1>0. lease \in LeaseRow(Proc \union {Dead}) /\ Only(p)
    BY OwnCall DEF Shape
  <1>1. CASE (StartLogout(p) \/ Claim(p)) /\ AtWork(p)' /\ call'[p].gen = lease'.gen
    <2>1. lease' = ClaimLease(lease, p, 0)
      BY <1>1 DEF StartLogout, Claim
    <2>2. lease' \in LeaseRow(Proc \union {Dead}) /\ lease'.owner = p
      BY <1>0, <2>1, LeaseTypes, LeaseFacts
    <2>3. Epochs'
      BY <1>1, <2>2 DEF Epochs
    <2>4. QED
      BY <1>1, <2>2, <2>3 DEF Holds, HoldsEpoch, Live
  <1>2. CASE (Release(p) \/ Crash(p)) /\ ~AtWork(p)'
    <2>1. /\ lease' \in LeaseRow(Proc \union {Dead}) /\ lease'.owner # p
          /\ \A q \in Proc : lease'.owner = q => lease' = lease
      <3>1. CASE Release(p)
        <4>1. lease' = ReleaseLease(lease, p)
          BY <3>1 DEF Release
        <4>2. /\ ReleaseLease(lease, p) \in LeaseRow(Proc \union {Dead})
              /\ \A q \in Proc : ReleaseLease(lease, p).owner = q =>
                    q # p /\ ReleaseLease(lease, p) = lease
          BY <1>0, LeaseTypes, LeaseFacts
        <4>3. QED
          BY <4>1, <4>2
      <3>2. CASE Crash(p)
        <4>1. lease' = IF lease.owner = p THEN [lease EXCEPT !.owner = Dead] ELSE lease
          BY <3>2 DEF Crash
        <4>2. /\ [lease EXCEPT !.owner = Dead] \in LeaseRow(Proc \union {Dead})
              /\ \A q \in Proc : [lease EXCEPT !.owner = Dead].owner # q
          BY <1>0, LeaseTypes, LeaseFacts
        <4>3. QED
          BY <1>0, <4>1, <4>2
      <3>3. QED
        BY <1>2, <3>1, <3>2
    <2>2. \A q \in Proc : AtWork(q)' /\ q # p <=> AtWork(q) /\ q # p
      BY <1>0 DEF AtWork, Only
    <2>3. Epochs'
      BY <1>0, <2>1, <2>2 DEF Epochs, Only
    <2>4. QED
      BY <1>0, <2>1, <2>3 DEF Holds, HoldsEpoch, Live, Only
  <1>3. CASE /\ UNCHANGED lease /\ ~Release(p) /\ ~Crash(p)
             /\ \/ ~AtWork(p) /\ ~AtWork(p)'
                \/ /\ AtWork(p) /\ AtWork(p)'
                   /\ call'[p].at = "release" \/ call'[p].gen = call[p].gen
    <2>1. AtWork(p)' <=> call'[p].at \notin Resting
      BY DEF AtWork
    <2>2. call[p].at # "release"
      BY <1>3, ReleaseStep
    <2>3. \A q \in Proc : q # p => (AtWork(q)' <=> AtWork(q))
      BY <1>0 DEF AtWork, Only
    <2>4. Epochs'
      BY <1>0, <1>3, <2>1, <2>2, <2>3 DEF Epochs, Only, Resting
    <2>5. QED
      BY <1>0, <1>3, <2>1, <2>2, <2>3, <2>4 DEF Holds, HoldsEpoch, Live, Only, Epochs
  <1>4. Release(p) \/ Crash(p) => ~AtWork(p)'
    <2>1. Release(p) => call'[p].at \in Resting
      BY ReleaseFacts, NoCallType, NoCallFields DEF CallType, Resting
    <2>2. Crash(p) => call'[p].at \in Resting
      BY EndFacts DEF Crash, Resting
    <2>3. QED
      BY <2>1, <2>2 DEF AtWork
  <1>5. QED
    BY <1>1, <1>2, <1>3, <1>4, WorkStep

-----------------------------------------------------------------------------
(* What the holder of the lease relies on.                                 *)

LEMMA ActsNext ==
    ASSUME NEW p \in Proc, Acts(p)
    PROVE  [Next]_vars
  BY DEF Acts, Next

\* While the fences stay where they are the view holds.
LEMMA ViewKept ==
    ASSUME Shape, Private, [Next]_vars, fence' = fence,
           NEW c, View(c, fence, keyring, expired)
    PROVE  View(c, fence', keyring', expired')
  <1> DEFINE s == fence["refresh"].slot
             t == fence["client"].slot
             a == keyring[<<"refresh", s>>]
             b == keyring[<<"client", t>>]
  <1>1. s \in 0..MaxSlot /\ t \in 0..MaxSlot /\ "refresh" \in Kind /\ "client" \in Kind
    BY LiveTypes DEF Kind
  <1>2. keyring'[<<"refresh", s>>] \in {0, a} /\ keyring'[<<"client", t>>] \in {0, b}
    BY <1>1, KeptLabels
  <1>3. b \in expired => b \in expired'
    BY <1>1, ExpiredStep
  <1>4. QED
    BY <1>2, <1>3 DEF View

\* Locations at which nothing is relied upon.
LEMMA PlainView ==
    ASSUME NEW c, NEW f, NEW key, NEW exp,
           c.at \in {"idle", "claim", "load", "record", "adopt", "recheck", "existing", "invLoad",
                     "rollback", "dropLegacy", "dropPrevious", "outGrant", "release", "consent"}
    PROVE  View(c, f, key, exp)
  BY DEF View, Granting, Registering

\* The view of a call that moves on depends on its location only.
LEMMA ViewMoved ==
    ASSUME NEW c, NEW d, NEW f, NEW key, NEW exp, View(c, f, key, exp),
           d.kind = c.kind, d.op = c.op, d.prev = c.prev, d.fgen = c.fgen
    PROVE  /\ Granting(c) /\ Granting(d) /\ d.at \in {"gate", "set", "sweep", "commit"}
                /\ d.kind = "refresh" => View(d, f, key, exp)
           /\ c.at = "invMark" /\ d.at = "invClear" => View(d, f, key, exp)
           /\ c.at = "outMark" /\ d.at = "outClearGrant" => View(d, f, key, exp)
           /\ c.at \in {"invSlot", "invLegacy", "invUnmark"} /\ d.at \in {"invLegacy", "invUnmark"}
                 => View(d, f, key, exp)
           /\ c.at \in {"outLegacyClient", "outLegacyGrant", "outUnmark"}
                /\ d.at \in {"outLegacyGrant", "outUnmark", "outSweep"} => View(d, f, key, exp)
           /\ Registering(c) /\ d.at = "read" => View(d, f, key, exp)
  BY DEF View, Granting, Registering

\* Where a call is after it starts, claims the lease or ends.
LEMMA EdgeStep ==
    ASSUME Shape, Private, NEW p \in Proc,
           Start(p) \/ Claim(p) \/ Contended(p) \/ Crash(p) \/ Release(p) \/ Consent(p)
    PROVE  call'[p].at \in {"idle", "claim", "consent", "outGrant", "load", "recheck", "record"}
  <1> DEFINE c == call[p]
             d == call'[p]
  <1>0. /\ c \in CallType /\ Local(c) /\ NoCall \in CallType /\ NoCall.at = "idle"
    BY NoCallType, NoCallFields DEF Shape, Private
  <1>1. CASE StartRefresh(p) \/ StartLogin(p)
    <2> DEFINE l == IF RegisteredClient = 0 THEN "claim" ELSE "consent"
    <2>1. \/ d = [NoCall EXCEPT !.op = "refresh", !.at = "claim", !.rec = RegisteredClient]
          \/ d = [NoCall EXCEPT !.op = "register", !.rec = RegisteredClient, !.at = l]
      BY <1>1, StartFacts
    <2>2. l \in {"claim", "consent"}
      OBVIOUS
    <2> HIDE DEF l
    <2>3. QED
      BY <1>0, <2>1, <2>2 DEF CallType
  <1>2. CASE StartLogout(p)
    <2>1. lease'.gen \in Nat
      BY <1>2, LeaseTypes DEF StartLogout, Shape
    <2>2. d = [NoCall EXCEPT !.op = "logout", !.at = "outGrant", !.gen = lease'.gen]
      BY <1>2, <2>1, StartFacts
    <2>3. QED
      BY <1>0, <2>2 DEF CallType
  <1>3. CASE Claim(p)
    <2>1. c.at = "claim" /\ lease'.gen \in Nat
      BY <1>3, LeaseTypes DEF Claim, At, Shape
    <2>2. c.op \in {"refresh", "register", "complete"}
      BY <1>0, <2>1 DEF Local
    <2>3. FirstStep(c.op) \in {"load", "recheck", "record"}
          /\ d = [c EXCEPT !.at = FirstStep(c.op), !.gen = lease'.gen]
      BY <1>3, <2>1, <2>2, ClaimFacts
    <2>4. QED
      BY <1>0, <2>3 DEF CallType
  <1>4. CASE Contended(p) \/ Crash(p)
    BY <1>4, EndFacts DEF Contended, Crash
  <1>5. CASE Release(p)
    <2>1. d = NoCall \/ d = [NoCall EXCEPT !.op = "register", !.at = "consent", !.rec = c.rec]
      BY <1>5, ReleaseFacts
    <2>2. QED
      BY <1>0, <2>1 DEF CallType
  <1>6. CASE Consent(p)
    <2>1. d = NoCall \/ d = [c EXCEPT !.op = "complete", !.at = "claim"]
      BY <1>6, ConsentFacts
    <2>2. QED
      BY <1>0, <2>1 DEF CallType
  <1>7. QED
    BY <1>1, <1>2, <1>3, <1>4, <1>5, <1>6 DEF Start

\* What p sees after its own step.
LEMMA OwnView ==
    ASSUME Shape, Private, NEW p \in Proc, Acts(p), View(call[p], fence, keyring, expired)
    PROVE  View(call'[p], fence', keyring', expired')
  <1> DEFINE c == call[p]
             d == call'[p]
             s == fence["refresh"].slot
             t == fence["client"].slot
             V == View(d, fence', keyring', expired')
             Quiet == {"idle", "claim", "load", "record", "adopt", "recheck", "existing", "invLoad",
                       "rollback", "dropLegacy", "dropPrevious", "outGrant", "release", "consent"}
  <1>0. /\ c \in CallType /\ Local(c) /\ c.kind \in Kind /\ c.slot \in 0..MaxSlot
        /\ c.prev \in 0..MaxSlot /\ View(c, fence, keyring, expired)
        /\ s \in 0..MaxSlot /\ t \in 0..MaxSlot /\ "refresh" \in Kind /\ "client" \in Kind
        /\ fence \in FenceType /\ keyring \in [Label -> Nat]
    BY LiveTypes DEF Shape, Private, CallType, Kind
  <1>k. ASSUME fence' = fence PROVE View(c, fence', keyring', expired')
    BY <1>0, <1>k, ActsNext, ViewKept
  <1>q. ASSUME d.at \in Quiet PROVE V
    BY <1>q, PlainView
  <1>f. ASSUME Fail(p) PROVE V
    BY <1>f, <1>q, FailFacts
  <1>e. ASSUME call' = [call EXCEPT ![p] = NoCall] PROVE V
    BY <1>e, <1>q, EndFacts
  <1>m. ASSUME NEW l \in Location, Goto(p, l)
        PROVE  Moved(c, d, l)
    BY <1>m, GotoFacts
  <1>g. ASSUME NEW l \in {"invLoad", "adopt", "rollback", "dropLegacy", "dropPrevious", "release"},
               Goto(p, l)
        PROVE  V
    <2>1. l \in Location /\ l \in Quiet
      BY <1>g DEF Location
    <2>2. Moved(c, d, l)
      BY <1>g, <1>m, <2>1
    <2>3. QED
      BY <1>q, <2>1, <2>2 DEF Moved
  <1>s. ASSUME StoreClient(p), fence' = fence, s = 0 PROVE V
    BY <1>s, StoreClientFacts DEF View, Granting, Registering
  <1>v. ASSUME fence' = fence, d.kind = c.kind, d.op = c.op, d.prev = c.prev, d.fgen = c.fgen
        PROVE  /\ Granting(c) /\ Granting(d) /\ d.at \in {"gate", "set", "sweep", "commit"}
                    /\ d.kind = "refresh" => V
               /\ c.at = "invMark" /\ d.at = "invClear" => V
               /\ c.at = "outMark" /\ d.at = "outClearGrant" => V
               /\ c.at \in {"invSlot", "invLegacy", "invUnmark"}
                    /\ d.at \in {"invLegacy", "invUnmark"} => V
               /\ c.at \in {"outLegacyClient", "outLegacyGrant", "outUnmark"}
                    /\ d.at \in {"outLegacyGrant", "outUnmark", "outSweep"} => V
               /\ Registering(c) /\ d.at = "read" => V
    BY <1>k, <1>v, ViewMoved
  <1> HIDE DEF V
  <1> SUFFICES V
    BY DEF V
  <1>1. CASE Start(p) \/ Claim(p) \/ Contended(p) \/ Crash(p) \/ Release(p) \/ Consent(p)
    BY <1>1, <1>q, EdgeStep
  <1>2. CASE LoadCredential(p)
    <2>1. fence' = fence /\ c.at = "load" /\ (LiveGrant = 0 => Fail(p))
      BY <1>2 DEF LoadCredential, At, store
    <2>2. CASE LiveGrant # 0
      <3>1. d.at = "exchange" /\ d.prev = s /\ d.fgen = fence["refresh"].gen + 1
        BY <1>0, <1>2, <2>2, LoadFields
      <3>2. QED
        BY <2>1, <3>1 DEF V, View, Granting, Registering
    <2>3. QED
      BY <1>f, <2>1, <2>2
  <1>3. CASE ExchangeRefresh(p) \/ ExchangeCode(p)
    <2>1. fence' = fence /\ c.at = "exchange"
      BY <1>3 DEF ExchangeRefresh, ExchangeCode, At, store
    <2>2. Fail(p) \/ \E g \in 1..MaxGrant : call' = [call EXCEPT ![p].at = "gate", ![p].tok = g]
      BY <1>3 DEF ExchangeRefresh, ExchangeCode
    <2>3. ASSUME NEW g \in 1..MaxGrant, call' = [call EXCEPT ![p].at = "gate", ![p].tok = g]
          PROVE  V
      <3>1. d = [c EXCEPT !.at = "gate", !.tok = g]
        BY <2>3, ExchangedFacts
      <3>2. /\ d.at = "gate" /\ d.kind = c.kind /\ d.op = c.op /\ d.prev = c.prev
            /\ d.fgen = c.fgen /\ c.kind = "refresh"
        BY <1>0, <2>1, <3>1 DEF CallType, Local
      <3>3. CASE c.op = "refresh"
        BY <1>v, <2>1, <3>2, <3>3 DEF Granting
      <3>4. CASE c.op # "refresh"
        BY <3>2, <3>4 DEF V, View, Granting, Registering
      <3>5. QED
        BY <3>3, <3>4
    <2>4. QED
      BY <1>f, <2>2, <2>3
  <1>4. CASE Gate(p) \/ CurrentRecord(p)
    <2>1. /\ fence' = fence
          /\ \/ Fail(p) \/ Goto(p, "adopt")
             \/ c.at = "gate" /\ c.op = "refresh" /\ Goto(p, "set")
             \/ c.at = "record" /\ c.op = "complete" /\ Goto(p, "exchange")
      BY <1>0, <1>4 DEF Gate, CurrentRecord, At, store, Local
    <2>2. CASE c.at = "gate" /\ c.op = "refresh" /\ Goto(p, "set")
      <3>1. "set" \in Location /\ c.kind = "refresh"
        BY <1>0, <2>2 DEF Location, Local
      <3>2. Moved(c, d, "set")
        BY <1>m, <2>2, <3>1
      <3>3. QED
        BY <1>v, <2>1, <2>2, <3>1, <3>2 DEF Moved, Granting
    <2>3. CASE c.op = "complete" /\ Goto(p, "exchange")
      <3>1. "exchange" \in Location
        BY DEF Location
      <3>2. Moved(c, d, "exchange")
        BY <1>m, <2>3, <3>1
      <3>3. QED
        BY <2>3, <3>2 DEF V, View, Moved, Granting, Registering
    <2>4. QED
      BY <1>f, <1>g, <2>1, <2>2, <2>3
  <1>5. CASE Adopt(p)
    <2>1. fence' = fence /\ c.at = "adopt" /\ (~SameRecord(p) \/ SlotMissing("refresh") => Fail(p))
      BY <1>5 DEF Adopt, At, store
    <2>2. CASE SameRecord(p) /\ ~SlotMissing("refresh")
      <3>1. d = [c EXCEPT !.at = "set", !.fgen = fence["refresh"].gen + 1, !.prev = s]
        BY <1>5, <2>2, AdoptFacts
      <3>2. /\ d.at = "set" /\ d.prev = s /\ d.fgen = fence["refresh"].gen + 1
            /\ d.kind = c.kind
        BY <1>0, <3>1 DEF CallType
      <3>3. c.kind = "refresh"
        BY <1>0, <2>1 DEF Local
      <3>4. QED
        BY <2>1, <3>2, <3>3 DEF V, View, Granting, Registering
    <2>3. QED
      BY <1>f, <2>1, <2>2
  <1>6. CASE Recheck(p)
    <2>1. fence' = fence /\ keyring' = keyring /\ expired' = expired /\ c.at = "recheck"
          /\ (SlotMissing("client") => Fail(p))
          /\ (~SlotMissing("client") /\ RegisteredClient = 0 => Goto(p, "post"))
      BY <1>6 DEF Recheck, At, store, upstream
    <2>2. CASE ~SlotMissing("client") /\ RegisteredClient # 0
      <3>1. d.at = "release"
        BY <1>0, <1>6, <2>2, RecheckFields
      <3>2. QED
        BY <1>q, <3>1
    <2>3. CASE RegisteredClient = 0 /\ Goto(p, "post")
      <3>1. "post" \in Location /\ (keyring[<<"client", t>>] = 0 \/ keyring[<<"client", t>>] \in expired)
        BY <2>3 DEF Location, RegisteredClient, Committed
      <3>2. Moved(c, d, "post")
        BY <1>m, <2>3, <3>1
      <3>3. QED
        BY <2>1, <3>1, <3>2 DEF V, View, Moved, Granting, Registering
    <2>4. QED
      BY <1>f, <2>1, <2>2, <2>3
  <1>7. CASE PostRegistration(p)
    <2>1. PICK k \in 1..MaxClient : call' = [call EXCEPT ![p].at = "existing", ![p].rec = k]
      BY <1>7 DEF PostRegistration
    <2>2. d.at = "existing"
      BY <1>0, <2>1, PostFacts DEF CallType
    <2>3. QED
      BY <1>q, <2>2
  <1>8. CASE LoadExisting(p)
    <2>1. fence' = fence /\ (Fail(p) \/ Goto(p, "invLoad") \/ (StoreClient(p) /\ s = 0))
      <3>1. ~SlotMissing("refresh") /\ LiveGrant = 0 => s = 0
        BY DEF SlotMissing, LiveGrant
      <3>2. QED
        BY <1>8, <3>1 DEF LoadExisting, store
    <2>2. QED
      BY <1>f, <1>g, <1>s, <2>1
  <1>9. CASE SetSlot(p)
    <2>1. fence' = fence /\ c.at = "set"
      BY <1>9 DEF SetSlot, At, store
    <2>2. PICK n \in 1..MaxSlot, l \in {"rollback", "read", "sweep"} :
             /\ call' \in [Proc -> CallType] /\ Only(p)
             /\ call'[p] = [call[p] EXCEPT !.slot = n, !.at = l]
             /\ FreshSlot(call[p].kind, n)
             /\ l = "read" => call[p].kind = "client"
             /\ l = "sweep" => call[p].kind = "refresh"
             /\ l = "rollback" => Fault
             /\ l # "rollback" => UNCHANGED faults /\
                    keyring' = [keyring EXCEPT ![<<call[p].kind, n>>] = Secret(p)]
             /\ \/ keyring' = keyring
                \/ keyring' = [keyring EXCEPT ![<<call[p].kind, n>>] = Secret(p)]
      BY <1>9, SetFacts
    <2>3. d.at = l /\ d.kind = c.kind /\ d.op = c.op /\ d.prev = c.prev /\ d.fgen = c.fgen
      BY <1>0, <2>2 DEF CallType
    <2>4. CASE l = "rollback"
      BY <1>q, <2>3, <2>4
    <2>5. CASE l \in {"read", "sweep"}
      BY <1>v, <2>1, <2>2, <2>3, <2>5 DEF Granting, Registering
    <2>6. QED
      BY <2>4, <2>5
  <1>10. CASE Sweep(p)
    <2>1. fence' = fence /\ ((c.at = "sweep" /\ Goto(p, "commit")) \/ Goto(p, "release"))
      BY <1>10 DEF Sweep, At
    <2>2. CASE c.at = "sweep" /\ Goto(p, "commit")
      <3>1. "commit" \in Location /\ c.kind = "refresh"
        BY <1>0, <2>2 DEF Location, Local
      <3>2. Moved(c, d, "commit")
        BY <1>m, <2>2, <3>1
      <3>3. QED
        BY <1>v, <2>1, <2>2, <3>1, <3>2 DEF Moved, Granting
    <2>3. QED
      BY <1>g, <2>1, <2>2
  <1>11. CASE ReadClientFence(p)
    <2>1. fence' = fence /\ c.at = "read" /\ c.kind = "client"
      BY <1>0, <1>11 DEF ReadClientFence, At, store, Local
    <2>2. d.at = "commit" /\ d.kind = "client" /\ d.prev = t /\ d.fgen = fence["client"].gen + 1
      BY <1>0, <1>11, <2>1, ReadFields
    <2>3. s = 0
      BY <1>0, <2>1 DEF View, Registering
    <2>4. QED
      BY <2>1, <2>2, <2>3 DEF V, View, Granting, Registering
  <1>12. CASE Commit(p)
    <2>1. c.at = "commit" /\ fence' = [fence EXCEPT ![c.kind] = [gen |-> c.fgen, slot |-> c.slot]]
      BY <1>12 DEF Commit, At
    <2>2. PICK l \in {"dropLegacy", "unmark"}, nx \in {"idle", "consent"}, pr \in 0..MaxSlot :
             /\ call' \in [Proc -> CallType] /\ Only(p)
             /\ d = [c EXCEPT !.at = l, !.next = nx, !.prev = pr, !.slot = 0, !.tok = 0,
                              !.fgen = 0]
             /\ l = "dropLegacy" <=> c.kind = "client"
      BY <1>12, CommitFacts
    <2>3. d.at = l
      BY <1>0, <2>2 DEF CallType
    <2>4. CASE l = "unmark"
      <3>1. c.kind = "refresh" /\ c.slot # 0
        BY <1>0, <2>1, <2>2, <2>4 DEF Kind, Local
      <3>2. fence'["refresh"].slot = c.slot
        BY <1>0, <2>1, <3>1 DEF FenceType
      <3>3. QED
        BY <2>3, <2>4, <3>1, <3>2 DEF V, View, Granting, Registering
    <2>5. QED
      BY <1>q, <2>2, <2>3, <2>4
  <1>13. CASE \/ ExchangeRejected(p) \/ ExchangeLost(p) \/ ScopeMismatch(p) \/ PostRefused(p)
              \/ Fails(p) \/ CommitRejected(p) \/ Rollback(p) \/ UnmarkCommitted(p) \/ DropLegacy(p)
              \/ DropPrevious(p)
    <2>1. Fail(p) \/ \E l \in {"invLoad", "rollback", "dropLegacy", "dropPrevious", "release"} :
                        Goto(p, l)
      BY <1>13 DEF ExchangeRejected, ExchangeLost, ScopeMismatch, PostRefused, Fails, CommitRejected,
                   Rollback, UnmarkCommitted, DropLegacy, DropPrevious
    <2>2. QED
      BY <1>f, <1>g, <2>1
  <1>14. CASE InvalidateLoad(p)
    <2>1. fence' = fence /\ (SlotMissing("refresh") => Fail(p))
      BY <1>14 DEF InvalidateLoad, store
    <2>2. CASE ~SlotMissing("refresh")
      <3>1. d.at = "invMark" /\ d.prev = s
        BY <1>0, <1>14, <2>2, InvalidateLoadFields
      <3>2. QED
        BY <2>1, <3>1 DEF V, View, Granting, Registering
    <2>3. QED
      BY <1>f, <2>1, <2>2
  <1>15. CASE Mark(p)
    <2>1. /\ fence' = fence
          /\ \/ c.at = "invMark" /\ Goto(p, "invClear")
             \/ c.at = "outMark" /\ Goto(p, "outClearGrant")
      BY <1>15 DEF Mark, At
    <2>2. "invClear" \in Location /\ "outClearGrant" \in Location
      BY DEF Location
    <2>3. \/ c.at = "invMark" /\ Moved(c, d, "invClear")
          \/ c.at = "outMark" /\ Moved(c, d, "outClearGrant")
      BY <1>m, <2>1, <2>2
    <2>4. QED
      BY <1>v, <2>1, <2>3 DEF Moved
  <1>16. CASE InvalidateClear(p)
    <2>1. \/ Fail(p)
          \/ /\ fence' = [fence EXCEPT !["refresh"] = [gen |-> 0, slot |-> 0]]
             /\ \E l \in {"invLegacy", "invSlot"} : Goto(p, l)
      BY <1>16 DEF InvalidateClear, Cleared
    <2>2. ASSUME NEW l \in {"invLegacy", "invSlot"}, Goto(p, l),
                 fence' = [fence EXCEPT !["refresh"] = [gen |-> 0, slot |-> 0]]
          PROVE  V
      <3>1. l \in Location /\ fence'["refresh"].slot = 0
        BY <1>0, <2>2 DEF Location, FenceType
      <3>2. Moved(c, d, l)
        BY <1>m, <2>2, <3>1
      <3>3. QED
        BY <2>2, <3>1, <3>2 DEF V, View, Moved, Granting, Registering
    <2>3. QED
      BY <1>f, <2>1, <2>2
  <1>17. CASE InvalidateSlot(p) \/ InvalidateLegacy(p) \/ InvalidateUnmark(p)
    <2>1. /\ fence' = fence /\ c.at \in {"invSlot", "invLegacy", "invUnmark"}
          /\ \/ StoreClient(p) \/ Goto(p, "release")
             \/ \E l \in {"invLegacy", "invUnmark"} : Goto(p, l)
      BY <1>17 DEF InvalidateSlot, InvalidateLegacy, InvalidateUnmark, Invalidated, At, store
    <2>2. s = 0
      BY <1>0, <2>1 DEF View
    <2>3. ASSUME NEW l \in {"invLegacy", "invUnmark"}, Goto(p, l) PROVE V
      <3>1. l \in Location
        BY <2>3 DEF Location
      <3>2. Moved(c, d, l)
        BY <1>m, <2>3, <3>1
      <3>3. QED
        BY <1>v, <2>1, <2>3, <3>2 DEF Moved
    <2>4. QED
      BY <1>g, <1>s, <2>1, <2>2, <2>3
  <1>18. CASE LogoutRead(p)
    <2>1. fence' = fence
      BY <1>18 DEF LogoutRead, store
    <2>2. \/ d.at = "outGrantSlot" /\ d.prev = s
          \/ c.at = "outClient" /\ d.at = "outClientSlot" /\ d.prev = t
      <3>1. \/ d = [c EXCEPT !.at = "outGrantSlot", !.kind = "refresh", !.prev = s]
            \/ /\ c.at = "outClient"
               /\ d = [c EXCEPT !.at = "outClientSlot", !.kind = "client", !.prev = t]
        BY <1>18, LogoutReadFacts DEF At
      <3>2. QED
        BY <1>0, <3>1 DEF CallType
    <2>3. c.at = "outClient" => s = 0
      BY <1>0 DEF View
    <2>4. QED
      BY <2>1, <2>2, <2>3 DEF V, View, Granting, Registering
  <1>19. CASE LogoutSlot(p)
    <2>1. /\ fence' = fence
          /\ keyring' = IF c.prev = 0 THEN keyring ELSE [keyring EXCEPT ![<<c.kind, c.prev>>] = 0]
          /\ \/ c.at = "outGrantSlot" /\ Goto(p, "outMark")
             \/ c.at = "outClientSlot" /\ Goto(p, "outClearClient")
      BY <1>19 DEF LogoutSlot, At, store
    <2>2. "outMark" \in Location /\ "outClearClient" \in Location /\ <<c.kind, c.prev>> \in Label
      BY <1>0 DEF Location, Label
    <2>3. c.prev = 0 \/ keyring'[<<c.kind, c.prev>>] = 0
      BY <1>0, <2>1, <2>2
    <2>4. CASE c.at = "outGrantSlot" /\ Goto(p, "outMark")
      <3>1. Moved(c, d, "outMark") /\ c.prev = s /\ c.kind = "refresh"
        BY <1>0, <1>m, <2>2, <2>4 DEF View, Local
      <3>2. QED
        BY <2>1, <2>3, <3>1 DEF V, View, Moved, Granting, Registering
    <2>5. CASE c.at = "outClientSlot" /\ Goto(p, "outClearClient")
      <3>1. Moved(c, d, "outClearClient") /\ c.prev = t /\ c.kind = "client" /\ s = 0
        BY <1>0, <1>m, <2>2, <2>5 DEF View, Local
      <3>2. QED
        BY <2>1, <2>3, <3>1 DEF V, View, Moved, Granting, Registering
    <2>6. QED
      BY <2>1, <2>4, <2>5
  <1>20. CASE LogoutClear(p)
    <2>1. \/ Fail(p)
          \/ /\ fence' = [fence EXCEPT ![c.kind] = [gen |-> 0, slot |-> 0]]
             /\ \/ c.at = "outClearGrant" /\ Goto(p, "outClient")
                \/ c.at = "outClearClient" /\ Goto(p, "outLegacyClient")
      BY <1>20 DEF LogoutClear, Cleared, At
    <2>2. "outClient" \in Location /\ "outLegacyClient" \in Location
      BY DEF Location
    <2>3. CASE /\ fence' = [fence EXCEPT ![c.kind] = [gen |-> 0, slot |-> 0]]
               /\ c.at = "outClearGrant" /\ Goto(p, "outClient")
      <3>1. Moved(c, d, "outClient") /\ c.kind = "refresh"
        BY <1>0, <1>m, <2>2, <2>3 DEF Local
      <3>2. fence'["refresh"].slot = 0
        BY <1>0, <2>3, <3>1 DEF FenceType
      <3>3. QED
        BY <3>1, <3>2 DEF V, View, Moved, Granting, Registering
    <2>4. CASE /\ fence' = [fence EXCEPT ![c.kind] = [gen |-> 0, slot |-> 0]]
               /\ c.at = "outClearClient" /\ Goto(p, "outLegacyClient")
      <3>1. Moved(c, d, "outLegacyClient") /\ c.kind = "client" /\ s = 0
        BY <1>0, <1>m, <2>2, <2>4 DEF Local, View
      <3>2. fence'["client"].slot = 0 /\ fence'["refresh"] = fence["refresh"]
        BY <1>0, <2>4, <3>1 DEF FenceType
      <3>3. QED
        BY <3>1, <3>2 DEF V, View, Moved, Granting, Registering
    <2>5. QED
      BY <1>f, <2>1, <2>3, <2>4
  <1>21. CASE LogoutLegacy(p) \/ LogoutUnmark(p)
    <2>1. /\ fence' = fence /\ c.at \in {"outLegacyClient", "outLegacyGrant", "outUnmark"}
          /\ \E l \in {"outLegacyGrant", "outUnmark", "outSweep"} : Goto(p, l)
      BY <1>21 DEF LogoutLegacy, LogoutUnmark, At, store
    <2>2. PICK l \in {"outLegacyGrant", "outUnmark", "outSweep"} : Goto(p, l)
      BY <2>1
    <2>3. l \in Location
      BY <2>2 DEF Location
    <2>4. Moved(c, d, l)
      BY <1>m, <2>2, <2>3
    <2>5. QED
      BY <1>v, <2>1, <2>2, <2>4 DEF Moved
  <1>22. QED
    BY <1>1, <1>2, <1>3, <1>4, <1>5, <1>6, <1>7, <1>8, <1>9, <1>10, <1>11, <1>12, <1>13, <1>14,
       <1>15, <1>16, <1>17, <1>18, <1>19, <1>20, <1>21
       DEF Acts, Step

LEMMA EnvironStep ==
    ASSUME Shape, Private, Epochs, Environs \/ UNCHANGED vars
    PROVE  /\ lease' \in LeaseRow(Proc \union {Dead}) /\ Epochs'
           /\ \A q \in Proc : Holds(q)' => Holds(q)
  <1>0. lease \in LeaseRow(Proc \union {Dead})
    BY DEF Shape
  <1>1. call' = call
    BY NextForms DEF Environs, Lapse, Stall, Expire, Revoke, vars
  <1>2. lease' = lease \/ lease' = Elapse(lease)
    BY DEF Environs, Lapse, Stall, Expire, Revoke, vars
  <1>3. /\ lease' \in LeaseRow(Proc \union {Dead}) /\ lease'.owner = lease.owner
        /\ lease'.gen = lease.gen /\ (lease'.left > 0 => lease.left > 0)
    <2>1. Elapse(lease) \in LeaseRow(Proc \union {Dead}) /\ Elapse(lease).owner = lease.owner
          /\ Elapse(lease).gen = lease.gen /\ (Elapse(lease).left > 0 => lease.left > 0)
      BY <1>0, TTLAssumption DEF Elapse, LeaseRow
    <2>2. QED
      BY <1>0, <1>2, <2>1
  <1>4. QED
    BY <1>1, <1>3 DEF Epochs, Holds, HoldsEpoch, Live, AtWork

LEMMA ViewStep ==
    ASSUME Shape, Private, Epochs, HolderView, [Next]_vars
    PROVE  HolderView'
  <1>1. ASSUME NEW p \in Proc, Acts(p), NEW q \in Proc, Holds(q)'
        PROVE  View(call'[q], fence', keyring', expired')
    <2>1. CASE q # p
      <3>1. Holds(q) /\ ~Holds(p) /\ call'[q] = call[q]
        BY <1>1, <2>1, HolderStep
      <3>2. fence' = fence
        BY <1>1, <3>1, FenceStep
      <3>3. View(call[q], fence, keyring, expired)
        BY <3>1 DEF HolderView
      <3>4. View(call[q], fence', keyring', expired')
        BY <3>2, <3>3, ViewKept
      <3>5. QED
        BY <3>1, <3>4
    <2>2. CASE q = p
      <3>1. CASE call'[p].at = "release"
        <4>1. View(call'[p], fence', keyring', expired')
          BY <3>1, PlainView
        <4>2. QED
          BY <2>2, <4>1
      <3>2. CASE call'[p].at # "release"
        <4>1. Holds(p) \/ Claim(p) \/ StartLogout(p)
          BY <1>1, <2>2, <3>2, HolderStep
        <4>2. View(call[p], fence, keyring, expired)
          <5>1. CASE Holds(p)
            BY <5>1 DEF HolderView
          <5>2. CASE Claim(p) \/ StartLogout(p)
            <6>1. call[p].at \in {"claim", "idle"}
              BY <5>2 DEF Claim, StartLogout, At
            <6>2. QED
              BY <6>1, PlainView
          <5>3. QED
            BY <4>1, <5>1, <5>2
        <4>3. QED
          BY <1>1, <2>2, <4>2, OwnView
      <3>3. QED
        BY <3>1, <3>2
    <2>3. QED
      BY <2>1, <2>2
  <1>2. ASSUME Environs \/ UNCHANGED vars, UNCHANGED <<call, fence>>, NEW q \in Proc, Holds(q)'
        PROVE  View(call'[q], fence', keyring', expired')
    <2>1. Holds(q)
      BY <1>2, EnvironStep
    <2>2. View(call[q], fence', keyring', expired')
      BY <1>2, <2>1, ViewKept DEF HolderView
    <2>3. QED
      BY <1>2, <2>2
  <1>3. QED
    BY <1>1, <1>2, NextForms DEF HolderView, vars, store

-----------------------------------------------------------------------------
(* What a call relies on without the lease.                                *)

LEMMA MineKept ==
    ASSUME Shape, Private, [Next]_vars, NEW q \in Proc
    PROVE  Mine(call[q], keyring', grants')
  <1> DEFINE c == call[q]
  <1>0. /\ c \in CallType /\ Local(c) /\ Mine(c, keyring, grants)
        /\ c.kind \in Kind /\ c.slot \in 0..MaxSlot /\ c.tok \in 0..MaxGrant
    BY DEF Shape, Private, CallType
  <1>1. \A k \in Kind : keyring'[<<k, 0>>] \in {0, keyring[<<k, 0>>]}
    BY Bounds, KeptLabels
  <1>2. keyring'[<<c.kind, c.slot>>] \in {0, keyring[<<c.kind, c.slot>>]}
    BY <1>0, KeptLabels
  <1>3. c.tok # 0 => grants'[c.tok] \in {0, grants[c.tok]}
    <2>1. c.tok \in UsedGrants
      BY UsedNames
    <2>2. c.tok # 0 => c.tok \in 1..MaxGrant
      BY <1>0, Bounds
    <2>3. QED
      BY <2>1, <2>2, GrantStep
  <1>4. "refresh" \in Kind /\ "client" \in Kind
    BY DEF Kind
  <1>5. QED
    BY <1>0, <1>1, <1>2, <1>3, <1>4 DEF Mine, Local

LEMMA OwnMine ==
    ASSUME Shape, Private, NEW p \in Proc, Acts(p)
    PROVE  Mine(call'[p], keyring', grants')
  <1> DEFINE c == call[p]
             d == call'[p]
             M == Mine(d, keyring', grants')
             Watched == {"outLegacyGrant", "outUnmark", "outSweep", "invUnmark", "sweep", "read",
                         "commit", "gate", "adopt", "set"}
  <1>0. /\ c \in CallType /\ Local(c) /\ c.kind \in Kind /\ c.slot \in 0..MaxSlot
        /\ c.tok \in 0..MaxGrant /\ c.rec \in 0..MaxClient
        /\ keyring \in [Label -> Nat] /\ grants \in [1..MaxGrant -> 0..MaxClient]
    BY DEF Shape, Private, CallType
  <1>k. Mine(c, keyring', grants')
    BY ActsNext, MineKept
  <1>q. ASSUME d.at \notin Watched PROVE M
    BY <1>q DEF Mine
  <1>f. ASSUME Fail(p) PROVE M
    BY <1>f, <1>q, FailFacts
  <1>m. ASSUME NEW l \in Location, Goto(p, l)
        PROVE  Moved(c, d, l)
    BY <1>m, GotoFacts
  <1>g. ASSUME NEW l \in Location \ Watched, Goto(p, l) PROVE M
    <2>1. Moved(c, d, l)
      BY <1>g, <1>m
    <2>2. QED
      BY <1>g, <1>q, <2>1 DEF Moved
  <1>s. ASSUME StoreClient(p) PROVE M
    BY <1>s, StoreClientFacts DEF Mine
  <1> HIDE DEF M
  <1> SUFFICES M
    BY DEF M
  <1>1. CASE Start(p) \/ Claim(p) \/ Contended(p) \/ Crash(p) \/ Release(p) \/ Consent(p)
    BY <1>1, <1>q, EdgeStep
  <1>2. CASE LoadCredential(p)
    <2>1. CASE LiveGrant # 0
      <3>1. d.at = "exchange"
        BY <1>0, <1>2, <2>1, LoadFields
      <3>2. QED
        BY <1>q, <3>1
    <2>2. QED
      BY <1>f, <1>2, <2>1 DEF LoadCredential
  <1>3. CASE ExchangeRefresh(p) \/ ExchangeCode(p)
    <2>1. c.at = "exchange"
      BY <1>3 DEF ExchangeRefresh, ExchangeCode, At
    <2>2. \/ Fail(p)
          \/ \E g \in 1..MaxGrant : /\ call' = [call EXCEPT ![p].at = "gate", ![p].tok = g]
                                    /\ grants'[g] \in {0, c.rec}
      <3>1. CASE ExchangeRefresh(p)
        <4>1. PICK g \in 1..MaxGrant :
                 Rotated(p, g) /\ call' = [call EXCEPT ![p].at = "gate", ![p].tok = g]
          BY <3>1 DEF ExchangeRefresh
        <4>2. grants[c.tok] = c.rec
          BY <3>1 DEF ExchangeRefresh, Accepts
        <4>3. grants'[g] \in {0, c.rec}
          BY <1>0, <4>1, <4>2 DEF Rotated
        <4>4. QED
          BY <4>1, <4>3
      <3>2. CASE ExchangeCode(p)
        BY <1>0, <3>2 DEF ExchangeCode
      <3>3. QED
        BY <1>3, <3>1, <3>2
    <2>3. ASSUME NEW g \in 1..MaxGrant, call' = [call EXCEPT ![p].at = "gate", ![p].tok = g],
                 grants'[g] \in {0, c.rec}
          PROVE  M
      <3>1. d = [c EXCEPT !.at = "gate", !.tok = g]
        BY <2>3, ExchangedFacts
      <3>2. d.at = "gate" /\ d.tok = g /\ d.rec = c.rec
        BY <1>0, <3>1 DEF CallType
      <3>3. QED
        BY <2>3, <3>2 DEF M, Mine
    <2>4. QED
      BY <1>f, <2>2, <2>3
  <1>4. CASE Gate(p)
    <2>1. c.at = "gate" /\ (Fail(p) \/ Goto(p, "set") \/ Goto(p, "adopt"))
      BY <1>4 DEF Gate, At
    <2>2. "set" \in Location /\ "adopt" \in Location
      BY DEF Location
    <2>3. CASE Moved(c, d, "set") \/ Moved(c, d, "adopt")
      BY <1>k, <2>1, <2>3 DEF M, Mine, Moved
    <2>4. QED
      BY <1>f, <1>m, <2>1, <2>2, <2>3
  <1>5. CASE Adopt(p)
    <2>1. c.at = "adopt" /\ (~SameRecord(p) \/ SlotMissing("refresh") => Fail(p))
      BY <1>5 DEF Adopt, At
    <2>2. CASE SameRecord(p) /\ ~SlotMissing("refresh")
      <3>1. d = [c EXCEPT !.at = "set", !.fgen = fence["refresh"].gen + 1,
                          !.prev = fence["refresh"].slot]
        BY <1>5, <2>2, AdoptFacts
      <3>2. d.at = "set" /\ d.tok = c.tok /\ d.rec = c.rec
        BY <1>0, <3>1 DEF CallType
      <3>3. QED
        BY <1>k, <2>1, <3>2 DEF M, Mine
    <2>3. QED
      BY <1>f, <2>1, <2>2
  <1>6. CASE Recheck(p)
    <2>1. CASE ~SlotMissing("client") /\ RegisteredClient # 0
      <3>1. d.at = "release"
        BY <1>0, <1>6, <2>1, RecheckFields
      <3>2. QED
        BY <1>q, <3>1
    <2>2. "post" \in Location \ Watched
      BY DEF Location
    <2>3. QED
      BY <1>f, <1>g, <1>6, <2>1, <2>2 DEF Recheck
  <1>7. CASE PostRegistration(p)
    <2>1. PICK k \in 1..MaxClient : call' = [call EXCEPT ![p].at = "existing", ![p].rec = k]
      BY <1>7 DEF PostRegistration
    <2>2. d.at = "existing"
      BY <1>0, <2>1, PostFacts DEF CallType
    <2>3. QED
      BY <1>q, <2>2
  <1>8. CASE SetSlot(p)
    <2>1. PICK n \in 1..MaxSlot, l \in {"rollback", "read", "sweep"} :
             /\ call' \in [Proc -> CallType] /\ Only(p)
             /\ call'[p] = [call[p] EXCEPT !.slot = n, !.at = l]
             /\ FreshSlot(call[p].kind, n)
             /\ l = "read" => call[p].kind = "client"
             /\ l = "sweep" => call[p].kind = "refresh"
             /\ l = "rollback" => Fault
             /\ l # "rollback" => UNCHANGED faults /\
                    keyring' = [keyring EXCEPT ![<<call[p].kind, n>>] = Secret(p)]
             /\ \/ keyring' = keyring
                \/ keyring' = [keyring EXCEPT ![<<call[p].kind, n>>] = Secret(p)]
      BY <1>8, SetFacts
    <2>2. /\ d.at = l /\ d.kind = c.kind /\ d.tok = c.tok /\ d.rec = c.rec /\ d.slot = n
          /\ <<c.kind, n>> \in Label
      BY <1>0, <2>1 DEF CallType, Label
    <2>3. c.at = "set"
      BY <1>8 DEF SetSlot, At
    <2>4. CASE l = "rollback"
      BY <1>q, <2>2, <2>4
    <2>5. CASE l # "rollback"
      <3>1. keyring'[<<c.kind, n>>] = IF c.kind = "client" THEN c.rec ELSE c.tok
        BY <1>0, <2>1, <2>2, <2>5 DEF Secret
      <3>2. QED
        BY <1>k, <2>2, <2>3, <2>5, <3>1 DEF M, Mine
    <2>6. QED
      BY <2>4, <2>5
  <1>9. CASE Sweep(p)
    <2>1. (c.at = "sweep" /\ Goto(p, "commit")) \/ Goto(p, "release")
      BY <1>9 DEF Sweep, At
    <2>2. "commit" \in Location /\ "release" \in Location \ Watched
      BY DEF Location
    <2>3. CASE c.at = "sweep" /\ Moved(c, d, "commit")
      BY <1>k, <2>3 DEF M, Mine, Moved
    <2>4. QED
      BY <1>g, <1>m, <2>1, <2>2, <2>3
  <1>10. CASE ReadClientFence(p)
    <2>1. c.at = "read" /\ c.kind = "client"
      BY <1>0, <1>10 DEF ReadClientFence, At, Local
    <2>2. d = [c EXCEPT !.at = "commit", !.fgen = fence["client"].gen + 1,
                        !.prev = fence["client"].slot]
      BY <1>10, ReadFacts
    <2>3. d.at = "commit" /\ d.kind = c.kind /\ d.slot = c.slot /\ d.rec = c.rec /\ d.tok = c.tok
      BY <1>0, <2>2 DEF CallType
    <2>4. QED
      BY <1>k, <2>1, <2>3 DEF M, Mine
  <1>11. CASE Commit(p)
    <2>1. PICK l \in {"dropLegacy", "unmark"}, nx \in {"idle", "consent"}, pr \in 0..MaxSlot :
             /\ call' \in [Proc -> CallType] /\ Only(p)
             /\ d = [c EXCEPT !.at = l, !.next = nx, !.prev = pr, !.slot = 0, !.tok = 0,
                              !.fgen = 0]
             /\ l = "dropLegacy" <=> c.kind = "client"
      BY <1>11, CommitFacts
    <2>2. d.at = l
      BY <1>0, <2>1 DEF CallType
    <2>3. QED
      BY <1>q, <2>2
  <1>12. CASE InvalidateLoad(p)
    <2>1. CASE ~SlotMissing("refresh")
      <3>1. d.at = "invMark"
        BY <1>0, <1>12, <2>1, InvalidateLoadFields
      <3>2. QED
        BY <1>q, <3>1
    <2>2. QED
      BY <1>f, <1>12, <2>1 DEF InvalidateLoad
  <1>13. CASE LogoutRead(p)
    <2>1. \/ d = [c EXCEPT !.at = "outGrantSlot", !.kind = "refresh",
                           !.prev = fence["refresh"].slot]
          \/ d = [c EXCEPT !.at = "outClientSlot", !.kind = "client",
                           !.prev = fence["client"].slot]
      BY <1>13, LogoutReadFacts
    <2>2. d.at \in {"outGrantSlot", "outClientSlot"}
      BY <1>0, <2>1 DEF CallType
    <2>3. QED
      BY <1>q, <2>2
  <1>14. CASE \/ ExchangeRejected(p) \/ ExchangeLost(p) \/ ScopeMismatch(p) \/ PostRefused(p)
              \/ Fails(p) \/ CommitRejected(p) \/ Rollback(p) \/ UnmarkCommitted(p) \/ DropLegacy(p)
              \/ DropPrevious(p) \/ CurrentRecord(p) \/ LoadExisting(p) \/ Mark(p)
    <2>1. Fail(p) \/ StoreClient(p)
          \/ \E l \in {"invLoad", "rollback", "dropLegacy", "dropPrevious", "release", "exchange",
                       "invClear", "outClearGrant"} : Goto(p, l)
      BY <1>14 DEF ExchangeRejected, ExchangeLost, ScopeMismatch, PostRefused, Fails, CommitRejected,
                   Rollback, UnmarkCommitted, DropLegacy, DropPrevious, CurrentRecord, LoadExisting,
                   Mark
    <2>2. {"invLoad", "rollback", "dropLegacy", "dropPrevious", "release", "exchange", "invClear",
           "outClearGrant"} \subseteq Location \ Watched
      BY DEF Location
    <2>3. QED
      BY <1>f, <1>g, <1>s, <2>1, <2>2
  <1>15. CASE \/ InvalidateClear(p) \/ InvalidateSlot(p) \/ InvalidateUnmark(p) \/ LogoutSlot(p)
              \/ LogoutClear(p)
    <2>1. Fail(p) \/ StoreClient(p)
          \/ \E l \in {"invLegacy", "invSlot", "release", "outMark", "outClearClient", "outClient",
                       "outLegacyClient"} : Goto(p, l)
      BY <1>15 DEF InvalidateClear, InvalidateSlot, InvalidateUnmark, LogoutSlot, LogoutClear,
                   Invalidated
    <2>2. {"invLegacy", "invSlot", "release", "outMark", "outClearClient", "outClient",
           "outLegacyClient"} \subseteq Location \ Watched
      BY DEF Location
    <2>3. QED
      BY <1>f, <1>g, <1>s, <2>1, <2>2
  <1>16. CASE InvalidateLegacy(p)
    <2>1. \/ StoreClient(p) \/ Goto(p, "release")
          \/ Goto(p, "invUnmark") /\ keyring' = [keyring EXCEPT ![<<"refresh", 0>>] = 0]
      BY <1>16 DEF InvalidateLegacy, Invalidated
    <2>2. /\ "release" \in Location \ Watched /\ "invUnmark" \in Location
          /\ <<"refresh", 0>> \in Label
      BY Bounds DEF Location, Label, Kind
    <2>3. CASE /\ Moved(c, d, "invUnmark")
               /\ keyring' = [keyring EXCEPT ![<<"refresh", 0>>] = 0]
      BY <1>0, <2>2, <2>3 DEF M, Mine, Moved
    <2>4. QED
      BY <1>g, <1>m, <1>s, <2>1, <2>2, <2>3
  <1>17. CASE LogoutLegacy(p)
    <2>1. \/ /\ Goto(p, "outLegacyGrant")
             /\ keyring' = [keyring EXCEPT ![<<"client", 0>>] = 0]
          \/ /\ c.at = "outLegacyGrant" /\ Goto(p, "outUnmark")
             /\ keyring' = [keyring EXCEPT ![<<"refresh", 0>>] = 0]
      BY <1>17 DEF LogoutLegacy, At
    <2>2. /\ "outLegacyGrant" \in Location /\ "outUnmark" \in Location
          /\ <<"refresh", 0>> \in Label /\ <<"client", 0>> \in Label
      BY Bounds DEF Location, Label, Kind
    <2>3. CASE /\ Moved(c, d, "outLegacyGrant")
               /\ keyring' = [keyring EXCEPT ![<<"client", 0>>] = 0]
      BY <1>0, <2>2, <2>3 DEF M, Mine, Moved
    <2>4. CASE /\ c.at = "outLegacyGrant" /\ Moved(c, d, "outUnmark")
               /\ keyring' = [keyring EXCEPT ![<<"refresh", 0>>] = 0]
      BY <1>0, <1>k, <2>2, <2>4 DEF M, Mine, Moved
    <2>5. QED
      BY <1>m, <2>1, <2>2, <2>3, <2>4
  <1>18. CASE LogoutUnmark(p)
    <2>1. c.at = "outUnmark" /\ Goto(p, "outSweep") /\ "outSweep" \in Location
      BY <1>18 DEF LogoutUnmark, At, Location
    <2>2. Moved(c, d, "outSweep")
      BY <1>m, <2>1
    <2>3. QED
      BY <1>k, <2>1, <2>2 DEF M, Mine, Moved
  <1>19. QED
    BY <1>1, <1>2, <1>3, <1>4, <1>5, <1>6, <1>7, <1>8, <1>9, <1>10, <1>11, <1>12, <1>13, <1>14,
       <1>15, <1>16, <1>17, <1>18
       DEF Acts, Step

LEMMA PrivateStep ==
    ASSUME Shape, Private, [Next]_vars
    PROVE  Private'
  <1>1. ASSUME NEW p \in Proc, Acts(p), NEW q \in Proc
        PROVE  Mine(call'[q], keyring', grants')
    <2>1. CASE q = p
      BY <1>1, <2>1, OwnMine
    <2>2. CASE q # p
      BY <1>1, <2>2, OwnCall, MineKept DEF Only
    <2>3. QED
      BY <2>1, <2>2
  <1>2. ASSUME UNCHANGED call, NEW q \in Proc
        PROVE  Mine(call'[q], keyring', grants')
    BY <1>2, MineKept
  <1>3. \A q \in Proc : Mine(call'[q], keyring', grants')
    BY <1>1, <1>2, NextForms DEF vars
  <1>4. QED
    BY <1>3, CallStep DEF Private

-----------------------------------------------------------------------------
(* Slots in hand, and slots recorded for retirement.                       *)

\* A slot comes into a call's hands when it is written, and leaves them by the
\* commit, the rollback or a crash.
LEMMA SlotStep ==
    ASSUME Shape, Private, NEW p \in Proc, Acts(p)
    PROVE  \/ SetSlot(p) /\ call[p].slot = 0
           \/ (Commit(p) \/ Rollback(p) \/ Crash(p)) /\ call'[p].slot = 0
           \/ /\ call'[p].slot = call[p].slot
              /\ call[p].slot # 0 => call'[p].kind = call[p].kind
  <1> DEFINE c == call[p]
             d == call'[p]
  <1>0. c \in CallType /\ Local(c) /\ c.slot \in 0..MaxSlot
    BY DEF Shape, Private, CallType
  <1>f. ASSUME Fail(p) PROVE d.slot = 0
    BY <1>f, FailFacts DEF Blank
  <1>g. ASSUME NEW l \in Location, Goto(p, l) PROVE d.slot = c.slot /\ d.kind = c.kind
    BY <1>g, GotoFacts DEF Moved
  <1>s. ASSUME StoreClient(p) PROVE d.slot = c.slot
    BY <1>s, StoreClientFacts
  <1>1. CASE c.slot # 0
    <2>1. c.at \in {"rollback", "sweep", "read", "commit"}
      BY <1>0, <1>1 DEF Local
    <2>2. \/ Sweep(p) \/ ReadClientFence(p) \/ CommitRejected(p)
          \/ Commit(p) \/ Rollback(p) \/ Crash(p)
      BY <2>1
         DEF Acts, Start, Step, StartRefresh, StartLogin, StartLogout, Claim, Contended,
             LoadCredential, ExchangeRefresh, ExchangeRejected, ExchangeCode, Gate, CurrentRecord,
             Adopt, Recheck, PostRefused, PostRegistration, LoadExisting, SetSlot,
             UnmarkCommitted, DropLegacy, DropPrevious, InvalidateLoad, Mark, InvalidateClear,
             InvalidateSlot, InvalidateLegacy, InvalidateUnmark, LogoutRead, LogoutSlot,
             LogoutClear, LogoutLegacy, LogoutUnmark, Release, Consent, Fails, ExchangeLost,
             ScopeMismatch, At, Interruptible
    <2>3. CASE Sweep(p) \/ CommitRejected(p)
      <3>1. \E l \in {"commit", "release", "rollback"} : Goto(p, l)
        BY <2>3 DEF Sweep, CommitRejected
      <3>2. {"commit", "release", "rollback"} \subseteq Location
        BY DEF Location
      <3>3. QED
        BY <1>g, <3>1, <3>2
    <2>4. CASE ReadClientFence(p)
      BY <1>0, <2>4, ReadFields
    <2>5. CASE Commit(p)
      <3>1. PICK l \in {"dropLegacy", "unmark"}, nx \in {"idle", "consent"}, pr \in 0..MaxSlot :
               /\ call' \in [Proc -> CallType] /\ Only(p)
               /\ d = [c EXCEPT !.at = l, !.next = nx, !.prev = pr, !.slot = 0, !.tok = 0,
                                !.fgen = 0]
               /\ l = "dropLegacy" <=> c.kind = "client"
        BY <2>5, CommitFacts
      <3>2. d.slot = 0
        BY <1>0, <3>1 DEF CallType
      <3>3. QED
        BY <2>5, <3>2
    <2>6. CASE Rollback(p)
      BY <1>f, <2>6 DEF Rollback
    <2>7. CASE Crash(p)
      BY <2>7, EndFacts DEF Crash, Blank
    <2>8. QED
      BY <2>2, <2>3, <2>4, <2>5, <2>6, <2>7
  <1>2. CASE c.slot = 0 /\ ~SetSlot(p)
    <2> DEFINE Z == d.slot = 0
    <2> SUFFICES Z
      BY <1>2
    <2>0. c.at \notin {"sweep", "read", "commit"}
      BY <1>0, <1>2 DEF Local
    <2>1. CASE Start(p) \/ Claim(p) \/ Contended(p) \/ Crash(p) \/ Release(p) \/ Consent(p)
      <3>1. Local(d) /\ d \in CallType
        BY OwnCall
      <3>2. QED
        BY <2>1, <3>1, EdgeStep DEF Local
    <2>2. CASE LoadCredential(p)
      BY <1>0, <1>2, <1>f, <2>2, LoadFields DEF LoadCredential
    <2>3. CASE ExchangeRefresh(p) \/ ExchangeCode(p)
      <3>1. Fail(p) \/ \E g \in 1..MaxGrant : call' = [call EXCEPT ![p].at = "gate", ![p].tok = g]
        BY <2>3 DEF ExchangeRefresh, ExchangeCode
      <3>2. ASSUME NEW g \in 1..MaxGrant, call' = [call EXCEPT ![p].at = "gate", ![p].tok = g]
            PROVE  Z
        <4>1. d = [c EXCEPT !.at = "gate", !.tok = g]
          BY <3>2, ExchangedFacts
        <4>2. QED
          BY <1>0, <1>2, <4>1 DEF CallType
      <3>3. QED
        BY <1>f, <3>1, <3>2
    <2>4. CASE Adopt(p)
      BY <1>0, <1>2, <1>f, <2>4, AdoptFields DEF Adopt
    <2>5. CASE Recheck(p)
      <3>1. "post" \in Location
        BY DEF Location
      <3>2. QED
        BY <1>0, <1>2, <1>f, <1>g, <2>5, <3>1, RecheckFields DEF Recheck
    <2>6. CASE PostRegistration(p)
      <3>1. PICK k \in 1..MaxClient : call' = [call EXCEPT ![p].at = "existing", ![p].rec = k]
        BY <2>6 DEF PostRegistration
      <3>2. QED
        BY <1>0, <1>2, <3>1, PostFacts DEF CallType
    <2>7. CASE InvalidateLoad(p)
      <3>1. CASE ~SlotMissing("refresh")
        <4>1. d = [c EXCEPT !.at = "invMark", !.tok = 0, !.fgen = 0,
                            !.prev = fence["refresh"].slot]
          BY <2>7, <3>1, InvalidateLoadFacts
        <4>2. QED
          BY <1>0, <1>2, <4>1 DEF CallType
      <3>2. QED
        BY <1>f, <2>7, <3>1 DEF InvalidateLoad
    <2>8. CASE LogoutRead(p)
      <3>1. \/ d = [c EXCEPT !.at = "outGrantSlot", !.kind = "refresh",
                             !.prev = fence["refresh"].slot]
            \/ d = [c EXCEPT !.at = "outClientSlot", !.kind = "client",
                             !.prev = fence["client"].slot]
        BY <2>8, LogoutReadFacts
      <3>2. QED
        BY <1>0, <1>2, <3>1 DEF CallType
    <2>9. CASE \/ ExchangeRejected(p) \/ ExchangeLost(p) \/ ScopeMismatch(p) \/ PostRefused(p)
               \/ Fails(p) \/ Rollback(p) \/ UnmarkCommitted(p) \/ DropLegacy(p)
               \/ DropPrevious(p) \/ CurrentRecord(p) \/ LoadExisting(p) \/ Mark(p) \/ Gate(p)
      <3>1. Fail(p) \/ StoreClient(p)
            \/ \E l \in {"invLoad", "set", "adopt", "dropLegacy", "dropPrevious", "release",
                         "exchange", "invClear", "outClearGrant"} : Goto(p, l)
        BY <2>9 DEF ExchangeRejected, ExchangeLost, ScopeMismatch, PostRefused, Fails, Rollback,
                    UnmarkCommitted, DropLegacy, DropPrevious, CurrentRecord, LoadExisting, Mark,
                    Gate
      <3>2. {"invLoad", "set", "adopt", "dropLegacy", "dropPrevious", "release", "exchange",
             "invClear", "outClearGrant"} \subseteq Location
        BY DEF Location
      <3>3. QED
        BY <1>2, <1>f, <1>g, <1>s, <3>1, <3>2
    <2>10. CASE \/ InvalidateClear(p) \/ InvalidateSlot(p) \/ InvalidateUnmark(p) \/ LogoutSlot(p)
                \/ LogoutClear(p) \/ InvalidateLegacy(p) \/ LogoutLegacy(p) \/ LogoutUnmark(p)
                \/ Sweep(p)
      <3>1. Fail(p) \/ StoreClient(p)
            \/ \E l \in {"invLegacy", "invSlot", "release", "outMark", "outClearClient", "outClient",
                         "outLegacyClient", "outLegacyGrant", "outUnmark", "outSweep",
                         "invUnmark", "commit"} : Goto(p, l)
        BY <2>10 DEF InvalidateClear, InvalidateSlot, InvalidateUnmark, LogoutSlot, LogoutClear,
                     Invalidated, InvalidateLegacy, LogoutLegacy, LogoutUnmark, Sweep
      <3>2. {"invLegacy", "invSlot", "release", "outMark", "outClearClient", "outClient",
             "outLegacyClient", "outLegacyGrant", "outUnmark", "outSweep",
             "invUnmark", "commit"} \subseteq Location
        BY DEF Location
      <3>3. QED
        BY <1>2, <1>f, <1>g, <1>s, <3>1, <3>2
    <2>11. ~ReadClientFence(p) /\ ~Commit(p) /\ ~CommitRejected(p)
      BY <2>0 DEF ReadClientFence, Commit, CommitRejected, At
    <2>12. QED
      BY <1>2, <2>1, <2>2, <2>3, <2>4, <2>5, <2>6, <2>7, <2>8, <2>9, <2>10, <2>11 DEF Acts, Step
  <1>3. QED
    BY <1>1, <1>2

LEMMA CommitEnds ==
    ASSUME Shape, NEW p \in Proc, Commit(p)
    PROVE  call'[p].slot = 0 /\ call[p].at = "commit"
  <1>0. call[p] \in CallType /\ call[p].at = "commit"
    BY DEF Shape, Commit, At
  <1>1. PICK l \in {"dropLegacy", "unmark"}, nx \in {"idle", "consent"}, pr \in 0..MaxSlot :
           /\ call' \in [Proc -> CallType] /\ Only(p)
           /\ call'[p] = [call[p] EXCEPT !.at = l, !.next = nx, !.prev = pr, !.slot = 0, !.tok = 0,
                                         !.fgen = 0]
           /\ l = "dropLegacy" <=> call[p].kind = "client"
    BY CommitFacts
  <1>2. QED
    BY <1>0, <1>1 DEF CallType

\* Where a fence can point after a step.
LEMMA FenceForms ==
    ASSUME Shape, NEW p \in Proc, Acts(p)
    PROVE  /\ fence' \in FenceType
           /\ \A k \in Kind :
                 \/ fence'[k] = fence[k]
                 \/ fence'[k].slot = 0 /\ (InvalidateClear(p) \/ LogoutClear(p))
                 \/ Commit(p) /\ k = call[p].kind /\ fence'[k].slot = call[p].slot
  <1>0. fence \in FenceType /\ call[p].kind \in Kind /\ call[p].fgen \in Nat
        /\ call[p].slot \in 0..MaxSlot /\ "refresh" \in Kind /\ 0 \in 0..MaxSlot
    BY Bounds DEF Shape, CallType, Kind
  <1>1. CASE fence' = fence
    BY <1>0, <1>1
  <1>2. CASE Commit(p)
    <2>1. fence' = [fence EXCEPT ![call[p].kind] = [gen |-> call[p].fgen, slot |-> call[p].slot]]
      BY <1>2 DEF Commit
    <2>2. [gen |-> call[p].fgen, slot |-> call[p].slot] \in [gen : Nat, slot : 0..MaxSlot]
      BY <1>0
    <2>3. QED
      BY <1>0, <1>2, <2>1, <2>2 DEF FenceType
  <1>3. CASE (InvalidateClear(p) \/ LogoutClear(p)) /\ fence' # fence
    <2>1. PICK k \in Kind : fence' = [fence EXCEPT ![k] = [gen |-> 0, slot |-> 0]]
      BY <1>0, <1>3 DEF InvalidateClear, LogoutClear, Cleared
    <2>2. [gen |-> 0, slot |-> 0] \in [gen : Nat, slot : 0..MaxSlot]
      BY <1>0
    <2>3. QED
      BY <1>0, <1>3, <2>1, <2>2 DEF FenceType
  <1>4. QED
    BY <1>1, <1>2, <1>3, FenceStep

LEMMA OwnSlotStep ==
    ASSUME Shape, Private, OwnSlot, [Next]_vars
    PROVE  OwnSlot'
  <1>1. ASSUME NEW p \in Proc, Acts(p)
        PROVE  OwnSlot'
    <2> DEFINE c == call[p]
               d == call'[p]
    <2>0. Only(p) /\ c.kind \in Kind /\ c.slot \in 0..MaxSlot /\ Local(c)
          /\ \A q \in Proc : call[q].kind \in Kind /\ call[q].slot \in 0..MaxSlot
      BY <1>1, OwnCall DEF Shape, CallType, Private
    <2>1. \A k \in Kind : \/ fence'[k] = fence[k]
                          \/ fence'[k].slot = 0
                          \/ Commit(p) /\ k = c.kind /\ fence'[k].slot = c.slot
      BY <1>1, FenceForms
    <2>2. CASE Commit(p)
      <3>1. d.slot = 0 /\ c.slot # 0
        BY <2>0, <2>2, CommitEnds DEF Local
      <3>2. QED
        BY <2>0, <2>1, <3>1 DEF OwnSlot, Only
    <2>3. CASE SetSlot(p)
      <3>1. PICK n \in 1..MaxSlot, l \in {"rollback", "read", "sweep"} :
             /\ call' \in [Proc -> CallType] /\ Only(p)
             /\ call'[p] = [call[p] EXCEPT !.slot = n, !.at = l]
             /\ FreshSlot(call[p].kind, n)
             /\ l = "read" => call[p].kind = "client"
             /\ l = "sweep" => call[p].kind = "refresh"
             /\ l = "rollback" => Fault
             /\ l # "rollback" => UNCHANGED faults /\
                    keyring' = [keyring EXCEPT ![<<call[p].kind, n>>] = Secret(p)]
             /\ \/ keyring' = keyring
                \/ keyring' = [keyring EXCEPT ![<<call[p].kind, n>>] = Secret(p)]
        BY <2>3, SetFacts
      <3>2. d.slot = n /\ d.kind = c.kind
        BY <3>1 DEF Shape, CallType
      <3>3. n \notin UsedSlots(c.kind)
        BY <3>1 DEF FreshSlot
      <3>4. fence[c.kind].slot # n /\ \A q \in Proc : call[q].kind = c.kind => call[q].slot # n
        BY <3>3 DEF UsedSlots
      <3>5. fence' = fence
        BY <2>3 DEF SetSlot, store
      <3>6. QED
        BY <2>0, <3>2, <3>4, <3>5 DEF OwnSlot, Only
    <2>4. CASE ~Commit(p) /\ d.slot = 0
      BY <2>0, <2>1, <2>4 DEF OwnSlot, Only
    <2>5. CASE ~Commit(p) /\ d.slot = c.slot /\ d.kind = c.kind
      BY <2>0, <2>1, <2>5 DEF OwnSlot, Only
    <2>6. QED
      BY <1>1, <2>2, <2>3, <2>4, <2>5, SlotStep
  <1>2. CASE UNCHANGED <<call, fence>>
    BY <1>2 DEF OwnSlot
  <1>3. QED
    BY <1>1, <1>2, NextForms DEF vars, store

\* A record is given up only for a label that is empty.
LEMMA RetiredStep ==
    ASSUME Shape, NEW p \in Proc, Acts(p)
    PROVE  /\ retired' \subseteq Label
           /\ \A l \in retired : l \in retired' \/ keyring'[l] = 0
  <1> DEFINE c == call[p]
             Goal == /\ retired' \subseteq Label
                     /\ \A l \in retired : l \in retired' \/ keyring'[l] = 0
  <1>0. /\ retired \subseteq Label /\ keyring \in [Label -> Nat]
        /\ <<c.kind, 0>> \in Label /\ <<c.kind, c.slot>> \in Label /\ <<c.kind, c.prev>> \in Label
        /\ <<"refresh", c.prev>> \in Label /\ <<"client", 0>> \in Label
    <2>1. c.kind \in Kind /\ c.slot \in 0..MaxSlot /\ c.prev \in 0..MaxSlot
      BY DEF Shape, CallType
    <2>2. 0 \in 0..MaxSlot /\ "refresh" \in Kind /\ "client" \in Kind
      BY Bounds DEF Kind
    <2>3. QED
      BY <2>1, <2>2 DEF Shape, Label
  <1>1. CASE UNCHANGED retired
    BY <1>0, <1>1
  <1>a. ASSUME NEW S, S \subseteq Label, retired' = retired \union S PROVE Goal
    BY <1>0, <1>a
  <1>d. ASSUME NEW m \in Label, retired' = retired \ {m}, keyring' = [keyring EXCEPT ![m] = 0]
        PROVE  Goal
    BY <1>0, <1>d
  <1> HIDE DEF Goal
  <1> SUFFICES Goal
    BY DEF Goal
  <1>2. CASE Sweep(p)
    <2>1. PICK kept \in SUBSET retired :
             /\ keyring' = [l \in Label |-> IF l \in retired \ kept THEN 0 ELSE keyring[l]]
             /\ retired' = kept
      BY <1>2 DEF Sweep, Swept
    <2>2. QED
      BY <1>0, <2>1 DEF Goal
  <1>3. CASE Commit(p)
    <2>1. retired' = retired \union Replaced(c.kind, c.prev)
      BY <1>3 DEF Commit
    <2>2. Replaced(c.kind, c.prev) \subseteq Label
      BY <1>0 DEF Replaced
    <2>3. QED
      BY <1>a, <2>1, <2>2
  <1>4. CASE Rollback(p)
    <2>1. UNCHANGED retired \/ retired' = retired \union {<<c.kind, c.slot>>}
      BY <1>4 DEF Rollback
    <2>2. {<<c.kind, c.slot>>} \subseteq Label
      BY <1>0
    <2>3. QED
      BY <1>1, <1>a, <2>1, <2>2 DEF Goal
  <1>5. CASE DropLegacy(p) \/ DropPrevious(p)
    <2>1. \/ UNCHANGED retired
          \/ \E m \in {<<c.kind, 0>>, <<c.kind, c.prev>>} :
                retired' = retired \ {m} /\ keyring' = [keyring EXCEPT ![m] = 0]
      BY <1>5 DEF DropLegacy, DropPrevious
    <2>2. QED
      BY <1>0, <1>1, <1>d, <2>1 DEF Goal
  <1>6. CASE InvalidateSlot(p)
    <2>1. \/ UNCHANGED retired
          \/ /\ retired' = retired \ {<<"refresh", c.prev>>}
             /\ keyring' = [keyring EXCEPT ![<<"refresh", c.prev>>] = 0]
      BY <1>6 DEF InvalidateSlot
    <2>2. QED
      BY <1>0, <1>1, <1>d, <2>1 DEF Goal
  <1>7. CASE InvalidateClear(p) \/ LogoutClear(p)
    <2>1. \/ UNCHANGED retired
          \/ retired' = retired \union {<<"refresh", c.prev>>}
      BY <1>7 DEF InvalidateClear, LogoutClear, Cleared
    <2>2. {<<"refresh", c.prev>>} \subseteq Label
      BY <1>0
    <2>3. QED
      BY <1>1, <1>a, <2>1, <2>2 DEF Goal
  <1>8. CASE UNCHANGED retired
    BY <1>1, <1>8 DEF Goal
  <1>9. QED
    BY <1>2, <1>3, <1>4, <1>5, <1>6, <1>7, <1>8
       DEF Acts, Start, Step, StartRefresh, StartLogin, StartLogout, Claim, Contended, store,
           LoadCredential, ExchangeRefresh, ExchangeRejected, ExchangeCode, Gate, CurrentRecord,
           Adopt, Recheck, PostRefused, PostRegistration, LoadExisting, SetSlot,
           ReadClientFence, CommitRejected, UnmarkCommitted, InvalidateLoad, Mark,
           InvalidateLegacy, InvalidateUnmark, LogoutRead, LogoutSlot, LogoutLegacy, LogoutUnmark,
           Release, Consent, Fails, Crash, ExchangeLost, ScopeMismatch

LEMMA LeakedStep ==
    ASSUME NEW p \in Proc, Acts(p)
    PROVE  leaked \subseteq leaked'
  <1>1. CASE Rollback(p) \/ Crash(p)
    BY <1>1 DEF Rollback, Crash
  <1>2. CASE UNCHANGED leaked
    BY <1>2
  <1>3. QED
    BY <1>1, <1>2
       DEF Acts, Start, Step, StartRefresh, StartLogin, StartLogout, Claim, Contended, history,
           LoadCredential, ExchangeRefresh, ExchangeRejected, ExchangeCode, Gate, CurrentRecord,
           Adopt, Recheck, PostRefused, PostRegistration, LoadExisting, SetSlot, Sweep, Commit,
           ReadClientFence, CommitRejected, UnmarkCommitted, DropLegacy, DropPrevious,
           InvalidateLoad, Mark, InvalidateClear, InvalidateSlot, InvalidateLegacy,
           InvalidateUnmark, LogoutRead, LogoutSlot, LogoutClear, LogoutLegacy, LogoutUnmark,
           Release, Consent, Fails, ExchangeLost, ScopeMismatch

\* A fence that moves leaves its slot recorded, or empty.
LEMMA ReplacedRecorded ==
    ASSUME Shape, Private, HolderView, NEW p \in Proc, Acts(p), NEW k \in Kind,
           fence[k].slot # 0, fence'[k].slot # fence[k].slot
    PROVE  <<k, fence[k].slot>> \in retired' \/ keyring'[<<k, fence[k].slot>>] = 0
  <1> DEFINE c == call[p]
             n == fence[k].slot
  <1>0. c \in CallType /\ Local(c) /\ n \in 0..MaxSlot /\ n # 0 /\ c.kind \in Kind
    BY LiveTypes DEF Shape, Private, CallType
  <1>1. View(c, fence, keyring, expired) /\ (Commit(p) \/ InvalidateClear(p) \/ LogoutClear(p))
        /\ Holds(p)
    BY FenceStep DEF HolderView
  <1>2. CASE Commit(p)
    <2>1. c.at = "commit" /\ k = c.kind
      BY <1>2, CommitEnds, FenceForms DEF InvalidateClear, LogoutClear, At
    <2>2. c.prev = n
      BY <1>0, <1>1, <2>1 DEF View, Granting, Kind
    <2>3. retired' = retired \union Replaced(c.kind, c.prev)
      BY <1>2 DEF Commit
    <2>4. QED
      BY <1>0, <2>1, <2>2, <2>3 DEF Replaced
  <1>3. CASE InvalidateClear(p)
    <2>1. /\ c.at = "invClear"
          /\ fence' = [fence EXCEPT !["refresh"] = [gen |-> 0, slot |-> 0]]
          /\ retired' = IF c.prev = 0 THEN retired ELSE retired \union {<<"refresh", c.prev>>}
      BY <1>1, <1>3 DEF InvalidateClear, Cleared, At
    <2>2. k = "refresh"
      BY <2>1 DEF Shape, FenceType
    <2>3. c.prev = n
      BY <1>1, <2>1, <2>2 DEF View
    <2>4. QED
      BY <1>0, <2>1, <2>2, <2>3
  <1>4. CASE LogoutClear(p)
    <2>1. /\ c.at \in {"outClearGrant", "outClearClient"}
          /\ fence' = [fence EXCEPT ![c.kind] = [gen |-> 0, slot |-> 0]]
          /\ keyring' = keyring
      BY <1>1, <1>4 DEF LogoutClear, Cleared, At
    <2>2. k = c.kind
      BY <2>1 DEF Shape, FenceType
    <2>3. keyring[<<k, n>>] = 0
      BY <1>0, <1>1, <2>1, <2>2 DEF View, Local
    <2>4. QED
      BY <2>1, <2>3
  <1>5. QED
    BY <1>1, <1>2, <1>3, <1>4

\* A slot leaves a call's hands committed, empty, recorded, or leaked.
LEMMA SlotReferred ==
    ASSUME Shape, Private, NEW p \in Proc, Acts(p), call[p].slot # 0
    PROVE  LET l == <<call[p].kind, call[p].slot>> IN
           \/ fence'[call[p].kind].slot = call[p].slot
           \/ l \in retired' \union leaked' \/ keyring'[l] = 0
           \/ l = <<call'[p].kind, call'[p].slot>>
  <1> DEFINE c == call[p]
             l == <<c.kind, c.slot>>
  <1>0. c \in CallType /\ c.kind \in Kind /\ c.slot \in 0..MaxSlot /\ l \in Label
        /\ keyring \in [Label -> Nat] /\ fence \in FenceType
    BY DEF Shape, CallType, Label
  <1>1. CASE Commit(p)
    <2>1. fence' = [fence EXCEPT ![c.kind] = [gen |-> c.fgen, slot |-> c.slot]]
      BY <1>1 DEF Commit
    <2>2. fence'[c.kind].slot = c.slot
      BY <1>0, <2>1 DEF FenceType
    <2>3. QED
      BY <2>2
  <1>2. CASE Rollback(p)
    <2>1. \/ keyring' = [keyring EXCEPT ![l] = 0]
          \/ retired' = retired \union {l}
          \/ leaked' = leaked \union {l}
      BY <1>2 DEF Rollback
    <2>2. QED
      BY <1>0, <2>1
  <1>3. CASE Crash(p)
    <2>1. /\ leaked' = leaked \union {m \in {l} : m[2] # 0 /\ keyring[m] # 0}
          /\ keyring' = keyring
      BY <1>3 DEF Crash
    <2>2. QED
      BY <1>0, <2>1
  <1>4. QED
    BY <1>1, <1>2, <1>3, SlotStep

LEMMA StrandedStep ==
    ASSUME Shape, Private, HolderView, NothingStranded, [Next]_vars
    PROVE  NothingStranded'
  <1>1. ASSUME NEW p \in Proc, Acts(p), NEW k \in Kind, NEW n \in 0..MaxSlot, n # 0,
               keyring'[<<k, n>>] # 0
        PROVE  \/ fence'[k].slot = n
               \/ <<k, n>> \in retired' \union leaked'
               \/ \E q \in Proc : <<k, n>> = <<call'[q].kind, call'[q].slot>>
    <2>0. <<k, n>> \in Label /\ Only(p) /\ keyring \in [Label -> Nat]
      BY <1>1, OwnCall DEF Label, Shape
    <2>1. CASE keyring[<<k, n>>] = 0
      <3>1. Written
        BY <1>1, <2>1, KeyStep DEF Erased
      <3>2. PICK q \in Proc, m \in 1..MaxSlot :
               /\ keyring' = [keyring EXCEPT ![<<call[q].kind, m>>] = Secret(q)]
               /\ call'[q].slot = m /\ call'[q].kind = call[q].kind
        BY <3>1 DEF Written
      <3>3. <<k, n>> = <<call[q].kind, m>>
        BY <1>1, <2>0, <2>1, <3>2
      <3>4. QED
        BY <3>2, <3>3
    <2>2. CASE keyring[<<k, n>>] # 0
      <3>1. \/ fence[k].slot = n
            \/ <<k, n>> \in retired \union leaked
            \/ \E q \in Proc : <<k, n>> = <<call[q].kind, call[q].slot>>
        BY <1>1, <2>0, <2>2 DEF NothingStranded
      <3>2. CASE fence[k].slot = n
        BY <1>1, <3>2, ReplacedRecorded
      <3>3. CASE <<k, n>> \in retired
        BY <1>1, <3>3, RetiredStep
      <3>4. CASE <<k, n>> \in leaked
        BY <1>1, <3>4, LeakedStep
      <3>5. ASSUME NEW q \in Proc, q # p, <<k, n>> = <<call[q].kind, call[q].slot>>
            PROVE  <<k, n>> = <<call'[q].kind, call'[q].slot>>
        BY <2>0, <3>5 DEF Only
      <3>6. CASE <<k, n>> = <<call[p].kind, call[p].slot>>
        <4>1. k = call[p].kind /\ n = call[p].slot
          BY <3>6
        <4>2. QED
          BY <1>1, <4>1, SlotReferred
      <3>7. QED
        BY <3>1, <3>2, <3>3, <3>4, <3>5, <3>6
    <2>3. QED
      BY <2>1, <2>2
  <1>2. ASSUME NEW p \in Proc, Acts(p)
        PROVE  NothingStranded'
    <2>1. SUFFICES ASSUME NEW l \in Label, l[2] # 0, keyring'[l] # 0
                   PROVE  \/ fence'[l[1]].slot = l[2]
                          \/ l \in retired' \union leaked'
                          \/ \E q \in Proc : l = <<call'[q].kind, call'[q].slot>>
      BY DEF NothingStranded
    <2>2. l[1] \in Kind /\ l[2] \in 0..MaxSlot /\ l = <<l[1], l[2]>>
      BY DEF Label
    <2>3. keyring'[<<l[1], l[2]>>] # 0
      BY <2>1, <2>2
    <2>4. QED
      BY <1>1, <1>2, <2>1, <2>2, <2>3
  <1>3. CASE UNCHANGED <<call, fence, retired, keyring, leaked>>
    BY <1>3 DEF NothingStranded
  <1>4. QED
    BY <1>2, <1>3, NextForms DEF vars, store, history

-----------------------------------------------------------------------------
(* The shape of the state.                                                 *)

LEMMA KeyBounds ==
    ASSUME Shape, Private, [Next]_vars, NEW n \in 0..MaxSlot
    PROVE  keyring'[<<"refresh", n>>] <= MaxGrant /\ keyring'[<<"client", n>>] <= MaxClient
  <1>0. /\ "refresh" \in Kind /\ "client" \in Kind
        /\ keyring[<<"refresh", n>>] <= MaxGrant /\ keyring[<<"client", n>>] <= MaxClient
    BY DEF Shape, Kind
  <1>1. CASE Erased
    BY <1>0, <1>1, Bounds DEF Erased
  <1>2. CASE Written
    <2>1. PICK p \in Proc, m \in 1..MaxSlot :
             /\ call[p].kind \in Kind
             /\ keyring' = [keyring EXCEPT ![<<call[p].kind, m>>] = Secret(p)]
      BY <1>2 DEF Written
    <2>2. call[p].rec \in 0..MaxClient /\ call[p].tok \in 0..MaxGrant
      BY DEF Shape, CallType
    <2>3. <<"refresh", n>> \in Label /\ <<"client", n>> \in Label /\ keyring \in [Label -> Nat]
      BY <1>0 DEF Label, Shape
    <2>4. CASE call[p].kind = "client"
      BY <1>0, <2>1, <2>2, <2>3, <2>4, Bounds DEF Secret
    <2>5. CASE call[p].kind = "refresh"
      BY <1>0, <2>1, <2>2, <2>3, <2>5, Bounds DEF Secret
    <2>6. QED
      BY <2>1, <2>4, <2>5 DEF Kind
  <1>3. QED
    BY <1>1, <1>2, KeyStep

LEMMA ActsFlags ==
    ASSUME Shape, NEW p \in Proc, Acts(p)
    PROVE  /\ marker' \in BOOLEAN /\ stalled' = stalled /\ adopted' \in BOOLEAN
           /\ adopted => adopted'
           /\ marker /\ ~marker' => UnmarkCommitted(p) \/ InvalidateUnmark(p) \/ LogoutUnmark(p)
  <1>1. CASE \/ Commit(p) \/ UnmarkCommitted(p) \/ Mark(p) \/ InvalidateUnmark(p)
             \/ LogoutUnmark(p)
    BY <1>1 DEF Shape, Commit, UnmarkCommitted, Mark, Marked, InvalidateUnmark, LogoutUnmark,
                history
  <1>2. CASE UNCHANGED <<marker, stalled, adopted>>
    BY <1>2 DEF Shape
  <1>3. QED
    BY <1>1, <1>2
       DEF Acts, Start, Step, StartRefresh, StartLogin, StartLogout, Claim, Contended, history,
           store, LoadCredential, ExchangeRefresh, ExchangeRejected, ExchangeCode, Gate,
           CurrentRecord, Adopt, Recheck, PostRefused, PostRegistration, LoadExisting, SetSlot,
           Sweep, ReadClientFence, CommitRejected, Rollback, DropLegacy, DropPrevious,
           InvalidateLoad, InvalidateClear, InvalidateSlot, InvalidateLegacy, LogoutRead,
           LogoutSlot, LogoutClear, LogoutLegacy, Release, Consent, Fails, Crash, ExchangeLost,
           ScopeMismatch

LEMMA FlagStep ==
    ASSUME Shape, [Next]_vars
    PROVE  /\ marker' \in BOOLEAN /\ stalled' \in BOOLEAN /\ adopted' \in BOOLEAN
           /\ (stalled => stalled') /\ (adopted => adopted')
  <1>1. CASE Environs
    BY <1>1 DEF Environs, Lapse, Stall, Expire, Revoke, store, history, Shape
  <1>2. CASE UNCHANGED <<marker, stalled, adopted>>
    BY <1>2 DEF Shape
  <1>3. QED
    BY <1>1, <1>2, ActsFlags, NextForms DEF vars, store, history, Shape

LEMMA FaultStep ==
    ASSUME Shape, [Next]_vars
    PROVE  faults' \in Nat /\ (faults' = faults \/ faults' = faults + 1)
  <1> DEFINE Goal == faults' = faults \/ faults' = faults + 1
  <1>1. ASSUME NEW p \in Proc, Acts(p) PROVE Goal
    <2>1. CASE SetSlot(p) \/ Sweep(p) \/ UnmarkCommitted(p) \/ DropLegacy(p) \/ DropPrevious(p)
      BY <2>1 DEF SetSlot, Sweep, UnmarkCommitted, DropLegacy, DropPrevious, MayFault, Fault
    <2>2. CASE CommitRejected(p) \/ InvalidateSlot(p) \/ InvalidateLegacy(p) \/ LogoutUnmark(p)
      BY <2>2 DEF CommitRejected, InvalidateSlot, InvalidateLegacy, LogoutUnmark, MayFault, Fault
    <2>3. CASE Fails(p) \/ Crash(p) \/ ExchangeLost(p) \/ ScopeMismatch(p)
      BY <2>3 DEF Fails, Crash, ExchangeLost, ScopeMismatch, Fault
    <2>4. QED
      BY <1>1, <2>1, <2>2, <2>3
         DEF Acts, Start, Step, StartRefresh, StartLogin, StartLogout, Claim, Contended,
             LoadCredential, ExchangeRefresh, ExchangeRejected, ExchangeCode, Gate, CurrentRecord,
             Adopt, Recheck, PostRefused, PostRegistration, LoadExisting, ReadClientFence, Commit,
             Rollback, InvalidateLoad, Mark, InvalidateClear, InvalidateUnmark, LogoutRead,
             LogoutSlot, LogoutClear, LogoutLegacy, Release, Consent
  <1>2. ASSUME Environs PROVE Goal
    BY <1>2 DEF Environs, Lapse, Stall, Expire, Revoke, Fault
  <1>3. Goal
    BY <1>1, <1>2, NextForms DEF vars
  <1>4. QED
    BY <1>3 DEF Shape

LEMMA ShapeStep ==
    ASSUME Shape, Private, Epochs, [Next]_vars
    PROVE  Shape' /\ Epochs'
  <1>1. /\ lease' \in LeaseRow(Proc \union {Dead}) /\ Epochs' /\ fence' \in FenceType
        /\ retired' \subseteq Label
    <2>1. ASSUME NEW p \in Proc, Acts(p)
          PROVE  /\ lease' \in LeaseRow(Proc \union {Dead}) /\ Epochs' /\ fence' \in FenceType
                 /\ retired' \subseteq Label
      BY <2>1, HolderStep, FenceForms, RetiredStep
    <2>2. CASE (Environs \/ UNCHANGED vars) /\ UNCHANGED <<fence, retired>>
      BY <2>2, EnvironStep DEF Shape
    <2>3. QED
      BY <2>1, <2>2, NextForms DEF vars, store
  <1>2. call' \in [Proc -> CallType]
    BY CallStep
  <1>3. keyring' \in [Label -> Nat]
    BY KeyStep
  <1>4. \A n \in 0..MaxSlot : /\ keyring'[<<"refresh", n>>] <= MaxGrant
                              /\ keyring'[<<"client", n>>] <= MaxClient
    BY KeyBounds
  <1>5. grants' \in [1..MaxGrant -> 0..MaxClient] /\ expired' \subseteq 1..MaxClient
    BY GrantStep, ExpiredStep
  <1>6. faults' \in Nat /\ marker' \in BOOLEAN /\ stalled' \in BOOLEAN /\ adopted' \in BOOLEAN
    BY FaultStep, FlagStep
  <1>7. QED
    BY <1>1, <1>2, <1>3, <1>4, <1>5, <1>6 DEF Shape

-----------------------------------------------------------------------------
(* The part of the invariant that holds whatever stalls or fails.          *)

LEMMA CoreInit == Init => Core
  <1> SUFFICES ASSUME Init PROVE Core
    OBVIOUS
  <1>1. PICK legacy \in {0, 1} :
           /\ keyring = [l \in Label |-> IF l[2] = 0 THEN legacy ELSE 0]
           /\ grants = [g \in 1..MaxGrant |-> IF g = 1 THEN legacy ELSE 0]
    BY DEF Init
  <1>2. /\ lease = NoLease /\ fence = [k \in Kind |-> [gen |-> 0, slot |-> 0]] /\ retired = {}
        /\ marker = FALSE /\ expired = {} /\ call = [p \in Proc |-> NoCall] /\ faults = 0
        /\ stalled = FALSE /\ leaked = {} /\ adopted = FALSE
    BY DEF Init
  <1>3. legacy \in 0..MaxClient /\ legacy \in 0..MaxGrant
    BY <1>1, Bounds
  <1>4. \A k \in Kind, n \in 0..MaxSlot :
           <<k, n>> \in Label /\ keyring[<<k, n>>] = IF n = 0 THEN legacy ELSE 0
    BY <1>1 DEF Label
  <1>5. lease \in LeaseRow(Proc \union {Dead}) /\ lease.owner = NoOwner
    BY <1>2, TTLAssumption DEF NoLease, LeaseRow
  <1>6. call \in [Proc -> CallType] /\ \A p \in Proc : call[p] = NoCall
    BY <1>2, NoCallType
  <1>7. \A p \in Proc : call[p].at = "idle" /\ call[p].slot = 0
    BY <1>6, NoCallFields
  <1>8. Shape
    <2>1. fence \in FenceType
      BY <1>2, Bounds DEF FenceType
    <2>2. keyring \in [Label -> Nat] /\ grants \in [1..MaxGrant -> 0..MaxClient]
      BY <1>1, <1>3, Bounds
    <2>3. \A n \in 0..MaxSlot : /\ keyring[<<"refresh", n>>] <= MaxGrant
                                /\ keyring[<<"client", n>>] <= MaxClient
      <3>1. "refresh" \in Kind /\ "client" \in Kind
        BY DEF Kind
      <3>2. legacy <= MaxGrant /\ legacy <= MaxClient /\ 0 <= MaxGrant /\ 0 <= MaxClient
        BY <1>3, Bounds
      <3>3. QED
        BY <1>4, <3>1, <3>2
    <2>4. QED
      BY <1>2, <1>5, <1>6, <2>1, <2>2, <2>3 DEF Shape
  <1>9. Epochs /\ HolderView /\ OwnSlot
    BY <1>5, <1>7, Bounds DEF Epochs, HolderView, OwnSlot, Holds, HoldsEpoch, Live
  <1>10. Private
    BY <1>7 DEF Private, Local, Mine
  <1>11. NothingStranded
    BY <1>1 DEF NothingStranded
  <1>12. QED
    BY <1>8, <1>9, <1>10, <1>11 DEF Core

LEMMA CoreNext == Core /\ [Next]_vars => Core'
  <1> SUFFICES ASSUME Core, [Next]_vars PROVE Core'
    OBVIOUS
  <1> USE DEF Core
  <1>1. Shape' /\ Epochs'
    BY ShapeStep
  <1>2. Private'
    BY PrivateStep
  <1>3. HolderView'
    BY ViewStep
  <1>4. OwnSlot' /\ NothingStranded'
    BY OwnSlotStep, StrandedStep
  <1>5. QED
    BY <1>1, <1>2, <1>3, <1>4

-----------------------------------------------------------------------------
(* The client a call presents.                                             *)

LEMMA KnownStep ==
    ASSUME Shape, Private, NEW p \in Proc, Known(call[p]), Acts(p)
    PROVE  Known(call'[p])
  <1> DEFINE c == call[p]
             d == call'[p]
             K == Known(d)
  <1>0. c \in CallType /\ Local(c) /\ Known(c) /\ c.rec \in 0..MaxClient
    BY DEF Shape, Private, CallType
  <1>n. /\ NoCall \in CallType /\ NoCall.at = "idle" /\ NoCall.next = "idle" /\ NoCall.rec = 0
    BY NoCallType, NoCallFields
  <1>e. ASSUME d.next = "idle", d.at \in {"idle", "release", "outGrant"} PROVE K
    BY <1>e DEF Known
  <1>f. ASSUME Fail(p) PROVE K
    BY <1>f, <1>e, FailFacts DEF Blank
  <1>r. ASSUME d.rec # 0 PROVE K
    BY <1>r DEF Known
  <1>k. ASSUME d.rec = c.rec, d.next = c.next,
               d.at \notin {"load", "exchange", "gate", "record", "adopt", "existing", "invLoad",
                            "invMark", "invClear", "invSlot", "invLegacy", "invUnmark", "set",
                            "sweep", "read", "commit", "consent", "claim"}
        PROVE  K
    BY <1>0, <1>k DEF Known
  <1>m. ASSUME NEW l \in Location, Goto(p, l) PROVE Moved(c, d, l)
    BY <1>m, GotoFacts
  <1>s. ASSUME StoreClient(p), c.rec # 0 PROVE K
    BY <1>s, <1>r, StoreClientFacts
  <1> HIDE DEF K
  <1> SUFFICES K
    BY DEF K
  <1>g. ASSUME NEW l \in Location, Goto(p, l), c.rec # 0 PROVE K
    BY <1>g, <1>m, <1>r DEF Moved
  <1>h. ASSUME NEW l \in {"post", "rollback", "release", "dropLegacy", "dropPrevious", "outMark",
                          "outClearGrant", "outClient", "outClearClient", "outLegacyClient",
                          "outLegacyGrant", "outUnmark", "outSweep"}, Goto(p, l)
        PROVE  K
    <2>1. l \in Location
      BY <1>h DEF Location
    <2>2. Moved(c, d, l)
      BY <1>h, <1>m, <2>1
    <2>3. QED
      BY <1>h, <1>k, <2>2 DEF Moved
  <1>1. CASE StartRefresh(p) \/ StartLogin(p)
    <2> DEFINE r == RegisteredClient
    <2>1. CASE StartRefresh(p)
      <3>1. r # 0 /\ d = [NoCall EXCEPT !.op = "refresh", !.at = "claim", !.rec = r]
        BY <2>1, StartFacts DEF StartRefresh
      <3> HIDE DEF r
      <3>2. d.rec # 0
        BY <1>n, <3>1 DEF CallType
      <3>3. QED
        BY <1>r, <3>2
    <2>2. CASE StartLogin(p)
      <3> DEFINE l == IF r = 0 THEN "claim" ELSE "consent"
      <3>1. d = [NoCall EXCEPT !.op = "register", !.rec = r, !.at = l]
        BY <2>2, StartFacts
      <3>2. r # 0 \/ l = "claim"
        OBVIOUS
      <3> HIDE DEF l, r
      <3>3. d.op = "register" /\ d.at = l /\ d.rec = r /\ d.next = "idle"
        BY <1>n, <3>1 DEF CallType
      <3>4. CASE r # 0
        BY <1>r, <3>3, <3>4
      <3>5. CASE l = "claim"
        BY <3>3, <3>5 DEF K, Known
      <3>6. QED
        BY <3>2, <3>4, <3>5
    <2>3. QED
      BY <1>1, <2>1, <2>2
  <1>2. CASE StartLogout(p)
    <2>1. lease'.gen \in Nat
      BY <1>2, LeaseTypes DEF StartLogout, Shape
    <2>2. d = [NoCall EXCEPT !.op = "logout", !.at = "outGrant", !.gen = lease'.gen]
      BY <1>2, <2>1, StartFacts
    <2>3. d.at = "outGrant" /\ d.next = "idle"
      BY <1>n, <2>2 DEF CallType
    <2>4. QED
      BY <1>e, <2>3
  <1>3. CASE Claim(p)
    <2>1. c.at = "claim" /\ lease'.gen \in Nat
      BY <1>3, LeaseTypes DEF Claim, At, Shape
    <2>2. c.op \in {"refresh", "register", "complete"}
      BY <1>0, <2>1 DEF Local
    <2> DEFINE l == FirstStep(c.op)
    <2>3. /\ d = [c EXCEPT !.at = l, !.gen = lease'.gen]
          /\ c.op = "register" => l = "recheck"
      BY <1>3, <2>1, <2>2, ClaimFacts
    <2> HIDE DEF l
    <2>4. d.at = l /\ d.rec = c.rec /\ d.next = c.next
      BY <1>0, <2>3 DEF CallType
    <2>5. CASE c.op = "register"
      BY <1>k, <2>3, <2>4, <2>5
    <2>6. CASE c.op # "register"
      BY <1>0, <1>r, <2>1, <2>4, <2>6 DEF Known
    <2>7. QED
      BY <2>5, <2>6
  <1>4. CASE Contended(p) \/ Crash(p)
    <2>1. d.at = "idle" /\ d.next = "idle"
      BY <1>4, EndFacts DEF Contended, Crash, Blank
    <2>2. QED
      BY <1>e, <2>1
  <1>5. CASE Release(p)
    <2>1. call \in [Proc -> CallType] /\ c.next \in {"idle", "consent"}
      BY <1>0 DEF Shape, CallType
    <2>2. CASE c.next = "idle"
      <3>1. call' = [call EXCEPT ![p] = NoCall]
        BY <1>5, <2>1, <2>2 DEF Release
      <3>2. d.at = "idle" /\ d.next = "idle"
        BY <3>1, EndFacts DEF Blank
      <3>3. QED
        BY <1>e, <3>2
    <2>3. CASE c.next # "idle"
      <3>1. d = NoCall \/ d = [NoCall EXCEPT !.op = "register", !.at = "consent", !.rec = c.rec]
        BY <1>5, ReleaseFacts
      <3>2. c.rec # 0
        BY <1>0, <2>1, <2>3 DEF Known
      <3>3. (d.at = "idle" /\ d.next = "idle") \/ d.rec # 0
        BY <1>n, <3>1, <3>2 DEF CallType
      <3>4. QED
        BY <1>e, <1>r, <3>3
    <2>4. QED
      BY <2>2, <2>3
  <1>6. CASE Consent(p)
    <2>1. c.at = "consent"
      BY <1>6 DEF Consent, At
    <2>2. d = NoCall \/ d = [c EXCEPT !.op = "complete", !.at = "claim"]
      BY <1>6, ConsentFacts
    <2>3. (d.at = "idle" /\ d.next = "idle") \/ d.rec = c.rec
      BY <1>0, <1>n, <2>2 DEF CallType
    <2>4. QED
      BY <1>0, <1>e, <1>r, <2>1, <2>3 DEF Known
  <1>7. CASE LoadCredential(p)
    <2>1. c.at = "load" /\ (LiveGrant = 0 => Fail(p))
      BY <1>7 DEF LoadCredential, At
    <2>2. CASE LiveGrant # 0
      <3>1. d.rec = c.rec
        BY <1>0, <1>7, <2>2, LoadFields
      <3>2. QED
        BY <1>0, <1>r, <2>1, <3>1 DEF Known
    <2>3. QED
      BY <1>f, <2>1, <2>2
  <1>8. CASE ExchangeRefresh(p) \/ ExchangeCode(p)
    <2>1. c.at = "exchange"
      BY <1>8 DEF ExchangeRefresh, ExchangeCode, At
    <2>2. Fail(p) \/ \E g \in 1..MaxGrant : call' = [call EXCEPT ![p].at = "gate", ![p].tok = g]
      BY <1>8 DEF ExchangeRefresh, ExchangeCode
    <2>3. ASSUME NEW g \in 1..MaxGrant, call' = [call EXCEPT ![p].at = "gate", ![p].tok = g]
          PROVE  K
      <3>1. d = [c EXCEPT !.at = "gate", !.tok = g]
        BY <2>3, ExchangedFacts
      <3>2. d.rec = c.rec
        BY <1>0, <3>1 DEF CallType
      <3>3. QED
        BY <1>0, <1>r, <2>1, <3>2 DEF Known
    <2>4. QED
      BY <1>f, <2>2, <2>3
  <1>9. CASE \/ ExchangeRejected(p) \/ ExchangeLost(p) \/ ScopeMismatch(p) \/ PostRefused(p)
             \/ Fails(p) \/ Gate(p) \/ CurrentRecord(p) \/ LoadExisting(p)
    <2>1. \/ Fail(p)
          \/ /\ c.at \in {"exchange", "gate", "record", "existing"}
             /\ \/ StoreClient(p)
                \/ \E l \in {"invLoad", "set", "adopt", "exchange"} : Goto(p, l)
      BY <1>9 DEF ExchangeRejected, ExchangeLost, ScopeMismatch, PostRefused, Fails, Gate,
                  CurrentRecord, LoadExisting, At
    <2>2. {"invLoad", "set", "adopt", "exchange"} \subseteq Location
      BY DEF Location
    <2>3. c.at \in {"exchange", "gate", "record", "existing"} => c.rec # 0
      BY <1>0 DEF Known
    <2>4. QED
      BY <1>f, <1>g, <1>s, <2>1, <2>2, <2>3
  <1>10. CASE Adopt(p)
    <2>1. c.at = "adopt" /\ (~SameRecord(p) \/ SlotMissing("refresh") => Fail(p))
      BY <1>10 DEF Adopt, At
    <2>2. CASE SameRecord(p) /\ ~SlotMissing("refresh")
      <3>1. d = [c EXCEPT !.at = "set", !.fgen = fence["refresh"].gen + 1,
                          !.prev = fence["refresh"].slot]
        BY <1>10, <2>2, AdoptFacts
      <3>2. d.rec = c.rec
        BY <1>0, <3>1 DEF CallType
      <3>3. QED
        BY <1>0, <1>r, <2>1, <3>2 DEF Known
    <2>3. QED
      BY <1>f, <2>1, <2>2
  <1>11. CASE Recheck(p)
    <2>1. CASE ~SlotMissing("client") /\ RegisteredClient # 0
      <3> DEFINE r == RegisteredClient
      <3>1. r # 0 /\ d = [c EXCEPT !.at = "release", !.rec = r, !.next = "consent"]
        BY <1>11, <2>1, RecheckFacts
      <3> HIDE DEF r
      <3>2. d.rec # 0
        BY <1>0, <3>1 DEF CallType
      <3>3. QED
        BY <1>r, <3>2
    <2>2. QED
      BY <1>f, <1>h, <1>11, <2>1 DEF Recheck
  <1>12. CASE PostRegistration(p)
    <2>1. PICK k \in 1..MaxClient : call' = [call EXCEPT ![p].at = "existing", ![p].rec = k]
      BY <1>12 DEF PostRegistration
    <2>2. d = [c EXCEPT !.at = "existing", !.rec = k]
      BY <2>1, PostFacts
    <2>3. d.rec = k /\ k # 0
      BY <1>0, <2>2 DEF CallType
    <2>4. QED
      BY <1>r, <2>3
  <1>13. CASE SetSlot(p)
    <2>1. c.at = "set"
      BY <1>13 DEF SetSlot, At
    <2>2. PICK n \in 1..MaxSlot, l \in {"rollback", "read", "sweep"} :
             /\ call' \in [Proc -> CallType] /\ Only(p)
             /\ call'[p] = [call[p] EXCEPT !.slot = n, !.at = l]
             /\ FreshSlot(call[p].kind, n)
             /\ l = "read" => call[p].kind = "client"
             /\ l = "sweep" => call[p].kind = "refresh"
             /\ l = "rollback" => Fault
             /\ l # "rollback" => UNCHANGED faults /\
                    keyring' = [keyring EXCEPT ![<<call[p].kind, n>>] = Secret(p)]
             /\ \/ keyring' = keyring
                \/ keyring' = [keyring EXCEPT ![<<call[p].kind, n>>] = Secret(p)]
      BY <1>13, SetFacts
    <2>3. d.rec = c.rec
      BY <1>0, <2>2 DEF CallType
    <2>4. QED
      BY <1>0, <1>r, <2>1, <2>3 DEF Known
  <1>14. CASE ReadClientFence(p)
    <2>1. c.at = "read"
      BY <1>14 DEF ReadClientFence, At
    <2>2. d.rec = c.rec
      BY <1>0, <1>14, ReadFields
    <2>3. QED
      BY <1>0, <1>r, <2>1, <2>2 DEF Known
  <1>15. CASE Commit(p)
    <2>1. c.at = "commit"
      BY <1>15 DEF Commit, At
    <2>2. PICK l \in {"dropLegacy", "unmark"}, nx \in {"idle", "consent"}, pr \in 0..MaxSlot :
             /\ call' \in [Proc -> CallType] /\ Only(p)
             /\ d = [c EXCEPT !.at = l, !.next = nx, !.prev = pr, !.slot = 0, !.tok = 0,
                              !.fgen = 0]
             /\ l = "dropLegacy" <=> c.kind = "client"
      BY <1>15, CommitFacts
    <2>3. d.rec = c.rec
      BY <1>0, <2>2 DEF CallType
    <2>4. QED
      BY <1>0, <1>r, <2>1, <2>3 DEF Known
  <1>16. CASE InvalidateLoad(p)
    <2>1. c.at = "invLoad" /\ (SlotMissing("refresh") => Fail(p))
      BY <1>16 DEF InvalidateLoad, At
    <2>2. CASE ~SlotMissing("refresh")
      <3>1. d = [c EXCEPT !.at = "invMark", !.tok = 0, !.fgen = 0, !.prev = fence["refresh"].slot]
        BY <1>16, <2>2, InvalidateLoadFacts
      <3>2. d.rec = c.rec
        BY <1>0, <3>1 DEF CallType
      <3>3. QED
        BY <1>0, <1>r, <2>1, <3>2 DEF Known
    <2>3. QED
      BY <1>f, <2>1, <2>2
  <1>17. CASE LogoutRead(p)
    <2>1. \/ d = [c EXCEPT !.at = "outGrantSlot", !.kind = "refresh",
                           !.prev = fence["refresh"].slot]
          \/ d = [c EXCEPT !.at = "outClientSlot", !.kind = "client",
                           !.prev = fence["client"].slot]
      BY <1>17, LogoutReadFacts
    <2>2. d.at \in {"outGrantSlot", "outClientSlot"} /\ d.rec = c.rec /\ d.next = c.next
      BY <1>0, <2>1 DEF CallType
    <2>3. QED
      BY <1>k, <2>2
  <1>18. CASE \/ Mark(p) \/ InvalidateClear(p) \/ InvalidateSlot(p) \/ InvalidateLegacy(p)
              \/ InvalidateUnmark(p)
    <2>1. \/ Fail(p) \/ Goto(p, "outClearGrant")
          \/ /\ c.at \in {"invMark", "invClear", "invSlot", "invLegacy", "invUnmark"}
             /\ \/ StoreClient(p)
                \/ \E l \in {"invClear", "invSlot", "invLegacy", "invUnmark", "release"} : Goto(p, l)
      BY <1>18 DEF Mark, InvalidateClear, InvalidateSlot, InvalidateLegacy, InvalidateUnmark,
                   Invalidated, At
    <2>2. {"invClear", "invSlot", "invLegacy", "invUnmark", "release"} \subseteq Location
      BY DEF Location
    <2>3. c.at \in {"invMark", "invClear", "invSlot", "invLegacy", "invUnmark"} => c.rec # 0
      BY <1>0 DEF Known
    <2>4. QED
      BY <1>f, <1>g, <1>h, <1>s, <2>1, <2>2, <2>3
  <1>19. CASE \/ CommitRejected(p) \/ Rollback(p) \/ UnmarkCommitted(p) \/ DropLegacy(p)
              \/ DropPrevious(p) \/ LogoutSlot(p) \/ LogoutClear(p) \/ LogoutLegacy(p)
              \/ LogoutUnmark(p)
    <2>1. Fail(p) \/ \E l \in {"rollback", "release", "dropLegacy", "dropPrevious", "outMark",
                               "outClient", "outClearClient", "outLegacyClient", "outLegacyGrant",
                               "outUnmark", "outSweep"} : Goto(p, l)
      BY <1>19 DEF CommitRejected, Rollback, UnmarkCommitted, DropLegacy, DropPrevious, LogoutSlot,
                   LogoutClear, LogoutLegacy, LogoutUnmark
    <2>2. QED
      BY <1>f, <1>h, <2>1
  <1>20. CASE Sweep(p)
    <2>1. (c.at = "sweep" /\ Goto(p, "commit")) \/ Goto(p, "release")
      BY <1>20 DEF Sweep, At
    <2>2. "commit" \in Location /\ (c.at = "sweep" => c.rec # 0)
      BY <1>0 DEF Location, Known
    <2>3. QED
      BY <1>g, <1>h, <2>1, <2>2
  <1>21. QED
    BY <1>1, <1>2, <1>3, <1>4, <1>5, <1>6, <1>7, <1>8, <1>9, <1>10, <1>11, <1>12, <1>13, <1>14,
       <1>15, <1>16, <1>17, <1>18, <1>19, <1>20
       DEF Acts, Start, Step

LEMMA ClientKnownStep ==
    ASSUME Shape, Private, ClientKnown, [Next]_vars
    PROVE  ClientKnown'
  <1>1. ASSUME NEW p \in Proc, Acts(p), NEW q \in Proc
        PROVE  Known(call'[q])
    <2>1. CASE q = p
      BY <1>1, <2>1, KnownStep DEF ClientKnown
    <2>2. CASE q # p
      BY <1>1, <2>2, OwnCall DEF Only, ClientKnown
    <2>3. QED
      BY <2>1, <2>2
  <1>2. CASE UNCHANGED call
    BY <1>2 DEF ClientKnown
  <1>3. QED
    BY <1>1, <1>2, NextForms DEF vars, ClientKnown

-----------------------------------------------------------------------------
(* While nobody stalls the holder of the lease is alone.                   *)

LEMMA SerialStep ==
    ASSUME Shape, Private, Serial, [Next]_vars
    PROVE  Serial'
  <1>1. ASSUME NEW p \in Proc, Acts(p), ~stalled', NEW q \in Proc, AtWork(q)'
        PROVE  Live(lease', q)
    <2>0. ~stalled /\ lease \in LeaseRow(Proc \union {Dead}) /\ Only(p)
      BY <1>1, ActsFlags, OwnCall DEF Shape
    <2>1. CASE q = p
      <3>1. \/ StartLogout(p) \/ Claim(p)
            \/ UNCHANGED lease /\ AtWork(p)
        BY <1>1, <2>1, WorkStep
      <3>2. CASE StartLogout(p) \/ Claim(p)
        <4>1. lease' = ClaimLease(lease, p, 0)
          BY <3>2 DEF StartLogout, Claim
        <4>2. QED
          BY <2>0, <2>1, <4>1, LeaseFacts DEF Live
      <3>3. QED
        BY <2>0, <2>1, <3>1, <3>2 DEF Serial
    <2>2. CASE q # p
      <3>1. AtWork(q)
        BY <1>1, <2>0, <2>2 DEF Only, AtWork
      <3>2. lease.owner = q /\ lease.left > 0
        BY <2>0, <3>1 DEF Serial, Live
      <3>3. ~StartLogout(p) /\ ~Claim(p)
        BY <2>0, <2>2, <3>2, Bounds DEF StartLogout, Claim, Claimable, LeaseRow
      <3>4. lease' = lease
        <4>1. CASE Release(p) \/ Crash(p)
          BY <2>2, <3>2, <4>1 DEF Release, Crash, ReleaseLease
        <4>2. QED
          BY <1>1, <3>3, <4>1, WorkStep
      <3>5. QED
        BY <3>2, <3>4 DEF Live
    <2>3. QED
      BY <2>1, <2>2
  <1>2. ASSUME Environs \/ UNCHANGED vars, call' = call, ~stalled', NEW q \in Proc, AtWork(q)'
        PROVE  Live(lease', q)
    <2>1. ~stalled /\ ~Stall
      BY <1>2, FlagStep DEF Stall
    <2>2. Live(lease, q)
      BY <1>2, <2>1 DEF Serial, AtWork
    <2>3. lease' = lease
      BY <1>2, <2>1, <2>2, Bounds DEF Environs, Lapse, Expire, Revoke, vars, Live
    <2>4. QED
      BY <2>2, <2>3
  <1>3. QED
    BY <1>1, <1>2, NextForms DEF Serial, vars

LEMMA Alone ==
    ASSUME Shape, Epochs, Serial, ~stalled, NEW p \in Proc, AtWork(p)
    PROVE  /\ call[p].at # "release" => Holds(p)
           /\ \A q \in Proc : AtWork(q) => q = p
  BY DEF Serial, Epochs, Live, Holds, HoldsEpoch

\* A process at rest touches nothing but its call and the lease.
LEMMA RestStep ==
    ASSUME NEW p \in Proc, Acts(p), ~AtWork(p)
    PROVE  /\ UNCHANGED <<fence, retired, marker, keyring, adopted>>
           /\ Crash(p) \/ UNCHANGED grants
  <1>1. call[p].at \in Resting
    BY DEF AtWork
  <1>2. Start(p) \/ Claim(p) \/ Contended(p) \/ Consent(p) \/ Crash(p)
    BY <1>1
       DEF Acts, Step, LoadCredential, ExchangeRefresh, ExchangeRejected, ExchangeCode, Gate,
           CurrentRecord, Adopt, Recheck, PostRefused, PostRegistration, LoadExisting, SetSlot,
           Sweep, ReadClientFence, Commit, CommitRejected, Rollback, UnmarkCommitted, DropLegacy,
           DropPrevious, InvalidateLoad, Mark, InvalidateClear, InvalidateSlot, InvalidateLegacy,
           InvalidateUnmark, LogoutRead, LogoutSlot, LogoutClear, LogoutLegacy, LogoutUnmark,
           Release, Fails, ExchangeLost, ScopeMismatch, At, Interruptible, Resting
  <1>3. QED
    BY <1>2 DEF Start, StartRefresh, StartLogin, StartLogout, Claim, Contended, Consent, Crash,
                store, upstream, history

\* Unless somebody stalled, a grant becomes readable only by a commit.
LEMMA LiveStep ==
    ASSUME Shape, Private, Epochs, HolderView, Serial, Masked, NEW p \in Proc, Acts(p), ~stalled
    PROVE  LiveGrant' \in {0, LiveGrant} \/ (Commit(p) /\ call[p].kind = "refresh")
  <1> DEFINE c == call[p]
             s == fence["refresh"].slot
  <1>0. /\ c \in CallType /\ Local(c) /\ Mine(c, keyring, grants) /\ s \in 0..MaxSlot
        /\ "refresh" \in Kind /\ [Next]_vars
    BY LiveTypes, ActsNext DEF Shape, Private, Kind
  <1>1. CASE fence'["refresh"] = fence["refresh"]
    <2>1. keyring'[<<"refresh", s>>] \in {0, keyring[<<"refresh", s>>]}
      BY <1>0, KeptLabels
    <2>2. CASE s = 0 /\ marker /\ ~marker'
      <3>1. UnmarkCommitted(p) \/ InvalidateUnmark(p) \/ LogoutUnmark(p)
        BY <2>2, ActsFlags
      <3>2. ~UnmarkCommitted(p)
        <4>1. SUFFICES ASSUME c.at = "unmark" PROVE FALSE
          BY DEF UnmarkCommitted, At
        <4>2. Holds(p)
          BY <4>1, Alone DEF AtWork, Resting
        <4>3. QED
          BY <2>2, <4>1, <4>2 DEF HolderView, View
      <3>3. keyring[<<"refresh", 0>>] = 0
        BY <1>0, <3>1, <3>2 DEF InvalidateUnmark, LogoutUnmark, At, Mine
      <3>4. QED
        BY <1>1, <2>1, <2>2, <3>3 DEF LiveGrant, Committed
    <2>3. CASE ~(s = 0 /\ marker /\ ~marker')
      BY <1>1, <2>1, <2>3 DEF LiveGrant, Committed
    <2>4. QED
      BY <2>2, <2>3
  <1>2. CASE fence'["refresh"] # fence["refresh"] /\ ~(Commit(p) /\ c.kind = "refresh")
    <2>1. fence'["refresh"].slot = 0 /\ (InvalidateClear(p) \/ LogoutClear(p))
      BY <1>0, <1>2, FenceForms
    <2>2. ~At(p, "outClearClient")
      <3>1. SUFFICES ASSUME c.at = "outClearClient" PROVE FALSE
        BY DEF At
      <3>2. c.kind = "client"
        BY <1>0, <3>1 DEF Local
      <3>3. LogoutClear(p)
        BY <2>1, <3>1 DEF InvalidateClear, At
      <3>4. fence' = [fence EXCEPT !["client"] = [gen |-> 0, slot |-> 0]] \/ fence' = fence
        BY <3>2, <3>3 DEF LogoutClear, Cleared
      <3>5. QED
        BY <1>0, <1>2, <3>4 DEF Shape, FenceType
    <2>3. marker
      BY <2>1, <2>2 DEF InvalidateClear, LogoutClear, At, Masked, MaskedAt
    <2>4. marker' = marker
      BY <2>1 DEF InvalidateClear, LogoutClear
    <2>5. QED
      BY <2>1, <2>3, <2>4 DEF LiveGrant
  <1>3. QED
    BY <1>1, <1>2

LEMMA OwnMasked ==
    ASSUME Shape, Private, Epochs, HolderView, Serial, Masked, NEW p \in Proc, Acts(p), ~stalled
    PROVE  /\ call'[p].at \in MaskedAt => marker'
           /\ Registering(call'[p]) => LiveGrant' = 0
  <1> DEFINE c == call[p]
             d == call'[p]
             G == /\ d.at \in MaskedAt => marker'
                  /\ Registering(d) => LiveGrant' = 0
             Watched == {"invClear", "invSlot", "invLegacy", "outClearGrant", "outClient",
                         "outClientSlot", "outClearClient", "outLegacyClient", "outLegacyGrant",
                         "set", "read", "commit"}
  <1>0. /\ c \in CallType /\ Local(c) /\ Mine(c, keyring, grants) /\ c.kind \in Kind
        /\ c.at \in MaskedAt => marker
        /\ Registering(c) => LiveGrant = 0
    BY DEF Shape, Private, Masked, MaskedAt, CallType
  <1>v. AtWork(p) /\ c.at # "release" => View(c, fence, keyring, expired)
    BY Alone DEF HolderView
  <1>q. ASSUME d.at \notin Watched PROVE G
    BY <1>q DEF MaskedAt, Registering
  <1>f. ASSUME Fail(p) PROVE G
    BY <1>f, <1>q, FailFacts
  <1>m. ASSUME NEW l \in Location, Goto(p, l) PROVE Moved(c, d, l)
    BY <1>m, GotoFacts
  <1>k. ASSUME NEW l \in MaskedAt, Goto(p, l), marker' PROVE G
    <2>1. l \in Location /\ l \notin {"set", "read", "commit"}
      BY <1>k DEF MaskedAt, Location
    <2>2. Moved(c, d, l)
      BY <1>k, <1>m, <2>1
    <2>3. QED
      BY <1>k, <2>1, <2>2 DEF Moved, Registering
  <1>g. ASSUME NEW l \in Location \ Watched, Goto(p, l) PROVE G
    <2>1. Moved(c, d, l)
      BY <1>g, <1>m
    <2>2. QED
      BY <1>g, <1>q, <2>1 DEF Moved
  <1>s. ASSUME StoreClient(p), LiveGrant' = 0 PROVE G
    BY <1>s, StoreClientFacts DEF MaskedAt
  <1>l. LiveGrant' \in {0, LiveGrant} \/ (Commit(p) /\ c.kind = "refresh")
    BY LiveStep
  <1> HIDE DEF G
  <1> SUFFICES G
    BY DEF G
  <1>1. CASE Start(p) \/ Claim(p) \/ Contended(p) \/ Crash(p) \/ Release(p) \/ Consent(p)
    BY <1>1, <1>q, EdgeStep
  <1>2. CASE LoadCredential(p)
    <2>1. CASE LiveGrant # 0
      <3>1. d.at = "exchange"
        BY <1>0, <1>2, <2>1, LoadFields
      <3>2. QED
        BY <1>q, <3>1
    <2>2. QED
      BY <1>f, <1>2, <2>1 DEF LoadCredential
  <1>3. CASE ExchangeRefresh(p) \/ ExchangeCode(p)
    <2>1. Fail(p) \/ \E g \in 1..MaxGrant : call' = [call EXCEPT ![p].at = "gate", ![p].tok = g]
      BY <1>3 DEF ExchangeRefresh, ExchangeCode
    <2>2. ASSUME NEW g \in 1..MaxGrant, call' = [call EXCEPT ![p].at = "gate", ![p].tok = g]
          PROVE  G
      <3>1. d = [c EXCEPT !.at = "gate", !.tok = g]
        BY <2>2, ExchangedFacts
      <3>2. d.at = "gate"
        BY <1>0, <3>1 DEF CallType
      <3>3. QED
        BY <1>q, <3>2
    <2>3. QED
      BY <1>f, <2>1, <2>2
  <1>4. CASE Gate(p) \/ Adopt(p)
    <2>1. c.at \in {"gate", "adopt"} /\ c.kind = "refresh"
      BY <1>0, <1>4 DEF Gate, Adopt, At, Local
    <2>2. CASE Gate(p)
      <3>1. Fail(p) \/ Goto(p, "set") \/ Goto(p, "adopt")
        BY <2>2 DEF Gate
      <3>2. "set" \in Location /\ "adopt" \in Location \ Watched
        BY DEF Location
      <3>3. CASE Moved(c, d, "set")
        BY <2>1, <3>3 DEF G, Moved, Registering, MaskedAt
      <3>4. QED
        BY <1>f, <1>g, <1>m, <3>1, <3>2, <3>3
    <2>3. CASE Adopt(p)
      <3>1. CASE SameRecord(p) /\ ~SlotMissing("refresh")
        <4>1. d = [c EXCEPT !.at = "set", !.fgen = fence["refresh"].gen + 1,
                            !.prev = fence["refresh"].slot]
          BY <2>3, <3>1, AdoptFacts
        <4>2. d.at = "set" /\ d.kind = c.kind
          BY <1>0, <4>1 DEF CallType
        <4>3. QED
          BY <2>1, <4>2 DEF G, Registering, MaskedAt
      <3>2. QED
        BY <1>f, <2>3, <3>1 DEF Adopt
    <2>4. QED
      BY <1>4, <2>2, <2>3
  <1>5. CASE Recheck(p)
    <2>1. CASE ~SlotMissing("client") /\ RegisteredClient # 0
      <3>1. d.at = "release"
        BY <1>0, <1>5, <2>1, RecheckFields
      <3>2. QED
        BY <1>q, <3>1
    <2>2. "post" \in Location \ Watched
      BY DEF Location
    <2>3. QED
      BY <1>f, <1>g, <1>5, <2>1, <2>2 DEF Recheck
  <1>6. CASE PostRegistration(p)
    <2>1. PICK k \in 1..MaxClient : call' = [call EXCEPT ![p].at = "existing", ![p].rec = k]
      BY <1>6 DEF PostRegistration
    <2>2. d.at = "existing"
      BY <1>0, <2>1, PostFacts DEF CallType
    <2>3. QED
      BY <1>q, <2>2
  <1>7. CASE LoadExisting(p)
    <2>1. Fail(p) \/ Goto(p, "invLoad") \/ (StoreClient(p) /\ LiveGrant' = 0)
      <3>1. LiveGrant' = LiveGrant
        BY <1>7 DEF LoadExisting, store, LiveGrant, Committed
      <3>2. QED
        BY <1>7, <3>1 DEF LoadExisting
    <2>2. "invLoad" \in Location \ Watched
      BY DEF Location
    <2>3. QED
      BY <1>f, <1>g, <1>s, <2>1, <2>2
  <1>8. CASE SetSlot(p) \/ ReadClientFence(p)
    <2>1. d.at \in {"rollback", "read", "sweep", "commit"} /\ d.kind = c.kind
          /\ c.at \in {"set", "read"} /\ (d.at \in {"read", "commit"} => c.kind = "client")
      <3>1. CASE SetSlot(p)
        <4>1. PICK n \in 1..MaxSlot, l \in {"rollback", "read", "sweep"} :
             /\ call' \in [Proc -> CallType] /\ Only(p)
             /\ call'[p] = [call[p] EXCEPT !.slot = n, !.at = l]
             /\ FreshSlot(call[p].kind, n)
             /\ l = "read" => call[p].kind = "client"
             /\ l = "sweep" => call[p].kind = "refresh"
             /\ l = "rollback" => Fault
             /\ l # "rollback" => UNCHANGED faults /\
                    keyring' = [keyring EXCEPT ![<<call[p].kind, n>>] = Secret(p)]
             /\ \/ keyring' = keyring
                \/ keyring' = [keyring EXCEPT ![<<call[p].kind, n>>] = Secret(p)]
          BY <3>1, SetFacts
        <4>2. d.at = l /\ d.kind = c.kind
          BY <1>0, <4>1 DEF CallType
        <4>3. QED
          BY <3>1, <4>1, <4>2 DEF SetSlot, At
      <3>2. CASE ReadClientFence(p)
        <4>1. c.at = "read" /\ c.kind = "client"
          BY <1>0, <3>2 DEF ReadClientFence, At, Local
        <4>2. d.at = "commit" /\ d.kind = c.kind
          BY <1>0, <3>2, ReadFields
        <4>3. QED
          BY <4>1, <4>2
      <3>3. QED
        BY <1>8, <3>1, <3>2
    <2>2. ~Commit(p)
      BY <2>1 DEF Commit, At
    <2>3. Registering(d) => LiveGrant' = 0
      BY <1>0, <1>l, <2>1, <2>2 DEF Registering
    <2>4. QED
      BY <2>1, <2>3 DEF G, MaskedAt
  <1>9. CASE Commit(p)
    <2>1. PICK l \in {"dropLegacy", "unmark"}, nx \in {"idle", "consent"}, pr \in 0..MaxSlot :
             /\ call' \in [Proc -> CallType] /\ Only(p)
             /\ d = [c EXCEPT !.at = l, !.next = nx, !.prev = pr, !.slot = 0, !.tok = 0,
                              !.fgen = 0]
             /\ l = "dropLegacy" <=> c.kind = "client"
      BY <1>9, CommitFacts
    <2>2. d.at = l
      BY <1>0, <2>1 DEF CallType
    <2>3. QED
      BY <1>q, <2>2
  <1>10. CASE InvalidateLoad(p)
    <2>1. CASE ~SlotMissing("refresh")
      <3>1. d.at = "invMark"
        BY <1>0, <1>10, <2>1, InvalidateLoadFields
      <3>2. QED
        BY <1>q, <3>1
    <2>2. QED
      BY <1>f, <1>10, <2>1 DEF InvalidateLoad
  <1>11. CASE Mark(p)
    <2>1. marker' /\ \E l \in {"invClear", "outClearGrant"} : Goto(p, l)
      BY <1>11 DEF Mark, Marked
    <2>2. QED
      BY <1>k, <2>1 DEF MaskedAt
  <1>12. CASE InvalidateClear(p) \/ InvalidateSlot(p) \/ InvalidateLegacy(p)
    <2>1. c.at \in {"invClear", "invSlot", "invLegacy"} /\ marker' = marker
      BY <1>12 DEF InvalidateClear, InvalidateSlot, InvalidateLegacy, At, store
    <2>2. marker'
      BY <1>0, <2>1 DEF MaskedAt
    <2>3. \/ Fail(p) \/ Goto(p, "invUnmark") \/ Goto(p, "release") \/ Goto(p, "invSlot")
          \/ Goto(p, "invLegacy")
          \/ StoreClient(p) /\ c.at \in {"invSlot", "invLegacy"} /\ fence' = fence
      BY <1>12 DEF InvalidateClear, InvalidateSlot, InvalidateLegacy, Invalidated, At, store
    <2>4. CASE StoreClient(p) /\ c.at \in {"invSlot", "invLegacy"} /\ fence' = fence
      <3>1. fence["refresh"].slot = 0
        BY <1>v, <2>4 DEF AtWork, Resting, View
      <3>2. LiveGrant' = 0
        BY <2>2, <2>4, <3>1 DEF LiveGrant
      <3>3. QED
        BY <1>s, <2>4, <3>2
    <2>5. "invUnmark" \in Location \ Watched /\ "release" \in Location \ Watched
          /\ "invSlot" \in MaskedAt /\ "invLegacy" \in MaskedAt
      BY DEF Location, MaskedAt
    <2>6. QED
      BY <1>f, <1>g, <1>k, <2>2, <2>3, <2>4, <2>5
  <1>13. CASE InvalidateUnmark(p)
    <2>1. c.at = "invUnmark" /\ fence' = fence /\ keyring' = keyring
          /\ (StoreClient(p) \/ Goto(p, "release"))
      BY <1>13 DEF InvalidateUnmark, Invalidated, At
    <2>2. fence["refresh"].slot = 0
      BY <1>v, <2>1 DEF AtWork, Resting, View
    <2>3. keyring[<<"refresh", 0>>] = 0
      BY <1>0, <2>1 DEF Mine
    <2>4. LiveGrant' = 0
      BY <2>1, <2>2, <2>3 DEF LiveGrant, Committed
    <2>5. "release" \in Location \ Watched
      BY DEF Location
    <2>6. QED
      BY <1>g, <1>s, <2>1, <2>4, <2>5
  <1>14. CASE LogoutRead(p)
    <2>1. \/ d = [c EXCEPT !.at = "outGrantSlot", !.kind = "refresh",
                           !.prev = fence["refresh"].slot]
          \/ /\ c.at = "outClient"
             /\ d = [c EXCEPT !.at = "outClientSlot", !.kind = "client",
                              !.prev = fence["client"].slot]
      BY <1>14, LogoutReadFacts DEF At
    <2>2. d.at = "outGrantSlot" \/ (c.at = "outClient" /\ d.at = "outClientSlot")
      BY <1>0, <2>1 DEF CallType
    <2>3. marker' = marker
      BY <1>14 DEF LogoutRead, store
    <2>4. CASE c.at = "outClient" /\ d.at = "outClientSlot"
      BY <1>0, <2>3, <2>4 DEF G, MaskedAt, Registering
    <2>5. QED
      BY <1>q, <2>2, <2>4
  <1>15. CASE LogoutSlot(p) \/ LogoutClear(p) \/ LogoutLegacy(p)
    <2>1. marker' = marker
      BY <1>15 DEF LogoutSlot, LogoutClear, LogoutLegacy, store
    <2>2. \/ Fail(p) \/ Goto(p, "outMark") \/ Goto(p, "outUnmark")
          \/ /\ c.at \in MaskedAt
             /\ \E l \in {"outClearClient", "outClient", "outLegacyClient", "outLegacyGrant"} :
                   Goto(p, l)
      BY <1>15 DEF LogoutSlot, LogoutClear, LogoutLegacy, At, MaskedAt
    <2>3. /\ "outMark" \in Location \ Watched /\ "outUnmark" \in Location \ Watched
          /\ {"outClearClient", "outClient", "outLegacyClient", "outLegacyGrant"} \subseteq MaskedAt
      BY DEF Location, MaskedAt
    <2>4. QED
      BY <1>0, <1>f, <1>g, <1>k, <2>1, <2>2, <2>3
  <1>16. CASE Sweep(p)
    <2>1. (c.at = "sweep" /\ Goto(p, "commit")) \/ Goto(p, "release")
      BY <1>16 DEF Sweep, At
    <2>2. "commit" \in Location /\ "release" \in Location \ Watched
          /\ (c.at = "sweep" => c.kind = "refresh")
      BY <1>0 DEF Location, Local
    <2>3. CASE c.at = "sweep" /\ Moved(c, d, "commit")
      BY <2>2, <2>3 DEF G, Moved, Registering, MaskedAt
    <2>4. QED
      BY <1>g, <1>m, <2>1, <2>2, <2>3
  <1>17. CASE \/ ExchangeRejected(p) \/ ExchangeLost(p) \/ ScopeMismatch(p) \/ PostRefused(p)
              \/ Fails(p) \/ CommitRejected(p) \/ Rollback(p) \/ UnmarkCommitted(p) \/ DropLegacy(p)
              \/ DropPrevious(p) \/ CurrentRecord(p) \/ LogoutUnmark(p)
    <2>1. Fail(p) \/ \E l \in {"invLoad", "rollback", "dropLegacy", "dropPrevious", "release",
                               "exchange", "outSweep"} : Goto(p, l)
      BY <1>17 DEF ExchangeRejected, ExchangeLost, ScopeMismatch, PostRefused, Fails, CommitRejected,
                   Rollback, UnmarkCommitted, DropLegacy, DropPrevious, CurrentRecord, LogoutUnmark
    <2>2. {"invLoad", "rollback", "dropLegacy", "dropPrevious", "release", "exchange", "outSweep"}
             \subseteq Location \ Watched
      BY DEF Location
    <2>3. QED
      BY <1>f, <1>g, <2>1, <2>2
  <1>18. QED
    BY <1>1, <1>2, <1>3, <1>4, <1>5, <1>6, <1>7, <1>8, <1>9, <1>10, <1>11, <1>12, <1>13, <1>14,
       <1>15, <1>16, <1>17
       DEF Acts, Step

LEMMA MaskedStep ==
    ASSUME Shape, Private, Epochs, HolderView, Serial, Masked, [Next]_vars
    PROVE  Masked'
  <1>1. ASSUME NEW p \in Proc, Acts(p), ~stalled', NEW q \in Proc
        PROVE  /\ call'[q].at \in MaskedAt => marker'
               /\ Registering(call'[q]) => LiveGrant' = 0
    <2>0. ~stalled
      BY <1>1, ActsFlags
    <2>1. CASE q = p
      BY <1>1, <2>0, <2>1, OwnMasked
    <2>2. CASE q # p
      <3>1. call'[q] = call[q]
        BY <1>1, <2>2, OwnCall DEF Only
      <3>2. CASE call[q].at \in MaskedAt \/ Registering(call[q])
        <4>1. AtWork(q)
          BY <3>2 DEF AtWork, Resting, MaskedAt, Registering
        <4>2. ~AtWork(p)
          BY <2>0, <2>2, <4>1, Alone
        <4>3. UNCHANGED <<fence, marker, keyring>>
          BY <1>1, <4>2, RestStep
        <4>4. LiveGrant' = LiveGrant
          BY <4>3 DEF LiveGrant, Committed
        <4>5. QED
          BY <2>0, <3>1, <4>3, <4>4 DEF Masked, MaskedAt
      <3>3. QED
        BY <3>1, <3>2
    <2>3. QED
      BY <2>1, <2>2
  <1>2. ASSUME UNCHANGED <<call, fence, marker, keyring>>, ~stalled'
        PROVE  \A q \in Proc : /\ call'[q].at \in MaskedAt => marker'
                               /\ Registering(call'[q]) => LiveGrant' = 0
    <2>1. LiveGrant' = LiveGrant /\ ~stalled
      BY <1>2, FlagStep DEF LiveGrant, Committed
    <2>2. QED
      BY <1>2, <2>1 DEF Masked, MaskedAt
  <1>3. QED
    BY <1>1, <1>2, NextForms DEF Masked, MaskedAt, vars, store

-----------------------------------------------------------------------------
(* The grant on its way and the registered client.                         *)

\* How a call comes to be on its way to commit a grant, and how it goes on.
LEMMA GrantingStep ==
    ASSUME Shape, Private, NEW p \in Proc, Acts(p), Granting(call'[p])
    PROVE  \/ LoadCredential(p) /\ LiveGrant # 0
           \/ ExchangeRefresh(p)
           \/ Adopt(p) /\ SameRecord(p) /\ ~SlotMissing("refresh")
           \/ /\ Gate(p) \/ SetSlot(p) \/ Sweep(p)
              /\ Granting(call[p]) /\ call[p].at # "exchange" /\ call'[p].at # "exchange"
              /\ call'[p].rec = call[p].rec /\ call'[p].op = call[p].op
              /\ call'[p].prev = call[p].prev /\ call'[p].tok = call[p].tok
  <1> DEFINE c == call[p]
             d == call'[p]
             Watched == {"exchange", "gate", "set", "sweep", "commit"}
             G == \/ LoadCredential(p) /\ LiveGrant # 0
                  \/ ExchangeRefresh(p)
                  \/ Adopt(p) /\ SameRecord(p) /\ ~SlotMissing("refresh")
                  \/ /\ Gate(p) \/ SetSlot(p) \/ Sweep(p)
                     /\ Granting(c) /\ c.at # "exchange" /\ d.at # "exchange"
                     /\ d.rec = c.rec /\ d.op = c.op /\ d.prev = c.prev /\ d.tok = c.tok
  <1>0. c \in CallType /\ Local(c) /\ Granting(d)
    BY DEF Shape, Private
  <1>q. ASSUME d.at \notin Watched PROVE FALSE
    BY <1>0, <1>q DEF Granting
  <1>f. ASSUME Fail(p) PROVE FALSE
    BY <1>f, <1>q, FailFacts
  <1>m. ASSUME NEW l \in Location, Goto(p, l) PROVE Moved(c, d, l)
    BY <1>m, GotoFacts
  <1>g. ASSUME NEW l \in Location \ Watched, Goto(p, l) PROVE FALSE
    <2>1. Moved(c, d, l)
      BY <1>g, <1>m
    <2>2. QED
      BY <1>g, <1>q, <2>1 DEF Moved
  <1>s. ASSUME StoreClient(p) PROVE FALSE
    BY <1>0, <1>s, StoreClientFacts DEF Granting
  <1> HIDE DEF G
  <1> SUFFICES G
    BY DEF G
  <1>1. CASE Start(p) \/ Claim(p) \/ Contended(p) \/ Crash(p) \/ Release(p) \/ Consent(p)
    BY <1>1, <1>q, EdgeStep
  <1>2. CASE LoadCredential(p)
    BY <1>2, <1>f DEF LoadCredential, G
  <1>3. CASE ExchangeRefresh(p)
    BY <1>3 DEF G
  <1>4. CASE ExchangeCode(p)
    <2>1. CASE c.rec \notin expired
      <3>1. PICK g \in 1..MaxGrant : call' = [call EXCEPT ![p].at = "gate", ![p].tok = g]
        BY <1>4, <2>1 DEF ExchangeCode
      <3>2. d = [c EXCEPT !.at = "gate", !.tok = g]
        BY <3>1, ExchangedFacts
      <3>3. d.at = "gate" /\ d.op = c.op
        BY <1>0, <3>2 DEF CallType
      <3>4. QED
        BY <1>0, <1>4, <3>3 DEF ExchangeCode, Granting
    <2>2. QED
      BY <1>4, <1>f, <2>1 DEF ExchangeCode
  <1>5. CASE Gate(p)
    <2>1. c.at = "gate" /\ (Fail(p) \/ (Goto(p, "set") /\ c.op = "refresh") \/ Goto(p, "adopt"))
      BY <1>5 DEF Gate, At
    <2>2. "set" \in Location /\ "adopt" \in Location \ Watched
      BY DEF Location
    <2>3. CASE c.op = "refresh" /\ Moved(c, d, "set")
      BY <1>0, <1>5, <2>1, <2>3 DEF Moved, Granting, G
    <2>4. QED
      BY <1>f, <1>g, <1>m, <2>1, <2>2, <2>3
  <1>6. CASE Adopt(p)
    BY <1>6, <1>f DEF Adopt, G
  <1>7. CASE Recheck(p)
    <2>1. CASE ~SlotMissing("client") /\ RegisteredClient # 0
      <3>1. d = [c EXCEPT !.at = "release", !.rec = RegisteredClient, !.next = "consent"]
        BY <1>7, <2>1, RecheckFacts
      <3>2. d.at = "release"
        BY <1>0, <3>1 DEF CallType
      <3>3. QED
        BY <1>q, <3>2
    <2>2. "post" \in Location \ Watched
      BY DEF Location
    <2>3. QED
      BY <1>7, <1>f, <1>g, <2>1, <2>2 DEF Recheck
  <1>8. CASE PostRegistration(p)
    <2>1. PICK r \in 1..MaxClient : call' = [call EXCEPT ![p].at = "existing", ![p].rec = r]
      BY <1>8 DEF PostRegistration
    <2>2. d = [c EXCEPT !.at = "existing", !.rec = r]
      BY <2>1, PostFacts
    <2>3. d.at = "existing"
      BY <1>0, <2>2 DEF CallType
    <2>4. QED
      BY <1>q, <2>3
  <1>9. CASE LoadExisting(p)
    <2>1. "invLoad" \in Location \ Watched
      BY DEF Location
    <2>2. QED
      BY <1>9, <1>f, <1>g, <1>s, <2>1 DEF LoadExisting
  <1>10. CASE SetSlot(p)
    <2>1. PICK n \in 1..MaxSlot, l \in {"rollback", "read", "sweep"} :
             /\ call' \in [Proc -> CallType] /\ Only(p)
             /\ call'[p] = [call[p] EXCEPT !.slot = n, !.at = l]
             /\ FreshSlot(call[p].kind, n)
             /\ l = "read" => call[p].kind = "client"
             /\ l = "sweep" => call[p].kind = "refresh"
             /\ l = "rollback" => Fault
             /\ l # "rollback" => UNCHANGED faults /\
                    keyring' = [keyring EXCEPT ![<<call[p].kind, n>>] = Secret(p)]
             /\ \/ keyring' = keyring
                \/ keyring' = [keyring EXCEPT ![<<call[p].kind, n>>] = Secret(p)]
      BY <1>10, SetFacts
    <2>2. /\ d.at = l /\ d.kind = c.kind /\ d.rec = c.rec /\ d.op = c.op /\ d.prev = c.prev
          /\ d.tok = c.tok
      BY <1>0, <2>1 DEF CallType
    <2>3. c.at = "set"
      BY <1>10 DEF SetSlot, At
    <2>4. QED
      BY <1>0, <1>10, <2>1, <2>2, <2>3 DEF Granting, G
  <1>11. CASE ReadClientFence(p)
    <2>1. d = [c EXCEPT !.at = "commit", !.fgen = fence["client"].gen + 1,
                        !.prev = fence["client"].slot]
      BY <1>11, ReadFacts
    <2>2. d.at = "commit" /\ d.kind = c.kind
      BY <1>0, <2>1 DEF CallType
    <2>3. c.at = "read"
      BY <1>11 DEF ReadClientFence, At
    <2>4. QED
      BY <1>0, <2>2, <2>3 DEF Local, Granting
  <1>12. CASE Commit(p)
    <2>1. PICK l \in {"dropLegacy", "unmark"}, nx \in {"idle", "consent"}, pr \in 0..MaxSlot :
             /\ call' \in [Proc -> CallType] /\ Only(p)
             /\ call'[p] = [call[p] EXCEPT !.at = l, !.next = nx, !.prev = pr, !.slot = 0,
                                           !.tok = 0, !.fgen = 0]
             /\ l = "dropLegacy" <=> call[p].kind = "client"
      BY <1>12, CommitFacts
    <2>2. d.at = l
      BY <1>0, <2>1 DEF CallType
    <2>3. QED
      BY <1>q, <2>2
  <1>13. CASE InvalidateLoad(p)
    <2>1. CASE ~SlotMissing("refresh")
      <3>1. d = [c EXCEPT !.at = "invMark", !.tok = 0, !.fgen = 0,
                          !.prev = fence["refresh"].slot]
        BY <1>13, <2>1, InvalidateLoadFacts
      <3>2. d.at = "invMark"
        BY <1>0, <3>1 DEF CallType
      <3>3. QED
        BY <1>q, <3>2
    <2>2. QED
      BY <1>13, <1>f, <2>1 DEF InvalidateLoad
  <1>14. CASE InvalidateSlot(p) \/ InvalidateLegacy(p) \/ InvalidateUnmark(p)
    <2>1. \/ StoreClient(p)
          \/ \E l \in {"invLegacy", "invUnmark", "release"} : Goto(p, l)
      BY <1>14 DEF InvalidateSlot, InvalidateLegacy, InvalidateUnmark, Invalidated
    <2>2. {"invLegacy", "invUnmark", "release"} \subseteq Location \ Watched
      BY DEF Location
    <2>3. QED
      BY <1>g, <1>s, <2>1, <2>2
  <1>15. CASE LogoutRead(p)
    <2>1. \/ d = [c EXCEPT !.at = "outGrantSlot", !.kind = "refresh",
                           !.prev = fence["refresh"].slot]
          \/ d = [c EXCEPT !.at = "outClientSlot", !.kind = "client",
                           !.prev = fence["client"].slot]
      BY <1>15, LogoutReadFacts
    <2>2. d.at \in {"outGrantSlot", "outClientSlot"}
      BY <1>0, <2>1 DEF CallType
    <2>3. QED
      BY <1>q, <2>2
  <1>16. CASE Sweep(p)
    <2>1. (c.at = "sweep" /\ Goto(p, "commit")) \/ Goto(p, "release")
      BY <1>16 DEF Sweep, At
    <2>2. "commit" \in Location /\ "release" \in Location \ Watched
      BY DEF Location
    <2>3. CASE c.at = "sweep" /\ Moved(c, d, "commit")
      BY <1>0, <1>16, <2>3 DEF Moved, Granting, G
    <2>4. QED
      BY <1>g, <1>m, <2>1, <2>2, <2>3
  <1>17. CASE CurrentRecord(p)
    <2>1. c.at = "record" /\ (Fail(p) \/ Goto(p, "exchange")) /\ "exchange" \in Location
      BY <1>17 DEF CurrentRecord, At, Location
    <2>2. CASE Moved(c, d, "exchange")
      BY <1>0, <2>1, <2>2 DEF Moved, Granting, Local
    <2>3. QED
      BY <1>f, <1>m, <2>1, <2>2
  <1>18. CASE \/ ExchangeRejected(p) \/ ExchangeLost(p) \/ ScopeMismatch(p) \/ PostRefused(p)
              \/ Fails(p) \/ CommitRejected(p) \/ Rollback(p) \/ UnmarkCommitted(p)
              \/ DropLegacy(p) \/ DropPrevious(p) \/ LogoutUnmark(p)
    <2>1. Fail(p) \/ \E l \in {"invLoad", "rollback", "dropLegacy", "dropPrevious", "release",
                               "outSweep"} : Goto(p, l)
      BY <1>18 DEF ExchangeRejected, ExchangeLost, ScopeMismatch, PostRefused, Fails,
                   CommitRejected, Rollback, UnmarkCommitted, DropLegacy, DropPrevious,
                   LogoutUnmark
    <2>2. {"invLoad", "rollback", "dropLegacy", "dropPrevious", "release", "outSweep"}
             \subseteq Location \ Watched
      BY DEF Location
    <2>3. QED
      BY <1>f, <1>g, <2>1, <2>2
  <1>19. CASE Mark(p) \/ InvalidateClear(p) \/ LogoutSlot(p) \/ LogoutClear(p) \/ LogoutLegacy(p)
    <2>1. Fail(p) \/ \E l \in {"invClear", "outClearGrant", "invLegacy", "invSlot", "outMark",
                               "outClearClient", "outClient", "outLegacyClient",
                               "outLegacyGrant", "outUnmark"} : Goto(p, l)
      BY <1>19 DEF Mark, InvalidateClear, LogoutSlot, LogoutClear, LogoutLegacy
    <2>2. {"invClear", "outClearGrant", "invLegacy", "invSlot", "outMark", "outClearClient",
           "outClient", "outLegacyClient", "outLegacyGrant", "outUnmark"}
             \subseteq Location \ Watched
      BY DEF Location
    <2>3. QED
      BY <1>f, <1>g, <2>1, <2>2
  <1>20. QED
    BY <1>1, <1>2, <1>3, <1>4, <1>5, <1>6, <1>7, <1>8, <1>9, <1>10, <1>11, <1>12, <1>13, <1>14,
       <1>15, <1>16, <1>17, <1>18, <1>19
       DEF Acts, Step

\* The registered client is erased or stays while its fence stays.
LEMMA ClientKept ==
    ASSUME Shape, Private, [Next]_vars, fence'["client"] = fence["client"]
    PROVE  Committed("client")' \in {0, Committed("client")}
  <1>1. "client" \in Kind /\ fence["client"].slot \in 0..MaxSlot
    BY LiveTypes DEF Kind
  <1>2. keyring'[<<"client", fence["client"].slot>>]
          \in {0, keyring[<<"client", fence["client"].slot>>]}
    BY <1>1, KeptLabels
  <1>3. QED
    BY <1>2 DEF Committed

\* A pair is not disturbed while the fences stay where they are.
LEMMA PairedKept ==
    ASSUME Shape, Private, [Next]_vars, fence' = fence, NEW q \in Proc, call'[q] = call[q],
           Granting(call[q]), Paired(call[q])
    PROVE  Paired(call[q])'
  <1> DEFINE c == call[q]
  <1>0. c \in CallType /\ Local(c) /\ c.tok \in 0..MaxGrant
    BY DEF Shape, Private, CallType
  <1>1. Committed("client")' \in {0, Committed("client")}
    BY ClientKept
  <1>2. (adopted => adopted') /\ (stalled => stalled')
    BY FlagStep
  <1>3. c.at = "exchange" => grants'[c.tok] \in {0, grants[c.tok]}
    <2>1. c.at = "exchange" => c.tok \in 1..MaxGrant
      BY <1>0, Bounds DEF Granting, Local
    <2>2. c.tok \in UsedGrants
      BY UsedNames
    <2>3. QED
      BY <2>1, <2>2, GrantStep
  <1>4. QED
    BY <1>1, <1>2, <1>3 DEF Paired

\* p's own steps towards the commit.
LEMMA OwnPaired ==
    ASSUME Shape, Private, ClientKnown, GrantMatchesClient, NEW p \in Proc, Acts(p),
           Granting(call'[p]), Granting(call[p]) => Paired(call[p])
    PROVE  Paired(call[p])'
  <1> DEFINE c == call[p]
             d == call'[p]
  <1>0. c \in CallType /\ Local(c) /\ Known(c) /\ [Next]_vars
    BY ActsNext DEF Shape, Private, ClientKnown
  <1>1. CASE LoadCredential(p) /\ LiveGrant # 0
    <2>1. d = [c EXCEPT !.at = "exchange", !.tok = LiveGrant, !.fgen = fence["refresh"].gen + 1,
                        !.prev = fence["refresh"].slot]
      BY <1>1, LoadFacts
    <2>2. d.at = "exchange" /\ d.tok = LiveGrant /\ d.prev = fence["refresh"].slot /\ d.op = c.op
      BY <1>0, <2>1 DEF CallType
    <2>3. c.at = "load" /\ UNCHANGED <<fence, keyring, grants, stalled, adopted>>
      BY <1>1 DEF LoadCredential, At, store, upstream, history
    <2>4. c.op = "refresh" /\ Committed("client")' = Committed("client")
      BY <1>0, <2>3 DEF Local, Committed
    <2>5. QED
      BY <1>1, <2>2, <2>3, <2>4 DEF Paired, GrantMatchesClient
  <1>2. CASE ExchangeRefresh(p)
    <2>1. PICK g \in 1..MaxGrant : call' = [call EXCEPT ![p].at = "gate", ![p].tok = g]
      BY <1>2 DEF ExchangeRefresh
    <2>2. d = [c EXCEPT !.at = "gate", !.tok = g]
      BY <2>1, ExchangedFacts
    <2>3. d.at = "gate" /\ d.op = c.op /\ d.rec = c.rec /\ d.prev = c.prev
      BY <1>0, <2>2 DEF CallType
    <2>4. /\ c.at = "exchange" /\ c.op = "refresh" /\ grants[c.tok] = c.rec
          /\ UNCHANGED <<fence, keyring, stalled, adopted>>
      BY <1>2 DEF ExchangeRefresh, At, Accepts, store, history
    <2>5. c.rec # 0 /\ Committed("client")' = Committed("client")
      BY <1>0, <2>4 DEF Known, Committed
    <2>6. Paired(c)
      BY <2>4 DEF Granting
    <2>7. QED
      BY <2>3, <2>4, <2>5, <2>6 DEF Paired
  <1>3. CASE Adopt(p) /\ SameRecord(p) /\ ~SlotMissing("refresh")
    <2>1. d = [c EXCEPT !.at = "set", !.fgen = fence["refresh"].gen + 1,
                        !.prev = fence["refresh"].slot]
      BY <1>3, AdoptFacts
    <2>2. d.at = "set" /\ d.rec = c.rec
      BY <1>0, <2>1 DEF CallType
    <2>3. c.at = "adopt" /\ UNCHANGED <<fence, keyring>>
      BY <1>3 DEF Adopt, At, store
    <2>4. c.rec # 0 /\ Committed("client")' = Committed("client")
      BY <1>0, <2>3 DEF Known, Committed
    <2>5. Committed("client") = c.rec
      BY <1>3, <2>4 DEF SameRecord, RegisteredClient
    <2>6. QED
      BY <2>2, <2>4, <2>5 DEF Paired
  <1>4. CASE /\ Gate(p) \/ SetSlot(p) \/ Sweep(p)
             /\ Granting(c) /\ c.at # "exchange" /\ d.at # "exchange"
             /\ d.rec = c.rec /\ d.op = c.op /\ d.prev = c.prev /\ d.tok = c.tok
    <2>1. UNCHANGED <<fence, stalled, adopted>>
      BY <1>4 DEF Gate, SetSlot, Sweep, store, history
    <2>2. Committed("client")' \in {0, Committed("client")}
      BY <1>0, <2>1, ClientKept
    <2>3. Paired(c)
      BY <1>4
    <2>4. QED
      BY <1>4, <2>1, <2>2, <2>3 DEF Paired
  <1>5. QED
    BY <1>1, <1>2, <1>3, <1>4, GrantingStep

LEMMA PairedStep ==
    ASSUME Shape, Private, Epochs, ClientKnown, HolderPaired, GrantMatchesClient, [Next]_vars
    PROVE  HolderPaired'
  <1>1. ASSUME NEW p \in Proc, Acts(p), NEW q \in Proc, Holds(q)', Granting(call[q])'
        PROVE  Paired(call[q])'
    <2>1. CASE q # p
      <3>1. Holds(q) /\ ~Holds(p) /\ call'[q] = call[q]
        BY <1>1, <2>1, HolderStep
      <3>2. fence' = fence
        BY <1>1, <3>1, FenceStep
      <3>3. Granting(call[q])
        BY <1>1, <3>1 DEF Granting
      <3>4. QED
        BY <3>1, <3>2, <3>3, PairedKept DEF HolderPaired
    <2>2. CASE q = p
      <3>1. Granting(call'[p])
        BY <1>1, <2>2 DEF Granting
      <3>2. call'[p].at # "release"
        BY <3>1 DEF Granting
      <3>3. Holds(p) \/ Claim(p) \/ StartLogout(p)
        BY <1>1, <2>2, <3>2, HolderStep
      <3>4. Granting(call[p]) => Paired(call[p])
        <4>1. CASE Holds(p)
          BY <4>1 DEF HolderPaired
        <4>2. CASE Claim(p) \/ StartLogout(p)
          BY <4>2 DEF Claim, StartLogout, At, Granting
        <4>3. QED
          BY <3>3, <4>1, <4>2
      <3>5. QED
        BY <1>1, <2>2, <3>1, <3>4, OwnPaired
    <2>3. QED
      BY <2>1, <2>2
  <1>2. ASSUME Environs \/ UNCHANGED vars, UNCHANGED <<call, fence>>, NEW q \in Proc, Holds(q)',
               Granting(call[q])'
        PROVE  Paired(call[q])'
    <2>1. Holds(q) /\ call'[q] = call[q]
      BY <1>2, EnvironStep
    <2>2. Granting(call[q])
      BY <1>2, <2>1 DEF Granting
    <2>3. QED
      BY <1>2, <2>1, <2>2, PairedKept DEF HolderPaired
  <1>3. QED
    BY <1>1, <1>2, NextForms DEF HolderPaired, vars, store

-----------------------------------------------------------------------------
(* The readable grant belongs to the registered client.                    *)

LEMMA MatchStep ==
    ASSUME Core, Serial, Masked, HolderPaired, GrantMatchesClient, [Next]_vars
    PROVE  GrantMatchesClient'
  <1> DEFINE s == fence["refresh"].slot
             client == Committed("client")
             Premise == /\ LiveGrant # 0 /\ client # 0
                        /\ IF s # 0 THEN ~adopted ELSE ~stalled
  <1> USE DEF Core
  <1>0. /\ s \in 0..MaxSlot /\ "refresh" \in Kind /\ "client" \in Kind
        /\ (adopted => adopted') /\ (stalled => stalled')
        /\ LiveGrant \in 0..MaxGrant
    BY LiveTypes, FlagStep DEF Kind
  <1>1. SUFFICES ASSUME Premise' PROVE grants'[LiveGrant'] \in {0, client'}
    BY DEF GrantMatchesClient
  <1>2. ASSUME fence' = fence, LiveGrant' = LiveGrant PROVE grants'[LiveGrant'] \in {0, client'}
    <2>1. client' \in {0, client}
      BY <1>2, ClientKept
    <2>2. LiveGrant \in 1..MaxGrant /\ LiveGrant \in UsedGrants
      BY <1>0, <1>1, <1>2, UsedNames, Bounds
    <2>3. grants'[LiveGrant] \in {0, grants[LiveGrant]}
      BY <2>2, GrantStep
    <2>4. grants[LiveGrant] \in {0, client}
      BY <1>0, <1>1, <1>2, <2>1 DEF GrantMatchesClient
    <2>5. QED
      BY <1>1, <1>2, <2>1, <2>3, <2>4
  <1>3. CASE fence' = fence
    <2>1. keyring'[<<"refresh", s>>] \in {0, keyring[<<"refresh", s>>]}
      BY <1>0, KeptLabels
    <2>2. CASE s # 0
      BY <1>1, <1>2, <1>3, <2>1, <2>2 DEF LiveGrant, Committed
    <2>3. CASE s = 0
      <3>1. ~stalled
        BY <1>0, <1>1, <1>3, <2>3
      <3>2. CASE UNCHANGED <<marker, keyring>>
        BY <1>2, <1>3, <3>2 DEF LiveGrant, Committed
      <3>3. ASSUME NEW p \in Proc, Acts(p) PROVE LiveGrant' = LiveGrant
        <4>1. CASE Commit(p)
          BY <1>3, <4>1 DEF Commit, LiveGrant, Committed
        <4>2. CASE ~Commit(p)
          BY <1>1, <3>1, <3>3, <4>2, LiveStep
        <4>3. QED
          BY <4>1, <4>2
      <3>4. QED
        BY <1>2, <1>3, <3>2, <3>3, NextForms DEF vars, store
    <2>4. QED
      BY <2>2, <2>3
  <1>4. ASSUME NEW p \in Proc, Acts(p), fence' # fence
        PROVE  grants'[LiveGrant'] \in {0, client'}
    <2> DEFINE c == call[p]
    <2>0. /\ c \in CallType /\ Local(c) /\ Mine(c, keyring, grants) /\ c.kind \in Kind
          /\ Holds(p) /\ View(c, fence, keyring, expired) /\ fence \in FenceType
          /\ c.slot \in 0..MaxSlot
      BY <1>4, FenceStep DEF Shape, Private, CallType, HolderView
    <2>1. CASE Commit(p) /\ c.kind = "refresh"
      <3>1. /\ fence' = [fence EXCEPT !["refresh"] = [gen |-> c.fgen, slot |-> c.slot]]
            /\ c.at = "commit" /\ UNCHANGED <<keyring, grants>>
            /\ adopted' = (adopted \/ (stalled /\ c.op = "refresh" /\ c.prev = 0))
        BY <2>1 DEF Commit, At, upstream
      <3>2. fence'["refresh"].slot = c.slot /\ fence'["client"] = fence["client"] /\ c.slot # 0
        BY <1>0, <2>0, <3>1 DEF FenceType, Local
      <3>3. client' = client /\ LiveGrant' = keyring[<<"refresh", c.slot>>]
        BY <3>1, <3>2 DEF Committed, LiveGrant
      <3>4. LiveGrant' = c.tok /\ grants[c.tok] \in {0, c.rec}
        BY <1>1, <2>0, <2>1, <3>1, <3>3 DEF Mine
      <3>5. Paired(c)
        BY <2>0, <2>1, <3>1 DEF HolderPaired, Granting
      <3>6. ~adopted /\ ~(stalled /\ c.op = "refresh" /\ c.prev = 0) /\ client # 0
        BY <1>1, <3>1, <3>2, <3>3
      <3>7. client = c.rec
        BY <3>1, <3>5, <3>6 DEF Paired
      <3>8. QED
        BY <3>1, <3>3, <3>4, <3>7
    <2>2. CASE Commit(p) /\ c.kind = "client"
      <3>1. /\ fence' = [fence EXCEPT !["client"] = [gen |-> c.fgen, slot |-> c.slot]]
            /\ c.at = "commit" /\ UNCHANGED <<keyring, marker>>
        BY <2>2 DEF Commit, At
      <3>2. Registering(c) /\ fence'["refresh"] = fence["refresh"]
        BY <1>0, <2>0, <2>2, <3>1 DEF Registering, FenceType
      <3>3. s = 0 /\ LiveGrant' = LiveGrant
        BY <2>0, <3>1, <3>2 DEF View, LiveGrant, Committed
      <3>4. ~stalled
        BY <1>0, <1>1, <3>2, <3>3
      <3>5. LiveGrant = 0
        BY <3>2, <3>4 DEF Masked
      <3>6. QED
        BY <1>1, <3>3, <3>5
    <2>3. CASE InvalidateClear(p) \/ LogoutClear(p)
      <3>1. c.at \in {"invClear", "outClearGrant", "outClearClient"} /\ UNCHANGED marker
        BY <2>3 DEF InvalidateClear, LogoutClear, At
      <3>2. fence'["refresh"].slot = 0
        <4>1. CASE c.at = "outClearClient"
          <5>1. c.kind = "client" /\ s = 0
            BY <2>0, <4>1 DEF Local, View
          <5>2. fence' = [fence EXCEPT !["client"] = [gen |-> 0, slot |-> 0]]
            BY <1>4, <2>3, <4>1, <5>1 DEF InvalidateClear, LogoutClear, Cleared, At
          <5>3. QED
            BY <1>0, <2>0, <5>1, <5>2 DEF FenceType
        <4>2. CASE c.at \in {"invClear", "outClearGrant"}
          <5>1. c.at = "outClearGrant" => c.kind = "refresh"
            BY <2>0 DEF Local
          <5>2. fence' = [fence EXCEPT !["refresh"] = [gen |-> 0, slot |-> 0]]
            BY <1>4, <2>3, <4>2, <5>1 DEF InvalidateClear, LogoutClear, Cleared, At
          <5>3. QED
            BY <1>0, <2>0, <5>2 DEF FenceType
        <4>3. QED
          BY <3>1, <4>1, <4>2
      <3>3. ~stalled
        BY <1>0, <1>1, <3>2
      <3>4. marker'
        BY <3>1, <3>3 DEF Masked, MaskedAt
      <3>5. LiveGrant' = 0
        BY <3>2, <3>4 DEF LiveGrant
      <3>6. QED
        BY <1>1, <3>5
    <2>4. QED
      BY <1>4, <2>0, <2>1, <2>2, <2>3, FenceStep DEF Kind
  <1>5. QED
    BY <1>3, <1>4, NextForms DEF vars, store

-----------------------------------------------------------------------------
(* Without faults nothing is lost on the way to the commit.                *)

\* The holder's commit is not rejected.
LEMMA CommitsAlone ==
    ASSUME Core, Serial, ~stalled, NEW p \in Proc, At(p, "commit")
    PROVE  Commits(p)
  <1> DEFINE c == call[p]
  <1>0. c.at = "commit" /\ c.kind \in Kind
        /\ fence["refresh"].gen \in Nat /\ fence["client"].gen \in Nat
    BY LiveTypes DEF Core, Shape, CallType, At, Kind
  <1>1. Holds(p) /\ View(c, fence, keyring, expired)
    BY <1>0, Alone DEF Core, HolderView, AtWork, Resting
  <1>2. CASE c.kind = "refresh"
    BY <1>0, <1>1, <1>2 DEF View, Granting, Commits
  <1>3. CASE c.kind = "client"
    BY <1>0, <1>1, <1>3 DEF View, Commits
  <1>4. QED
    BY <1>0, <1>2, <1>3 DEF Kind

LEMMA FaultFree ==
    ASSUME Shape, faults' = 0
    PROVE  ~Fault
  BY DEF Fault, Shape

LEMMA OwnIntact ==
    ASSUME Core, Serial, ClientKnown, Undisturbed, NEW p \in Proc, Acts(p), faults = 0,
           faults' = 0
    PROVE  Intact(call'[p], keyring', grants', retired')
  <1> DEFINE c == call[p]
             d == call'[p]
             I == Intact(d, keyring', grants', retired')
             Watched == {"rollback", "gate", "adopt", "set", "sweep", "read", "commit"}
  <1> USE DEF Core
  <1>0. /\ c \in CallType /\ Local(c) /\ Known(c) /\ Intact(c, keyring, grants, retired)
        /\ c.kind \in Kind /\ c.slot \in 0..MaxSlot /\ c.tok \in 0..MaxGrant
        /\ c.rec \in 0..MaxClient /\ keyring \in [Label -> Nat]
        /\ grants \in [1..MaxGrant -> 0..MaxClient] /\ ~stalled /\ ~Fault
    BY FaultFree DEF Shape, Private, CallType, ClientKnown, Undisturbed
  <1>q. ASSUME d.at \notin Watched PROVE I
    BY <1>q DEF Intact, Registering
  <1>f. ASSUME Fail(p) PROVE I
    BY <1>f, <1>q, FailFacts
  <1>m. ASSUME NEW l \in Location, Goto(p, l) PROVE Moved(c, d, l)
    BY <1>m, GotoFacts
  <1>g. ASSUME NEW l \in Location \ Watched, Goto(p, l) PROVE I
    <2>1. Moved(c, d, l)
      BY <1>g, <1>m
    <2>2. QED
      BY <1>g, <1>q, <2>1 DEF Moved
  <1>s. ASSUME StoreClient(p), c.op = "register" PROVE I
    BY <1>s, StoreClientFacts DEF Intact, Registering
  <1> HIDE DEF I
  <1> SUFFICES I
    BY DEF I
  <1>1. CASE Start(p) \/ Claim(p) \/ Contended(p) \/ Crash(p) \/ Release(p) \/ Consent(p)
    BY <1>1, <1>q, EdgeStep
  <1>2. CASE LoadCredential(p)
    <2>1. CASE LiveGrant # 0
      <3>1. d = [c EXCEPT !.at = "exchange", !.tok = LiveGrant,
                          !.fgen = fence["refresh"].gen + 1, !.prev = fence["refresh"].slot]
        BY <1>2, <2>1, LoadFacts
      <3>2. d.at = "exchange"
        BY <1>0, <3>1 DEF CallType
      <3>3. QED
        BY <1>q, <3>2
    <2>2. QED
      BY <1>2, <1>f, <2>1 DEF LoadCredential
  <1>3. CASE ExchangeRefresh(p) \/ (ExchangeCode(p) /\ c.rec \notin expired)
    <2>1. PICK g \in 1..MaxGrant :
             /\ call' = [call EXCEPT ![p].at = "gate", ![p].tok = g]
             /\ \/ g = c.tok /\ UNCHANGED grants /\ grants[c.tok] = c.rec
                \/ grants' = [grants EXCEPT ![c.tok] = 0, ![g] = c.rec]
                \/ grants' = [grants EXCEPT ![g] = c.rec]
      BY <1>3 DEF ExchangeRefresh, ExchangeCode, Rotated, Accepts
    <2>2. d = [c EXCEPT !.at = "gate", !.tok = g]
      BY <2>1, ExchangedFacts
    <2>3. d.at = "gate" /\ d.tok = g
      BY <1>0, <2>2 DEF CallType
    <2>4. c.at = "exchange"
      BY <1>3 DEF ExchangeRefresh, ExchangeCode, At
    <2>5. c.rec # 0
      BY <1>0, <2>4 DEF Known
    <2>6. grants'[g] # 0
      BY <1>0, <2>1, <2>5
    <2>7. QED
      BY <2>3, <2>6 DEF I, Intact, Registering
  <1>4. CASE ExchangeCode(p) /\ c.rec \in expired
    BY <1>4, <1>f DEF ExchangeCode
  <1>5. CASE Gate(p)
    <2>1. /\ c.at = "gate" /\ UNCHANGED grants
          /\ Fail(p) \/ Goto(p, "set") \/ Goto(p, "adopt")
      BY <1>5 DEF Gate, At, upstream
    <2>2. "set" \in Location /\ "adopt" \in Location
      BY DEF Location
    <2>3. c.kind = "refresh" /\ grants[c.tok] # 0
      BY <1>0, <2>1 DEF Local, Intact
    <2>4. CASE Moved(c, d, "set") \/ Moved(c, d, "adopt")
      BY <2>1, <2>3, <2>4 DEF Moved, I, Intact, Registering
    <2>5. QED
      BY <1>f, <1>m, <2>1, <2>2, <2>4
  <1>6. CASE Adopt(p)
    <2>1. CASE SameRecord(p) /\ ~SlotMissing("refresh")
      <3>1. d = [c EXCEPT !.at = "set", !.fgen = fence["refresh"].gen + 1,
                          !.prev = fence["refresh"].slot]
        BY <1>6, <2>1, AdoptFacts
      <3>2. d.at = "set" /\ d.kind = c.kind /\ d.tok = c.tok
        BY <1>0, <3>1 DEF CallType
      <3>3. c.at = "adopt" /\ UNCHANGED grants
        BY <1>6 DEF Adopt, At, upstream
      <3>4. c.kind = "refresh" /\ grants[c.tok] # 0
        BY <1>0, <3>3 DEF Local, Intact
      <3>5. QED
        BY <3>2, <3>3, <3>4 DEF I, Intact, Registering
    <2>2. QED
      BY <1>6, <1>f, <2>1 DEF Adopt
  <1>7. CASE Recheck(p)
    <2>1. CASE ~SlotMissing("client") /\ RegisteredClient # 0
      <3>1. d = [c EXCEPT !.at = "release", !.rec = RegisteredClient, !.next = "consent"]
        BY <1>7, <2>1, RecheckFacts
      <3>2. d.at = "release"
        BY <1>0, <3>1 DEF CallType
      <3>3. QED
        BY <1>q, <3>2
    <2>2. "post" \in Location \ Watched
      BY DEF Location
    <2>3. QED
      BY <1>7, <1>f, <1>g, <2>1, <2>2 DEF Recheck
  <1>8. CASE PostRegistration(p)
    <2>1. PICK r \in 1..MaxClient : call' = [call EXCEPT ![p].at = "existing", ![p].rec = r]
      BY <1>8 DEF PostRegistration
    <2>2. d = [c EXCEPT !.at = "existing", !.rec = r]
      BY <2>1, PostFacts
    <2>3. d.at = "existing"
      BY <1>0, <2>2 DEF CallType
    <2>4. QED
      BY <1>q, <2>3
  <1>9. CASE LoadExisting(p)
    <2>1. "invLoad" \in Location \ Watched /\ c.at = "existing"
      BY <1>9 DEF Location, LoadExisting, At
    <2>2. c.op = "register"
      BY <1>0, <2>1 DEF Local
    <2>3. QED
      BY <1>9, <1>f, <1>g, <1>s, <2>1, <2>2 DEF LoadExisting
  <1>10. CASE SetSlot(p)
    <2>1. PICK n \in 1..MaxSlot, l \in {"rollback", "read", "sweep"} :
             /\ call' \in [Proc -> CallType] /\ Only(p)
             /\ call'[p] = [call[p] EXCEPT !.slot = n, !.at = l]
             /\ FreshSlot(call[p].kind, n)
             /\ l = "read" => call[p].kind = "client"
             /\ l = "sweep" => call[p].kind = "refresh"
             /\ l = "rollback" => Fault
             /\ l # "rollback" => UNCHANGED faults /\
                    keyring' = [keyring EXCEPT ![<<call[p].kind, n>>] = Secret(p)]
             /\ \/ keyring' = keyring
                \/ keyring' = [keyring EXCEPT ![<<call[p].kind, n>>] = Secret(p)]
      BY <1>10, SetFacts
    <2>2. /\ d.at = l /\ d.kind = c.kind /\ d.slot = n /\ d.op = c.op /\ d.tok = c.tok
      BY <1>0, <2>1 DEF CallType
    <2>3. c.at = "set" /\ UNCHANGED <<grants, retired>>
      BY <1>10 DEF SetSlot, At, upstream, store
    <2>4. CASE l = "read"
      BY <1>0, <2>1, <2>2, <2>3, <2>4 DEF I, Intact, Registering
    <2>5. CASE l = "sweep"
      <3>1. c.kind = "refresh" /\ Secret(p) = c.tok /\ grants[c.tok] # 0
        BY <1>0, <2>1, <2>3, <2>5 DEF Secret, Intact
      <3>2. <<"refresh", n>> \in Label /\ n \notin UsedSlots("refresh")
        BY <2>1, <3>1 DEF Label, Kind, FreshSlot
      <3>3. <<"refresh", n>> \notin retired
        BY <3>2 DEF UsedSlots
      <3>4. keyring'[<<"refresh", n>>] = c.tok
        BY <1>0, <2>1, <2>5, <3>1, <3>2
      <3>5. QED
        BY <2>2, <2>3, <2>5, <3>1, <3>3, <3>4 DEF I, Intact, Registering
    <2>6. QED
      BY <1>0, <2>1, <2>4, <2>5
  <1>11. CASE ReadClientFence(p)
    <2>1. d = [c EXCEPT !.at = "commit", !.fgen = fence["client"].gen + 1,
                        !.prev = fence["client"].slot]
      BY <1>11, ReadFacts
    <2>2. d.at = "commit" /\ d.kind = c.kind /\ d.op = c.op
      BY <1>0, <2>1 DEF CallType
    <2>3. c.at = "read"
      BY <1>11 DEF ReadClientFence, At
    <2>4. c.kind = "client"
      BY <1>0, <2>3 DEF Local
    <2>5. QED
      BY <1>0, <2>2, <2>3, <2>4 DEF I, Intact, Registering
  <1>12. CASE Commit(p)
    <2>1. PICK l \in {"dropLegacy", "unmark"}, nx \in {"idle", "consent"}, pr \in 0..MaxSlot :
             /\ call' \in [Proc -> CallType] /\ Only(p)
             /\ call'[p] = [call[p] EXCEPT !.at = l, !.next = nx, !.prev = pr, !.slot = 0,
                                           !.tok = 0, !.fgen = 0]
             /\ l = "dropLegacy" <=> call[p].kind = "client"
      BY <1>12, CommitFacts
    <2>2. d.at = l
      BY <1>0, <2>1 DEF CallType
    <2>3. QED
      BY <1>q, <2>2
  <1>13. CASE InvalidateLoad(p)
    <2>1. CASE ~SlotMissing("refresh")
      <3>1. d = [c EXCEPT !.at = "invMark", !.tok = 0, !.fgen = 0,
                          !.prev = fence["refresh"].slot]
        BY <1>13, <2>1, InvalidateLoadFacts
      <3>2. d.at = "invMark"
        BY <1>0, <3>1 DEF CallType
      <3>3. QED
        BY <1>q, <3>2
    <2>2. QED
      BY <1>13, <1>f, <2>1 DEF InvalidateLoad
  <1>14. CASE InvalidateSlot(p) \/ InvalidateLegacy(p) \/ InvalidateUnmark(p)
    <2>1. \/ StoreClient(p) /\ c.op = "register"
          \/ \E l \in {"invLegacy", "invUnmark", "release"} : Goto(p, l)
      BY <1>14 DEF InvalidateSlot, InvalidateLegacy, InvalidateUnmark, Invalidated
    <2>2. {"invLegacy", "invUnmark", "release"} \subseteq Location \ Watched
      BY DEF Location
    <2>3. QED
      BY <1>g, <1>s, <2>1, <2>2
  <1>15. CASE LogoutRead(p)
    <2>1. \/ d = [c EXCEPT !.at = "outGrantSlot", !.kind = "refresh",
                           !.prev = fence["refresh"].slot]
          \/ d = [c EXCEPT !.at = "outClientSlot", !.kind = "client",
                           !.prev = fence["client"].slot]
      BY <1>15, LogoutReadFacts
    <2>2. d.at \in {"outGrantSlot", "outClientSlot"}
      BY <1>0, <2>1 DEF CallType
    <2>3. QED
      BY <1>q, <2>2
  <1>16. CASE Sweep(p)
    <2>1. /\ (c.at = "sweep" /\ Goto(p, "commit")) \/ Goto(p, "release")
          /\ UNCHANGED grants
      BY <1>16 DEF Sweep, At, upstream
    <2>2. "commit" \in Location /\ "release" \in Location \ Watched
      BY DEF Location
    <2>3. CASE c.at = "sweep" /\ Moved(c, d, "commit")
      <3>1. /\ c.kind = "refresh" /\ grants[c.tok] # 0 /\ keyring[<<"refresh", c.slot>>] = c.tok
            /\ <<"refresh", c.slot>> \notin retired
        BY <1>0, <2>3 DEF Local, Intact
      <3>2. PICK kept \in SUBSET retired : Swept(kept)
        BY <1>16 DEF Sweep
      <3>3. <<"refresh", c.slot>> \in Label
        BY <1>0 DEF Label, Kind
      <3>4. keyring'[<<"refresh", c.slot>>] = c.tok /\ <<"refresh", c.slot>> \notin retired'
        BY <3>1, <3>2, <3>3 DEF Swept
      <3>5. QED
        BY <2>1, <2>3, <3>1, <3>4 DEF Moved, I, Intact, Registering
    <2>4. QED
      BY <1>g, <1>m, <2>1, <2>2, <2>3
  <1>17. CASE CommitRejected(p)
    BY <1>0, <1>17, CommitsAlone DEF CommitRejected, MayFault
  <1>18. CASE \/ ExchangeRejected(p) \/ ExchangeLost(p) \/ ScopeMismatch(p) \/ PostRefused(p)
              \/ Fails(p) \/ Rollback(p) \/ UnmarkCommitted(p) \/ CurrentRecord(p)
              \/ DropLegacy(p) \/ DropPrevious(p) \/ LogoutUnmark(p)
    <2>1. Fail(p) \/ \E l \in {"invLoad", "exchange", "dropLegacy", "dropPrevious", "release",
                               "outSweep"} : Goto(p, l)
      BY <1>18 DEF ExchangeRejected, ExchangeLost, ScopeMismatch, PostRefused, Fails,
                   CurrentRecord, Rollback, UnmarkCommitted, DropLegacy, DropPrevious,
                   LogoutUnmark
    <2>2. {"invLoad", "exchange", "dropLegacy", "dropPrevious", "release", "outSweep"}
             \subseteq Location \ Watched
      BY DEF Location
    <2>3. QED
      BY <1>f, <1>g, <2>1, <2>2
  <1>19. CASE Mark(p) \/ InvalidateClear(p) \/ LogoutSlot(p) \/ LogoutClear(p) \/ LogoutLegacy(p)
    <2>1. Fail(p) \/ \E l \in {"invClear", "outClearGrant", "invLegacy", "invSlot", "outMark",
                               "outClearClient", "outClient", "outLegacyClient",
                               "outLegacyGrant", "outUnmark"} : Goto(p, l)
      BY <1>19 DEF Mark, InvalidateClear, LogoutSlot, LogoutClear, LogoutLegacy
    <2>2. {"invClear", "outClearGrant", "invLegacy", "invSlot", "outMark", "outClearClient",
           "outClient", "outLegacyClient", "outLegacyGrant", "outUnmark"}
             \subseteq Location \ Watched
      BY DEF Location
    <2>3. QED
      BY <1>f, <1>g, <2>1, <2>2
  <1>20. QED
    BY <1>1, <1>2, <1>3, <1>4, <1>5, <1>6, <1>7, <1>8, <1>9, <1>10, <1>11, <1>12, <1>13, <1>14,
       <1>15, <1>16, <1>17, <1>18, <1>19
       DEF Acts, Step

LEMMA UndisturbedStep ==
    ASSUME Core, Serial, ClientKnown, Undisturbed, [Next]_vars
    PROVE  Undisturbed'
  <1> SUFFICES ASSUME faults' = 0
               PROVE  ~stalled' /\ \A q \in Proc : Intact(call'[q], keyring', grants', retired')
    BY DEF Undisturbed
  <1> USE DEF Core
  <1>0. faults = 0 /\ ~stalled /\ ~Fault
        /\ \A q \in Proc : Intact(call[q], keyring, grants, retired)
    <2>1. faults = 0
      BY FaultStep DEF Shape
    <2>2. QED
      BY <2>1, FaultFree DEF Undisturbed
  <1>1. ASSUME NEW p \in Proc, Acts(p)
        PROVE  ~stalled' /\ \A q \in Proc : Intact(call'[q], keyring', grants', retired')
    <2>1. ~stalled'
      BY <1>0, <1>1, ActsFlags
    <2>2. ASSUME NEW q \in Proc, q # p
          PROVE  Intact(call'[q], keyring', grants', retired')
      <3>1. call'[q] = call[q]
        BY <1>1, <2>2, OwnCall DEF Only
      <3>2. CASE AtWork(q)
        <4>1. ~AtWork(p)
          BY <1>0, <2>2, <3>2, Alone
        <4>2. UNCHANGED <<retired, keyring, grants>>
          BY <1>0, <1>1, <4>1, RestStep DEF Crash
        <4>3. QED
          BY <1>0, <3>1, <4>2
      <3>3. CASE ~AtWork(q)
        BY <3>1, <3>3 DEF AtWork, Resting, Intact, Registering
      <3>4. QED
        BY <3>2, <3>3
    <2>3. Intact(call'[p], keyring', grants', retired')
      BY <1>0, <1>1, OwnIntact
    <2>4. QED
      BY <2>1, <2>2, <2>3
  <1>2. CASE (Environs \/ UNCHANGED vars) /\ UNCHANGED <<call, keyring, retired>>
    <2>1. UNCHANGED <<grants, stalled>>
      BY <1>0, <1>2 DEF Environs, Lapse, Stall, Expire, Revoke, upstream, history, vars
    <2>2. QED
      BY <1>0, <1>2, <2>1
  <1>3. QED
    BY <1>1, <1>2, NextForms DEF vars, store

-----------------------------------------------------------------------------
(* A spent grant is being replaced.                                        *)

\* A refresh that has spent its grant and has not committed the new one yet.
Replacement(c) == c.op = "refresh" /\ c.at \in {"gate", "set", "sweep", "commit"}

\* Without faults it goes on to the commit.
LEMMA ReplacementStep ==
    ASSUME Core, Serial, Undisturbed, NEW p \in Proc, Acts(p), faults = 0, faults' = 0,
           Replacement(call[p])
    PROVE  Replacement(call'[p]) \/ (Commit(p) /\ call[p].kind = "refresh")
  <1> DEFINE c == call[p]
             d == call'[p]
  <1> USE DEF Core
  <1>0. /\ c \in CallType /\ Local(c) /\ Intact(c, keyring, grants, retired) /\ c.kind \in Kind
        /\ ~stalled /\ ~Fault /\ c.op = "refresh" /\ c.at \in {"gate", "set", "sweep", "commit"}
    BY FaultFree DEF Shape, Private, CallType, Undisturbed, Replacement
  <1>1. Holds(p) /\ c.kind = "refresh"
    <2>1. Holds(p)
      BY <1>0, Alone DEF AtWork, Resting
    <2>2. c.kind # "client"
      BY <1>0 DEF Intact, Registering, Local
    <2>3. QED
      BY <1>0, <2>1, <2>2 DEF Kind
  <1>m. ASSUME NEW l \in Location, Goto(p, l) PROVE Moved(c, d, l)
    BY <1>m, GotoFacts
  <1>2. \/ Gate(p) \/ ScopeMismatch(p) \/ SetSlot(p) \/ Sweep(p) \/ Commit(p) \/ CommitRejected(p)
        \/ Fails(p) \/ Crash(p)
    BY <1>0
       DEF Acts, Start, Step, StartRefresh, StartLogin, StartLogout, Claim, Contended,
           LoadCredential, ExchangeRefresh, ExchangeRejected, ExchangeCode, CurrentRecord, Adopt,
           Recheck, PostRefused, PostRegistration, LoadExisting, ReadClientFence, Rollback,
           UnmarkCommitted, DropLegacy, DropPrevious, InvalidateLoad, Mark, InvalidateClear,
           InvalidateSlot, InvalidateLegacy, InvalidateUnmark, LogoutRead, LogoutSlot,
           LogoutClear, LogoutLegacy, LogoutUnmark, Release, Consent, ExchangeLost, At
  <1>3. CASE Gate(p)
    <2>0. ASSUME NEW wait \in {0, 1} PROVE Passes(p, wait)
      BY <1>1 DEF Holds, HoldsEpoch, Live, Passes, CommitLease
    <2>1. Goto(p, "set") /\ "set" \in Location
      BY <1>0, <1>3, <2>0 DEF Gate, Location
    <2>2. Moved(c, d, "set")
      BY <1>m, <2>1
    <2>3. QED
      BY <1>0, <2>2 DEF Moved, Replacement
  <1>4. CASE SetSlot(p)
    <2>1. PICK n \in 1..MaxSlot, l \in {"rollback", "read", "sweep"} :
             /\ call' \in [Proc -> CallType] /\ Only(p)
             /\ call'[p] = [call[p] EXCEPT !.slot = n, !.at = l]
             /\ FreshSlot(call[p].kind, n)
             /\ l = "read" => call[p].kind = "client"
             /\ l = "sweep" => call[p].kind = "refresh"
             /\ l = "rollback" => Fault
             /\ l # "rollback" => UNCHANGED faults /\
                    keyring' = [keyring EXCEPT ![<<call[p].kind, n>>] = Secret(p)]
             /\ \/ keyring' = keyring
                \/ keyring' = [keyring EXCEPT ![<<call[p].kind, n>>] = Secret(p)]
      BY <1>4, SetFacts
    <2>2. d.at = l /\ d.op = c.op
      BY <1>0, <2>1 DEF CallType
    <2>3. QED
      BY <1>0, <1>1, <2>1, <2>2 DEF Replacement
  <1>5. CASE Sweep(p)
    <2>1. Goto(p, "commit") /\ "commit" \in Location
      BY <1>0, <1>5 DEF Sweep, At, Location
    <2>2. Moved(c, d, "commit")
      BY <1>m, <2>1
    <2>3. QED
      BY <1>0, <2>2 DEF Moved, Replacement
  <1>6. CASE CommitRejected(p)
    BY <1>0, <1>6, CommitsAlone DEF CommitRejected, MayFault
  <1>7. CASE ScopeMismatch(p) \/ Fails(p) \/ Crash(p)
    BY <1>0, <1>7 DEF ScopeMismatch, Fails, Crash
  <1>8. QED
    BY <1>1, <1>2, <1>3, <1>4, <1>5, <1>6, <1>7

\* Only an exchange spends the readable grant.
LEMMA SpendStep ==
    ASSUME Core, NEW p \in Proc, Acts(p), faults' = 0, LiveGrant' = LiveGrant, LiveGrant # 0,
           grants[LiveGrant] # 0, grants'[LiveGrant] = 0
    PROVE  Replacement(call'[p])
  <1> DEFINE g == LiveGrant
  <1> USE DEF Core
  <1>0. /\ ~Fault /\ g \in 1..MaxGrant /\ g \in UsedGrants
        /\ grants \in [1..MaxGrant -> 0..MaxClient] /\ call[p] \in CallType
    <2>1. LiveGrant \in 0..MaxGrant /\ LiveGrant \in UsedGrants
      BY LiveTypes, UsedNames
    <2>2. LiveGrant \in 1..MaxGrant
      BY <2>1, Bounds
    <2>3. QED
      BY <2>1, <2>2, FaultFree DEF Shape
  <1> HIDE DEF g
  <1>1. grants'[g] = 0 /\ grants[g] # 0 /\ g # 0
    BY DEF g
  <1>2. CASE ExchangeRefresh(p)
    <2>1. PICK h \in 1..MaxGrant : call' = [call EXCEPT ![p].at = "gate", ![p].tok = h]
      BY <1>2 DEF ExchangeRefresh
    <2>2. call'[p] = [call[p] EXCEPT !.at = "gate", !.tok = h]
      BY <2>1, ExchangedFacts
    <2>3. call'[p].at = "gate" /\ call'[p].op = call[p].op
      BY <1>0, <2>2 DEF CallType
    <2>4. QED
      BY <1>2, <2>3 DEF ExchangeRefresh, Replacement
  <1>3. CASE ExchangeCode(p)
    <2>1. \/ UNCHANGED grants
          \/ \E h \in 1..MaxGrant : FreshGrant(h) /\ grants' = [grants EXCEPT ![h] = call[p].rec]
      BY <1>3 DEF ExchangeCode
    <2>2. QED
      BY <1>0, <1>1, <2>1 DEF FreshGrant
  <1>4. CASE PostRegistration(p)
    <2>1. PICK c \in 1..MaxClient :
             /\ FreshClient(c)
             /\ grants' = [h \in 1..MaxGrant |-> IF grants[h] = c THEN 0 ELSE grants[h]]
      BY <1>4 DEF PostRegistration
    <2>2. grants[g] = c
      BY <1>0, <1>1, <2>1
    <2>3. grants[g] \in UsedClients
      BY <1>0, <1>1, UsedNames
    <2>4. QED
      BY <2>1, <2>2, <2>3 DEF FreshClient
  <1>5. CASE Release(p)
    <2>1. g \in UsedGrants'
      <3>1. fence["refresh"].slot \in 0..MaxSlot /\ g = keyring[<<"refresh", fence["refresh"].slot>>]
        BY LiveTypes DEF Kind, g, LiveGrant, Committed
      <3>2. keyring' = keyring
        BY <1>5 DEF Release
      <3>3. QED
        BY <3>1, <3>2 DEF UsedGrants
    <2>2. QED
      BY <1>0, <1>1, <1>5, <2>1 DEF Release, Forget
  <1>6. CASE ExchangeLost(p) \/ Crash(p)
    BY <1>0, <1>6 DEF ExchangeLost, Crash
  <1>7. CASE UNCHANGED grants
    BY <1>1, <1>7
  <1>8. QED
    BY <1>2, <1>3, <1>4, <1>5, <1>6, <1>7
       DEF Acts, Start, Step, StartRefresh, StartLogin, StartLogout, Claim, Contended, upstream,
           LoadCredential, ExchangeRejected, Gate, CurrentRecord, Adopt, Recheck, PostRefused,
           LoadExisting, SetSlot, Sweep, ReadClientFence, Commit, CommitRejected, Rollback,
           UnmarkCommitted, DropLegacy, DropPrevious, InvalidateLoad, Mark, InvalidateClear,
           InvalidateSlot, InvalidateLegacy, InvalidateUnmark, LogoutRead, LogoutSlot,
           LogoutClear, LogoutLegacy, LogoutUnmark, Consent, Fails, ScopeMismatch

LEMMA SpentStep ==
    ASSUME Core, Serial, Masked, Undisturbed, NoSpentGrant, [Next]_vars
    PROVE  NoSpentGrant'
  <1> USE DEF Core
  <1> SUFFICES ASSUME faults' = 0, LiveGrant' # 0, grants'[LiveGrant'] = 0
               PROVE  \E q \in Proc : Replacement(call'[q])
    BY DEF NoSpentGrant, Replacement
  <1>0. faults = 0 /\ ~stalled /\ ~Fault
    <2>1. faults = 0
      BY FaultStep DEF Shape
    <2>2. QED
      BY <2>1, FaultFree DEF Undisturbed
  <1>1. ASSUME LiveGrant' = LiveGrant, grants[LiveGrant] = 0
        PROVE  \E q \in Proc : Replacement(call[q])
    BY <1>0, <1>1 DEF NoSpentGrant, Replacement
  <1>2. ASSUME NEW p \in Proc, Acts(p)
        PROVE  \E q \in Proc : Replacement(call'[q])
    <2> DEFINE c == call[p]
    <2>0. /\ c \in CallType /\ Local(c) /\ Mine(c, keyring, grants) /\ fence \in FenceType
          /\ Intact(c, keyring, grants, retired) /\ "refresh" \in Kind /\ Only(p)
      BY <1>0, <1>2, OwnCall DEF Shape, Private, Undisturbed, Kind
    <2>1. ~(Commit(p) /\ c.kind = "refresh")
      <3>1. SUFFICES ASSUME Commit(p), c.kind = "refresh" PROVE FALSE
        OBVIOUS
      <3>2. /\ fence' = [fence EXCEPT !["refresh"] = [gen |-> c.fgen, slot |-> c.slot]]
            /\ c.at = "commit" /\ UNCHANGED <<keyring, grants>>
        BY <3>1 DEF Commit, At, upstream
      <3>3. fence'["refresh"].slot = c.slot /\ c.slot # 0
        BY <2>0, <3>2 DEF FenceType, Local
      <3>4. LiveGrant' = keyring[<<"refresh", c.slot>>]
        BY <3>2, <3>3 DEF LiveGrant, Committed
      <3>5. LiveGrant' = c.tok /\ grants[c.tok] # 0
        BY <2>0, <3>1, <3>2, <3>4 DEF Intact
      <3>6. QED
        BY <3>2, <3>5
    <2>2. LiveGrant' = LiveGrant
      BY <1>0, <1>2, <2>1, LiveStep
    <2>3. CASE grants[LiveGrant] # 0
      BY <1>2, <2>2, <2>3, SpendStep
    <2>4. CASE grants[LiveGrant] = 0
      <3>1. PICK q \in Proc : Replacement(call[q])
        BY <1>1, <2>2, <2>4
      <3>2. CASE q = p
        BY <1>0, <1>2, <2>1, <3>1, <3>2, ReplacementStep
      <3>3. CASE q # p
        BY <2>0, <3>1, <3>3 DEF Only
      <3>4. QED
        BY <3>2, <3>3
    <2>5. QED
      BY <2>3, <2>4
  <1>3. CASE (Environs \/ UNCHANGED vars) /\ UNCHANGED <<call, fence, marker, keyring>>
    <2>1. UNCHANGED grants
      BY <1>0, <1>3 DEF Environs, Lapse, Stall, Expire, Revoke, upstream, vars
    <2>2. LiveGrant' = LiveGrant
      BY <1>3 DEF LiveGrant, Committed
    <2>3. QED
      BY <1>1, <1>3, <2>1, <2>2
  <1>4. QED
    BY <1>2, <1>3, NextForms DEF vars, store

-----------------------------------------------------------------------------
(* The invariant, and what follows from it.                                *)

LEMMA InvInit == Init => IInv
  <1> SUFFICES ASSUME Init PROVE IInv
    OBVIOUS
  <1>1. Core
    BY CoreInit
  <1>2. \A p \in Proc : call[p] = NoCall
    BY DEF Init
  <1>3. \A p \in Proc : call[p].at = "idle" /\ call[p].next = "idle" /\ call[p].op = "none"
    BY <1>2, NoCallFields
  <1>4. ClientKnown
    BY <1>3 DEF ClientKnown, Known
  <1>5. Serial
    BY <1>3 DEF Serial, AtWork, Resting
  <1>6. Masked /\ HolderPaired
    BY <1>3 DEF Masked, MaskedAt, Registering, HolderPaired, Granting
  <1>7. Undisturbed
    BY <1>3 DEF Undisturbed, Intact, Registering, Init
  <1>8. GrantMatchesClient /\ NoSpentGrant
    <2>1. PICK legacy \in {0, 1} :
             /\ keyring = [l \in Label |-> IF l[2] = 0 THEN legacy ELSE 0]
             /\ grants = [g \in 1..MaxGrant |-> IF g = 1 THEN legacy ELSE 0]
      BY DEF Init
    <2>2. \A k \in Kind : fence[k].slot = 0 /\ <<k, 0>> \in Label
      BY Bounds DEF Init, Label
    <2>3. "refresh" \in Kind /\ "client" \in Kind /\ 1 \in 1..MaxGrant
      BY Bounds DEF Kind
    <2>4. keyring[<<"refresh", 0>>] = legacy /\ keyring[<<"client", 0>>] = legacy
      BY <2>1, <2>2, <2>3
    <2>5. LiveGrant \in {0, legacy} /\ Committed("client") = legacy
      BY <2>2, <2>3, <2>4 DEF LiveGrant, Committed
    <2>6. legacy = 1 => grants[1] = 1
      BY <2>1, <2>3
    <2>7. QED
      BY <2>5, <2>6 DEF GrantMatchesClient, NoSpentGrant
  <1>9. QED
    BY <1>1, <1>4, <1>5, <1>6, <1>7, <1>8 DEF IInv

LEMMA InvNext == IInv /\ [Next]_vars => IInv'
  <1> SUFFICES ASSUME IInv, [Next]_vars PROVE IInv'
    OBVIOUS
  <1> USE DEF IInv
  <1>1. Core'
    BY CoreNext
  <1>2. Shape /\ Private /\ Epochs /\ HolderView
    BY DEF Core
  <1>3. ClientKnown' /\ Serial' /\ Masked'
    BY <1>2, ClientKnownStep, SerialStep, MaskedStep
  <1>4. HolderPaired' /\ GrantMatchesClient'
    BY <1>2, PairedStep, MatchStep
  <1>5. Undisturbed' /\ NoSpentGrant'
    BY UndisturbedStep, SpentStep
  <1>6. QED
    BY <1>1, <1>3, <1>4, <1>5

\* The inductive invariant holds throughout, for any number of processes, faults
\* and stalls: the lease row and the calls agree, the holder's view of the fences
\* is right, fresh slots are not shared, a grant on its way to its commit goes
\* with the registered client.
THEOREM FenceInductive == Spec => []IInv
  BY InvInit, InvNext, PTL DEF Spec

\* NothingStranded: a slot that holds a secret is named by its fence, recorded
\* for retirement or in its writer's hands, whatever fails or stalls
\* (CommitCredentialFence and ClearCredentialFence record what they replace).
THEOREM SecretsAreReferred == Spec => []NothingStranded
  <1>1. IInv => NothingStranded
    BY DEF IInv, Core
  <1>2. QED
    BY <1>1, FenceInductive, PTL

\* LogoutLeavesNothing: a logout that reaches its last step in its epoch has left
\* no fence and no legacy secret (Logout, oauth/token.go).
THEOREM LogoutIsComplete == Spec => []LogoutLeavesNothing
  <1>1. IInv => LogoutLeavesNothing
    <2> SUFFICES ASSUME IInv, NEW p \in Proc, At(p, "outSweep"), Holds(p)
                 PROVE  /\ \A k \in Kind : fence[k].slot = 0 /\ keyring[<<k, 0>>] = 0
                        /\ LiveGrant = 0 /\ RegisteredClient = 0
      BY DEF LogoutLeavesNothing
    <2>1. View(call[p], fence, keyring, expired) /\ Mine(call[p], keyring, grants)
          /\ call[p].at = "outSweep"
      BY DEF IInv, Core, HolderView, Private, At
    <2>2. fence["refresh"].slot = 0 /\ fence["client"].slot = 0
      BY <2>1 DEF View
    <2>3. keyring[<<"refresh", 0>>] = 0 /\ keyring[<<"client", 0>>] = 0
      BY <2>1 DEF Mine
    <2>4. QED
      BY <2>2, <2>3 DEF Kind, LiveGrant, RegisteredClient, Committed
  <1>2. QED
    BY <1>1, FenceInductive, PTL

\* SingleRegistration: the registration is posted, in its epoch, only while no
\* usable client is stored (register, oauth/register.go).
THEOREM RegistrationIsSingle == Spec => []SingleRegistration
  <1>1. IInv => SingleRegistration
    <2> SUFFICES ASSUME IInv, NEW p \in Proc, At(p, "post"), Holds(p)
                 PROVE  RegisteredClient = 0
      BY DEF SingleRegistration
    <2>1. View(call[p], fence, keyring, expired) /\ call[p].at = "post"
      BY DEF IInv, Core, HolderView, At
    <2>2. QED
      BY <2>1 DEF View, RegisteredClient, Committed
  <1>2. QED
    BY <1>1, FenceInductive, PTL

\* GrantMatchesClient: the readable grant was issued to the registered client
\* (register, oauth/register.go: "never pairs the new client with a grant issued
\* under the old one"), a committed one even after a process outlived its lease.
THEOREM GrantsMatch == Spec => []GrantMatchesClient
  <1>1. IInv => GrantMatchesClient
    BY DEF IInv
  <1>2. QED
    BY <1>1, FenceInductive, PTL

\* NoSpentGrant: without faults a readable grant that is spent upstream is being
\* replaced by the refresh that spent it (refreshLocked, oauth/refresh.go).
THEOREM SpentIsReplaced == Spec => []NoSpentGrant
  <1>1. IInv => NoSpentGrant
    BY DEF IInv
  <1>2. QED
    BY <1>1, FenceInductive, PTL

\* NoResurrection: unless a process outlived its lease, a grant becomes readable
\* only by a commit; clearing the fence never brings back the legacy grant
\* (invalidateCredential, oauth/refresh.go, and Logout).
THEOREM NothingResurrected == Spec => NoResurrection
  <1>1. IInv /\ [Next]_vars =>
          [ LiveGrant' \notin {0, LiveGrant} /\ ~stalled'
            => fence'["refresh"].slot \notin {0, fence["refresh"].slot} ]_vars
    <2> SUFFICES ASSUME IInv, [Next]_vars, LiveGrant' \notin {0, LiveGrant}, ~stalled'
                 PROVE  fence'["refresh"].slot \notin {0, fence["refresh"].slot}
      OBVIOUS
    <2> USE DEF IInv, Core
    <2>1. ~stalled
      BY FlagStep
    <2>2. ASSUME NEW p \in Proc, Acts(p)
          PROVE  fence'["refresh"].slot \notin {0, fence["refresh"].slot}
      <3> DEFINE c == call[p]
      <3>0. c \in CallType /\ Local(c) /\ fence \in FenceType /\ "refresh" \in Kind
        BY DEF Shape, Private, Kind
      <3>1. Commit(p) /\ c.kind = "refresh"
        BY <2>1, <2>2, LiveStep
      <3>2. fence' = [fence EXCEPT !["refresh"] = [gen |-> c.fgen, slot |-> c.slot]]
            /\ c.at = "commit"
        BY <3>1 DEF Commit, At
      <3>3. fence'["refresh"].slot = c.slot /\ c.slot # 0
        BY <3>0, <3>2 DEF FenceType, Local
      <3>4. fence["refresh"].slot # c.slot
        BY <3>1, <3>3 DEF OwnSlot
      <3>5. QED
        BY <3>3, <3>4
    <2>3. CASE UNCHANGED <<fence, marker, keyring>>
      BY <2>3 DEF LiveGrant, Committed
    <2>4. QED
      BY <2>2, <2>3, NextForms DEF vars, store
  <1>2. QED
    BY <1>1, FenceInductive, PTL DEF Spec, NoResurrection
=============================================================================
