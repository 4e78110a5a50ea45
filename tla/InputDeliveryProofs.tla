------------------------ MODULE InputDeliveryProofs ------------------------
(***************************************************************************)
(* Proofs about InputDelivery, for any number of awaits and input          *)
(* requests, any answers, any lease duration and any number of faults.     *)
(***************************************************************************)
EXTENDS InputDelivery, WellFoundedInduction, TLAPS

\* The requests are handled in order: there is a first one.
LEMMA MinMember ==
    ASSUME NEW S \in SUBSET Request, S # {}
    PROVE  Min(S) \in S
  <1>1. S \subseteq Nat
    BY InputAssumption
  <1> DEFINE Less == OpToRel(<, Nat)
  <1>2. \A m, n \in Nat : m < n => <<m, n>> \in Less
    BY DEF OpToRel
  <1>3. IsWellFoundedOn(Less, Nat)
    BY NatLessThanWellFounded
  <1> HIDE DEF Less
  <1>4. \E n \in S : \A m \in S : ~ (<<m, n>> \in Less)
    BY <1>1, <1>3, WFMin
  <1>5. \E n \in S : \A m \in S : n =< m
    <2>1. PICK n \in S : \A m \in S : ~ (<<m, n>> \in Less)
      BY <1>4
    <2>2. ASSUME NEW m \in S PROVE n =< m
      <3>1. m \in Nat /\ n \in Nat
        BY <1>1
      <3>2. ~ (m < n)
        BY <1>2, <2>1, <3>1
      <3>3. QED
        BY <3>1, <3>2
    <2>3. QED
      BY <2>2
  <1>6. QED
    BY <1>5 DEF Min

CallState == [at : Working \union {"idle", "releasing"},
              input : [Request -> Value \union {NoValue}],
              live : SUBSET Request, todo : SUBSET Request,
              pending : SUBSET Request, gen : Nat, lost : BOOLEAN]
RunnerState == [at : {"idle", "fetched", "observing", "settling", "freeing"},
                status : Status, asks : SUBSET Request]
RowType == [status : Status, outstanding : SUBSET Request]
UpType == [status : Status, asks : SUBSET Request, asked : SUBSET Request,
           got : [Request -> SUBSET Value]]
Owner == Await \union {Runner}

-----------------------------------------------------------------------------
(* The inductive invariant.                                                *)

\* The loop over the answers, what precedes the update, and what follows it.
InLoop == {"loading", "reading", "recording", "checking"}
Before == InLoop \union {"rereading", "rechecking", "gating", "sending"}
After  == {"sent", "committing", "marking"}

\* What an await in state c may rely on, given the recorded answers and what
\* upstream got: it has an answer for everything it still has to handle; the
\* answers it is about to send are the recorded ones, the ones it is about to
\* mark are upstream.
Sound(c, recorded, got) ==
    /\ c.at \in InLoop => c.todo # {}
    /\ c.at \in {"gating", "sending"} \union After => c.pending # {}
    /\ c.at \in Before =>
          /\ \A r \in c.todo \union c.pending : c.input[r] # NoValue
          /\ \A r \in c.pending : recorded[r] = c.input[r]
    /\ c.at = "checking" => recorded[Min(c.todo)] = c.input[Min(c.todo)]
    /\ c.at \in After => \A r \in c.pending : got[r] # {}

AwaitsSound == \A a \in Await : Sound(call[a], responses, up.got)

\* Unless somebody has stalled past it, the lease is held by whoever is at work.
HoldsLease ==
    ~ stalled =>
        /\ \A a \in Await : call[a].at # "idle" => Live(delivery, a)
        /\ runner.at \in {"observing", "settling", "freeing"} => Live(delivery, Runner)

\* So what pendingOutstanding has read stays true.
ReadHolds ==
    ~ stalled =>
        \A a \in Await :
            /\ call[a].at \in {"rechecking", "gating", "sending"} =>
                  /\ row.status = "input_required"
                  /\ call[a].pending \subseteq row.outstanding
            /\ call[a].at \in {"gating", "sending"} => call[a].pending \cap sent = {}

IInv ==
    /\ TypeOK /\ AwaitsSound /\ HoldsLease /\ ReadHolds
    /\ AnswersAgree /\ MarkedWasDelivered

-----------------------------------------------------------------------------
(* Types.                                                                  *)

LEMMA TypeParts ==
    TypeOK <=> /\ row \in RowType /\ responses \in [Request -> Value \union {NoValue}]
               /\ sent \subseteq Request /\ delivery \in LeaseRow(Owner) /\ up \in UpType
               /\ call \in [Await -> CallState] /\ runner \in RunnerState
               /\ stalled \in BOOLEAN /\ faults \in 0..MaxFaults
  BY DEF TypeOK, RowType, UpType, CallState, RunnerState, Owner

\* The statements of lease.go keep the lease row well typed.
LEMMA LeaseTypes ==
    ASSUME NEW r \in LeaseRow(Owner), NEW o \in Owner
    PROVE  /\ ClaimLease(r, o, 0) \in LeaseRow(Owner)
           /\ RenewLease(r, 0) \in LeaseRow(Owner)
           /\ ReleaseLease(r, o) \in LeaseRow(Owner)
           /\ Elapse(r) \in LeaseRow(Owner)
  BY TTLAssumption
     DEF NoLease, LeaseRow, ClaimLease, RenewLease, ReleaseLease, Elapse

LEMMA IdleType == Idle \in CallState /\ Done \in CallState
  <1>1. [r \in Request |-> NoValue] \in [Request -> Value \union {NoValue}]
    OBVIOUS
  <1>2. QED
    BY <1>1 DEF Idle, Done, CallState

LEMMA ClaimType ==
    ASSUME NEW input \in Input
    PROVE  LET c == [Idle EXCEPT !.at = "loading", !.input = input, !.todo = Answered(input)] IN
           /\ c \in CallState
           /\ c.at = "loading" /\ c.input = input /\ c.todo = Answered(input) /\ c.pending = {}
  <1>1. input \in [Request -> Value \union {NoValue}] /\ Answered(input) \in SUBSET Request
    BY InputAssumption DEF Answered
  <1>2. Idle \in CallState /\ Idle.pending = {} /\ "loading" \in Working
    BY IdleType DEF Idle, Working
  <1>3. QED
    BY <1>1, <1>2 DEF CallState

LEMMA CallChanges ==
    ASSUME NEW c \in CallState
    PROVE  /\ \A w \in Working : [c EXCEPT !.at = w] \in CallState
           /\ \A L \in SUBSET Request : [c EXCEPT !.at = "reading", !.live = L] \in CallState
           /\ \A w \in Working, P \in SUBSET Request :
                 [c EXCEPT !.at = w, !.pending = P] \in CallState
           /\ \A P \in SUBSET Request : [c EXCEPT !.pending = P] \in CallState
           /\ \A n \in Nat : [c EXCEPT !.at = "sending", !.gen = n] \in CallState
           /\ \A i \in [Request -> Value \union {NoValue}] :
                 [c EXCEPT !.at = "sent", !.input = i] \in CallState
           /\ [c EXCEPT !.lost = TRUE] \in CallState
           /\ c.pending \subseteq Request /\ c.todo \subseteq Request
           /\ c.input \in [Request -> Value \union {NoValue}]
           /\ c.lost \in BOOLEAN
  <1>1. {"reading", "sending", "sent"} \subseteq Working
    BY DEF Working
  <1>2. QED
    BY <1>1 DEF CallState

LEMMA KeepType ==
    ASSUME NEW input \in [Request -> Value \union {NoValue}], NEW needed
    PROVE  /\ Keep(input, needed) \in [Request -> Value \union {NoValue}]
           /\ \A r \in Request \cap needed : Keep(input, needed)[r] = input[r]
  BY DEF Keep

\* After one answer, the loop goes on with the others and leaves it.
LEMMA OnwardForm ==
    ASSUME NEW c \in CallState, NEW P \in SUBSET Request
    PROVE  LET todo == c.todo \ {Min(c.todo)} IN
           /\ Onward(c, P) \in CallState
           /\ \/ Onward(c, P) = Done
              \/ /\ todo \union P # {}
                 /\ Onward(c, P).at = IF todo = {} THEN "rereading" ELSE "reading"
                 /\ Onward(c, P).todo = todo /\ Onward(c, P).pending = P
                 /\ Onward(c, P).input = Keep(c.input, todo \union P)
  <1> DEFINE todo == c.todo \ {Min(c.todo)}
             next == [at |-> IF todo = {} THEN "rereading" ELSE "reading",
                      input |-> Keep(c.input, todo \union P), live |-> c.live \cap todo,
                      todo |-> todo, pending |-> P, gen |-> c.gen, lost |-> c.lost]
  <1>1. CASE todo \union P = {}
    BY <1>1, IdleType DEF Onward
  <1>2. CASE todo \union P # {}
    <2>1. Onward(c, P) = [c EXCEPT !.at = IF todo = {} THEN "rereading" ELSE "reading",
                            !.input = Keep(c.input, todo \union P), !.live = c.live \cap todo,
                            !.todo = todo, !.pending = P]
      BY <1>2 DEF Onward
    <2>2. Keep(c.input, todo \union P) \in [Request -> Value \union {NoValue}]
      BY CallChanges, KeepType
    <2>3. (IF todo = {} THEN "rereading" ELSE "reading") \in Working
      BY DEF Working
    <2>4. todo \in SUBSET Request /\ c.live \cap todo \in SUBSET Request
      BY DEF CallState
    <2> HIDE DEF todo
    <2>5. Onward(c, P) = [at |-> IF todo = {} THEN "rereading" ELSE "reading",
                          input |-> Keep(c.input, todo \union P), live |-> c.live \cap todo,
                          todo |-> todo, pending |-> P, gen |-> c.gen, lost |-> c.lost]
      BY <2>1 DEF CallState
    <2>6. Onward(c, P) \in CallState
      BY <2>2, <2>3, <2>4, <2>5 DEF CallState
    <2>7. QED
      BY <1>2, <2>5, <2>6 DEF todo
  <1>3. QED
    BY <1>1, <1>2

\* The states an await can go to.
LEMMA GoTypes ==
    ASSUME NEW a \in Await, TypeOK
    PROVE  /\ \A n \in CallState : Go(a, n) => call' \in [Await -> CallState]
           /\ \A n : Go(a, n) => call'[a] = n /\ \A b \in Await : b # a => call'[b] = call[b]
  BY TypeParts DEF Go

\* Every step keeps the types.
LEMMA TypeOKStep == TypeOK /\ AwaitsSound /\ [Next]_vars => TypeOK'
  <1> SUFFICES ASSUME TypeOK, AwaitsSound, [Next]_vars PROVE TypeOK'
    OBVIOUS
  <1> USE DEF table, rest
  <1>0. /\ row \in RowType /\ responses \in [Request -> Value \union {NoValue}]
        /\ sent \subseteq Request /\ delivery \in LeaseRow(Owner) /\ up \in UpType
        /\ call \in [Await -> CallState] /\ runner \in RunnerState
        /\ stalled \in BOOLEAN /\ faults \in 0..MaxFaults
    BY TypeParts
  <1>a. ASSUME /\ row' \in RowType /\ responses' \in [Request -> Value \union {NoValue}]
               /\ sent' \subseteq Request /\ delivery' \in LeaseRow(Owner) /\ up' \in UpType
               /\ call' \in [Await -> CallState] /\ runner' \in RunnerState
               /\ stalled' \in BOOLEAN /\ faults' \in 0..MaxFaults
        PROVE  TypeOK'
    BY <1>a DEF TypeOK, RowType, UpType, CallState, RunnerState, Owner
  <1>b. ASSUME Fault PROVE faults' \in 0..MaxFaults
    BY <1>0, <1>b, InputAssumption DEF Fault
  <1>c. ASSUME NEW a \in Await
        PROVE  /\ call[a] \in CallState /\ call[a].pending \subseteq Request
               /\ call[a].todo \subseteq Request
               /\ call[a].input \in [Request -> Value \union {NoValue}]
               /\ a \in Owner
    BY <1>0, <1>c, CallChanges DEF Owner
  <1>d. ASSUME NEW a \in Await, NEW n \in CallState, Go(a, n) PROVE call' \in [Await -> CallState]
    BY <1>d, GoTypes
  <1>1. ASSUME NEW a \in Await, NEW input \in Input, Claim(a, input) PROVE TypeOK'
    <2>1. delivery' \in LeaseRow(Owner)
      BY <1>0, <1>1, <1>c, LeaseTypes DEF Claim
    <2>2. call' \in [Await -> CallState]
      BY <1>1, <1>d, ClaimType DEF Claim
    <2>3. QED
      BY <1>0, <1>1, <1>a, <2>1, <2>2 DEF Claim
  <1>2. ASSUME NEW a \in Await, Load(a) PROVE TypeOK'
    <2>1. (IF row.status = "input_required" THEN row.outstanding ELSE {}) \in SUBSET Request
      BY <1>0 DEF RowType
    <2>2. call' \in [Await -> CallState]
      BY <1>2, <1>c, <1>d, <2>1, CallChanges DEF Load
    <2>3. QED
      BY <1>0, <1>2, <1>a, <2>2 DEF Load
  <1>3. ASSUME NEW a \in Await, Read(a) PROVE TypeOK'
    <2>1. /\ [call[a] EXCEPT !.at = "recording"] \in CallState
          /\ [call[a] EXCEPT !.at = "checking"] \in CallState
          /\ Onward(call[a], call[a].pending) \in CallState /\ Done \in CallState
      BY <1>c, CallChanges, OnwardForm, IdleType DEF Working
    <2>2. call' \in [Await -> CallState]
      BY <1>3, <1>d, <2>1 DEF Read
    <2>3. QED
      BY <1>0, <1>3, <1>a, <2>2 DEF Read
  <1>4. ASSUME NEW a \in Await, Record(a) PROVE TypeOK'
    <2>1. [call[a] EXCEPT !.at = "checking"] \in CallState /\ Done \in CallState
      BY <1>c, CallChanges, IdleType DEF Working
    <2>2. call' \in [Await -> CallState]
      BY <1>4, <1>d, <2>1 DEF Record
    <2>3. responses' \in [Request -> Value \union {NoValue}]
      <3>1. \A r \in Request : call[a].input[r] \in Value \union {NoValue}
        BY <1>c
      <3>2. QED
        BY <1>0, <1>4, <3>1 DEF Record
    <2>4. QED
      BY <1>0, <1>4, <1>a, <2>2, <2>3 DEF Record
  <1>5. ASSUME NEW a \in Await, Check(a) PROVE TypeOK'
    <2> DEFINE r == Min(call[a].todo)
               P == IF r \in sent THEN call[a].pending ELSE call[a].pending \union {r}
    <2>1. r \in Request
      <3>1. call[a].todo # {}
        BY <1>5 DEF Check, AwaitsSound, Sound, InLoop
      <3>2. QED
        BY <1>c, <3>1, MinMember
    <2>2. P \in SUBSET Request
      BY <1>c, <2>1
    <2>3. Onward(call[a], P) \in CallState
      BY <1>c, <2>2, OnwardForm
    <2>4. Go(a, Onward(call[a], P))
      BY <1>5 DEF Check
    <2>5. QED
      BY <1>0, <1>5, <1>a, <1>d, <2>3, <2>4 DEF Check
  <1>6. ASSUME NEW a \in Await, Reread(a) \/ Recheck(a) PROVE TypeOK'
    <2>1. /\ [call[a] EXCEPT !.at = "rechecking",
                             !.pending = call[a].pending \cap row.outstanding] \in CallState
          /\ [call[a] EXCEPT !.at = "gating", !.pending = call[a].pending \ sent] \in CallState
      BY <1>c, CallChanges DEF Working
    <2>2. call' \in [Await -> CallState]
      BY <1>6, <1>d, <2>1, IdleType DEF Reread, Recheck
    <2>3. QED
      BY <1>0, <1>6, <1>a, <2>2 DEF Reread, Recheck
  <1>7. ASSUME NEW a \in Await, Gate(a) PROVE TypeOK'
    <2>1. delivery.gen \in Nat
      BY <1>0 DEF LeaseRow
    <2>2. call' \in [Await -> CallState]
      BY <1>7, <1>c, <1>d, <2>1, CallChanges, IdleType DEF Gate
    <2>3. QED
      BY <1>0, <1>7, <1>a, <2>2 DEF Gate
  <1>8. ASSUME NEW a \in Await, Send(a) PROVE TypeOK'
    <2>1. call' \in [Await -> CallState]
      <3>1. Keep(call[a].input, {}) \in [Request -> Value \union {NoValue}]
        BY <1>c, KeepType
      <3>2. [call[a] EXCEPT !.at = "sent", !.input = Keep(call[a].input, {})] \in CallState
        BY <1>c, <3>1, CallChanges
      <3>3. QED
        BY <1>8, <1>d, <3>2, IdleType DEF Send
    <2>2. up' \in UpType
      <3>1. CASE up' = up
        BY <1>0, <3>1
      <3>2. CASE up.status # "ended"
        <4> DEFINE given == call[a].pending
                   got == [r \in Request |-> IF r \in given
                              THEN up.got[r] \union {call[a].input[r]} ELSE up.got[r]]
        <4>1. got \in [Request -> SUBSET Value]
          <5>1. \A r \in given : call[a].input[r] \in Value
            BY <1>8, <1>c DEF Send, AwaitsSound, Sound, Before
          <5>2. \A r \in Request : up.got[r] \in SUBSET Value
            BY <1>0 DEF UpType
          <5>3. QED
            BY <5>1, <5>2
        <4>2. up' = [up EXCEPT !.asks = up.asks \ given,
                       !.status = IF up.asks \ given = {} THEN "running" ELSE up.status,
                       !.got = got]
          BY <1>8, <3>2 DEF Send
        <4>3. up.asks \ given \in SUBSET Request
          BY <1>0 DEF UpType
        <4>4. (IF up.asks \ given = {} THEN "running" ELSE up.status) \in Status
          BY <1>0 DEF UpType, Status
        <4> HIDE DEF got, given
        <4>5. QED
          BY <1>0, <4>1, <4>2, <4>3, <4>4 DEF UpType
      <3>3. QED
        BY <1>8, <3>1, <3>2 DEF Send
    <2>3. QED
      BY <1>0, <1>8, <1>a, <2>1, <2>2 DEF Send
  <1>9. ASSUME NEW a \in Await, Acknowledged(a) \/ Commit(a) PROVE TypeOK'
    <2>1. /\ [call[a] EXCEPT !.at = "committing"] \in CallState
          /\ [call[a] EXCEPT !.at = "marking"] \in CallState
      BY <1>c, CallChanges DEF Working
    <2>2. call' \in [Await -> CallState]
      BY <1>9, <1>d, <2>1, IdleType DEF Acknowledged, Commit
    <2>3. QED
      BY <1>0, <1>9, <1>a, <2>2 DEF Acknowledged, Commit
  <1>10. ASSUME NEW a \in Await, Mark(a) PROVE TypeOK'
    <2>1. Min(call[a].pending) \in Request
      <3>1. call[a].pending # {}
        BY <1>10 DEF Mark, AwaitsSound, Sound, After
      <3>2. QED
        BY <1>c, <3>1, MinMember
    <2>2. [call[a] EXCEPT !.pending = call[a].pending \ {Min(call[a].pending)}] \in CallState
      BY <1>c, CallChanges
    <2>3. call' \in [Await -> CallState]
      BY <1>10, <1>d, <2>2, IdleType DEF Mark
    <2>4. QED
      BY <1>0, <1>10, <1>a, <2>1, <2>3 DEF Mark
  <1>11. ASSUME NEW a \in Await, Release(a) PROVE TypeOK'
    <2>1. delivery' \in LeaseRow(Owner)
      BY <1>0, <1>11, <1>c, LeaseTypes DEF Release
    <2>2. QED
      BY <1>0, <1>11, <1>a, <1>d, <2>1, IdleType DEF Release
  <1>12. ASSUME NEW a \in Await, Renew(a) PROVE TypeOK'
    <2>1. delivery' \in LeaseRow(Owner)
      <3>1. RenewLease(delivery, 0) \in LeaseRow(Owner)
        BY <1>0, <1>c, LeaseTypes
      <3>2. QED
        BY <1>0, <1>12, <3>1 DEF Renew
    <2>2. call' \in [Await -> CallState]
      BY <1>0, <1>12, <1>c, <1>d, CallChanges DEF Renew
    <2>3. QED
      BY <1>0, <1>12, <1>a, <2>1, <2>2 DEF Renew
  <1>13. ASSUME NEW a \in Await, Lose(a) \/ CancelUpdate(a) \/ StoreBusy(a) \/ Crash(a)
         PROVE TypeOK'
    <2>1. call' \in [Await -> CallState]
      BY <1>13, <1>c, <1>d, CallChanges, IdleType
         DEF Lose, AfterLoss, CancelUpdate, StoreBusy, Crash
    <2>2. QED
      BY <1>0, <1>13, <1>a, <1>b, <2>1 DEF Lose, CancelUpdate, StoreBusy, Crash
  <1>14. CASE RunnerStep \/ RunnerCrash
    <2>1. RunnerIdle \in RunnerState /\ [RunnerIdle EXCEPT !.at = "freeing"] \in RunnerState
      BY DEF RunnerIdle, RunnerState, Status
    <2>2. runner' \in RunnerState
      BY <1>0, <1>14, <2>1
         DEF RunnerStep, RunnerCrash, Fetch, ClaimSnapshot, Observe, Settle, Free, RunnerState,
             UpType
    <2>3. row' \in RowType
      BY <1>0, <1>14
         DEF RunnerStep, RunnerCrash, Fetch, ClaimSnapshot, Observe, Settle, Free, RunnerState,
             RowType
    <2>4. delivery' \in LeaseRow(Owner)
      <3>1. Runner \in Owner
        BY DEF Owner
      <3>2. /\ ClaimLease(delivery, Runner, 0) \in LeaseRow(Owner)
            /\ ReleaseLease(delivery, Runner) \in LeaseRow(Owner)
        BY <1>0, <3>1, LeaseTypes
      <3>3. QED
        BY <1>0, <1>14, <3>2
           DEF RunnerStep, RunnerCrash, Fetch, ClaimSnapshot, Observe, Settle, Free
    <2>5. QED
      BY <1>0, <1>14, <1>a, <1>b, <2>2, <2>3, <2>4
         DEF RunnerStep, RunnerCrash, Fetch, ClaimSnapshot, Observe, Settle, Free
  <1>15. CASE Lapse
    <2>1. Elapse(delivery) \in LeaseRow(Owner)
      <3>1. Runner \in Owner
        BY DEF Owner
      <3>2. QED
        BY <1>0, <3>1, LeaseTypes
    <2>2. QED
      BY <1>0, <1>15, <1>a, <1>b, <2>1 DEF Lapse
  <1>16. ASSUME NEW asks \in SUBSET Request, Ask(asks) \/ End PROVE TypeOK'
    <2>1. up' \in UpType
      BY ZenonT(40), <1>0, <1>16 DEF Ask, End, UpType, Status
    <2>2. QED
      BY <1>0, <1>16, <1>a, <2>1 DEF Ask, End
  <1>17. CASE UNCHANGED vars
    BY <1>0, <1>17, <1>a DEF vars
  <1>18. QED
    BY <1>1, <1>2, <1>3, <1>4, <1>5, <1>6, <1>7, <1>8, <1>9, <1>10, <1>11, <1>12, <1>13,
       <1>14, <1>15, <1>16, <1>17 DEF Next, Awaits, Work

-----------------------------------------------------------------------------
(* What a step can do to the answers.                                      *)

\* Only Record records, and only where nothing was.
LEMMA RecordedStep ==
    ASSUME TypeOK, [Next]_vars, NEW r \in Request, responses[r] # NoValue
    PROVE  responses'[r] = responses[r]
  <1>0. responses \in [Request -> Value \union {NoValue}]
    BY TypeParts
  <1>1. ASSUME NEW a \in Await, Record(a) PROVE responses'[r] = responses[r]
    BY <1>0, <1>1 DEF Record
  <1>2. CASE UNCHANGED responses
    BY <1>2
  <1>3. QED
    BY <1>1, <1>2
       DEF Next, Awaits, Work, RunnerStep, vars, table, Claim, Load, Read, Check, Reread, Recheck,
           Gate, Send, Acknowledged, Commit, Mark, Release, Renew, Lose, CancelUpdate,
           StoreBusy, Crash, Fetch, ClaimSnapshot, Observe, Settle, Free, RunnerCrash, Lapse,
           End, Ask

\* Only Send gives something to upstream.
LEMMA GotStep ==
    ASSUME TypeOK, [Next]_vars
    PROVE  \/ up'.got = up.got
           \/ \E a \in Await :
                 /\ call[a].at = "sending"
                 /\ up'.got = [r \in Request |-> IF r \in call[a].pending
                                  THEN up.got[r] \union {call[a].input[r]} ELSE up.got[r]]
                 /\ UNCHANGED responses
  <1>0. up \in UpType
    BY TypeParts
  <1>1. ASSUME NEW a \in Await, Send(a)
        PROVE  \/ up'.got = up.got
               \/ /\ call[a].at = "sending"
                  /\ up'.got = [r \in Request |-> IF r \in call[a].pending
                                   THEN up.got[r] \union {call[a].input[r]} ELSE up.got[r]]
                  /\ UNCHANGED responses
    <2>1. CASE up.status = "ended"
      BY <1>1, <2>1 DEF Send
    <2>2. CASE up.status # "ended"
      <3> DEFINE got == [r \in Request |-> IF r \in call[a].pending
                            THEN up.got[r] \union {call[a].input[r]} ELSE up.got[r]]
                 asks == up.asks \ call[a].pending
      <3>1. up' = [up EXCEPT !.asks = asks,
                     !.status = IF asks = {} THEN "running" ELSE up.status, !.got = got]
        BY <1>1, <2>2 DEF Send
      <3> HIDE DEF got, asks
      <3>2. up'.got = got
        BY <1>0, <3>1 DEF UpType
      <3>3. QED
        BY <1>1, <3>2 DEF Send, table, got
    <2>3. QED
      BY <2>1, <2>2
  <1>2. ASSUME NEW asks \in SUBSET Request, Ask(asks) \/ End PROVE up'.got = up.got
    BY <1>0, <1>2 DEF Ask, End, UpType
  <1>3. QED
    BY <1>1, <1>2
       DEF Next, Awaits, Work, RunnerStep, vars, Claim, Load, Read, Record, Check, Reread,
           Recheck, Gate, Acknowledged, Commit, Mark, Release, Renew, Lose, CancelUpdate,
           StoreBusy, Crash, Fetch, ClaimSnapshot, Observe, Settle, Free, RunnerCrash, Lapse

\* What an await relies on stays true as answers are added.
LEMMA SoundGrows ==
    ASSUME NEW c \in CallState, NEW rec, NEW more, NEW got, NEW given, Sound(c, rec, got),
           \A r \in Request : rec[r] # NoValue => more[r] = rec[r],
           \A r \in Request : got[r] # {} => given[r] # {}
    PROVE  Sound(c, more, given)
  <1>1. c.todo \subseteq Request /\ c.pending \subseteq Request
    BY CallChanges
  <1>2. c.at = "checking" => more[Min(c.todo)] = c.input[Min(c.todo)]
    <2> SUFFICES ASSUME c.at = "checking" PROVE more[Min(c.todo)] = c.input[Min(c.todo)]
      OBVIOUS
    <2>1. Min(c.todo) \in c.todo
      BY <1>1, MinMember DEF Sound, InLoop
    <2>2. c.input[Min(c.todo)] # NoValue
      BY <2>1 DEF Sound, Before, InLoop
    <2>3. QED
      BY <1>1, <2>1, <2>2 DEF Sound
  <1>3. c.at \in Before => \A r \in c.pending : more[r] = c.input[r]
    BY <1>1 DEF Sound
  <1>4. c.at \in After => \A r \in c.pending : given[r] # {}
    BY <1>1 DEF Sound
  <1>5. QED
    BY <1>2, <1>3, <1>4 DEF Sound

\* An await that is not at work relies on nothing.
LEMMA SoundRest ==
    ASSUME NEW rec, NEW got PROVE Sound(Idle, rec, got) /\ Sound(Done, rec, got)
  BY DEF Sound, Idle, Done, InLoop, Before, After

\* An answer that is recorded as the await has it may be left to the update.
LEMMA SoundOnward ==
    ASSUME NEW c \in CallState, NEW rec, NEW got, Sound(c, rec, got),
           c.at \in {"reading", "checking"},
           rec[Min(c.todo)] = c.input[Min(c.todo)],
           NEW P \in {c.pending, c.pending \union {Min(c.todo)}}
    PROVE  Sound(Onward(c, P), rec, got)
  <1> DEFINE n == Onward(c, P)
             todo == c.todo \ {Min(c.todo)}
  <1>1. /\ c.todo \subseteq Request /\ c.pending \subseteq Request
        /\ c.input \in [Request -> Value \union {NoValue}]
        /\ Min(c.todo) \in c.todo
        /\ \A r \in c.todo \union c.pending : c.input[r] # NoValue
        /\ \A r \in c.pending : rec[r] = c.input[r]
    BY CallChanges, MinMember DEF Sound, InLoop, Before
  <1>2. P \in SUBSET Request /\ P \subseteq c.todo \union c.pending
        /\ \A r \in P : rec[r] = c.input[r]
    BY <1>1
  <1>3. CASE n = Done
    BY <1>3, SoundRest
  <1>4. CASE /\ todo \union P # {}
             /\ n.at = IF todo = {} THEN "rereading" ELSE "reading"
             /\ n.todo = todo /\ n.pending = P
             /\ n.input = Keep(c.input, todo \union P)
    <2>1. \A r \in todo \union P : n.input[r] = c.input[r]
      BY <1>1, <1>2, <1>4, KeepType
    <2> HIDE DEF n
    <2>2. n.at \in InLoop => n.todo # {}
      BY <1>4 DEF InLoop
    <2>3. n.at \in {"reading", "rereading"}
      BY <1>4
    <2>4. \A r \in n.todo \union n.pending : n.input[r] # NoValue
      BY <1>1, <1>2, <1>4, <2>1
    <2>5. \A r \in n.pending : rec[r] = n.input[r]
      BY <1>2, <1>4, <2>1
    <2>6. Sound(n, rec, got)
      BY <2>2, <2>3, <2>4, <2>5 DEF Sound, After
    <2>7. QED
      BY <2>6 DEF n
  <1>5. QED
    BY ZenonT(40), <1>2, <1>3, <1>4, OnwardForm

-----------------------------------------------------------------------------
(* Every step keeps each part.                                             *)

\* Moving on without a change of the answers in hand.
LEMMA SoundMove ==
    ASSUME NEW c \in CallState, NEW rec, NEW got, Sound(c, rec, got)
    PROVE  /\ \A w \in {"recording"} : c.at = "reading" => Sound([c EXCEPT !.at = w], rec, got)
           /\ \A L : c.at = "loading" =>
                 Sound([c EXCEPT !.at = "reading", !.live = L], rec, got)
           /\ c.at \in {"reading", "recording"} /\ rec[Min(c.todo)] = c.input[Min(c.todo)] =>
                 Sound([c EXCEPT !.at = "checking"], rec, got)
           /\ \A P \in SUBSET c.pending : c.at = "rereading" =>
                 Sound([c EXCEPT !.at = "rechecking", !.pending = P], rec, got)
           /\ \A P \in SUBSET c.pending : c.at = "rechecking" /\ P # {} =>
                 Sound([c EXCEPT !.at = "gating", !.pending = P], rec, got)
           /\ \A n : c.at = "gating" => Sound([c EXCEPT !.at = "sending", !.gen = n], rec, got)
           /\ c.at = "sent" => Sound([c EXCEPT !.at = "committing"], rec, got)
           /\ c.at = "committing" => Sound([c EXCEPT !.at = "marking"], rec, got)
           /\ \A P \in SUBSET c.pending : c.at = "marking" /\ P # {} =>
                 Sound([c EXCEPT !.pending = P], rec, got)
           /\ Sound([c EXCEPT !.lost = TRUE], rec, got)
  <1> USE DEF InLoop, Before, After
  <1>1. ASSUME NEW w \in {"recording"}, c.at = "reading" PROVE Sound([c EXCEPT !.at = w], rec, got)
    BY <1>1 DEF Sound, CallState
  <1>2. ASSUME NEW L, c.at = "loading"
        PROVE  Sound([c EXCEPT !.at = "reading", !.live = L], rec, got)
    BY <1>2 DEF Sound, CallState
  <1>3. ASSUME c.at \in {"reading", "recording"}, rec[Min(c.todo)] = c.input[Min(c.todo)]
        PROVE  Sound([c EXCEPT !.at = "checking"], rec, got)
    BY <1>3 DEF Sound, CallState
  <1>4. ASSUME NEW P \in SUBSET c.pending, c.at = "rereading"
        PROVE  Sound([c EXCEPT !.at = "rechecking", !.pending = P], rec, got)
    BY <1>4 DEF Sound, CallState
  <1>5. ASSUME NEW P \in SUBSET c.pending, c.at = "rechecking", P # {}
        PROVE  Sound([c EXCEPT !.at = "gating", !.pending = P], rec, got)
    BY <1>5 DEF Sound, CallState
  <1>6. ASSUME NEW n, c.at = "gating"
        PROVE  Sound([c EXCEPT !.at = "sending", !.gen = n], rec, got)
    BY <1>6 DEF Sound, CallState
  <1>7. ASSUME c.at = "sent" PROVE Sound([c EXCEPT !.at = "committing"], rec, got)
    BY <1>7 DEF Sound, CallState
  <1>8. ASSUME c.at = "committing" PROVE Sound([c EXCEPT !.at = "marking"], rec, got)
    BY <1>8 DEF Sound, CallState
  <1>9. ASSUME NEW P \in SUBSET c.pending, c.at = "marking", P # {}
        PROVE  Sound([c EXCEPT !.pending = P], rec, got)
    BY <1>9 DEF Sound, CallState
  <1>10. Sound([c EXCEPT !.lost = TRUE], rec, got)
    BY DEF Sound, CallState
  <1>11. QED
    BY <1>1, <1>2, <1>3, <1>4, <1>5, <1>6, <1>7, <1>8, <1>9, <1>10

LEMMA AwaitsSoundStep == TypeOK /\ AwaitsSound /\ [Next]_vars => AwaitsSound'
  <1> SUFFICES ASSUME TypeOK, AwaitsSound, [Next]_vars, NEW b \in Await
               PROVE  Sound(call'[b], responses', up'.got)
    BY DEF AwaitsSound
  <1> DEFINE Goal == Sound(call'[b], responses', up'.got)
  <1> HIDE DEF Goal
  <1> SUFFICES Goal
    BY DEF Goal
  <1>0. /\ call \in [Await -> CallState] /\ up \in UpType
        /\ responses \in [Request -> Value \union {NoValue}]
        /\ \A a \in Await : call[a] \in CallState /\ Sound(call[a], responses, up.got)
    BY TypeParts DEF AwaitsSound
  <1>a. /\ \A r \in Request : responses[r] # NoValue => responses'[r] = responses[r]
        /\ \A r \in Request : up.got[r] # {} => up'.got[r] # {}
    BY RecordedStep, GotStep
  <1>b. ASSUME call'[b] = call[b] PROVE Goal
    BY <1>0, <1>a, <1>b, SoundGrows DEF Goal
  <1>c. ASSUME NEW c \in CallState, Sound(c, responses, up.got), call'[b] = c PROVE Goal
    BY <1>a, <1>c, SoundGrows DEF Goal
  <1>d. ASSUME call'[b] = Idle \/ call'[b] = Done PROVE Goal
    BY <1>d, SoundRest DEF Goal
  <1>e. ASSUME NEW a \in Await, NEW n, Go(a, n) PROVE b # a => Goal
    BY <1>b, <1>e, GoTypes
  <1>f. ASSUME NEW n, Go(b, n), n \in CallState /\ Sound(n, responses, up.got) PROVE Goal
    BY <1>c, <1>f, GoTypes
  <1>g. ASSUME Go(b, Idle) \/ Go(b, Done) PROVE Goal
    BY <1>d, <1>g, GoTypes
  <1>h. /\ Idle \in CallState /\ Done \in CallState
        /\ Sound(Idle, responses, up.got) /\ Sound(Done, responses, up.got)
    BY IdleType, SoundRest
  <1> DEFINE c == call[b]
  <1>i. /\ c \in CallState /\ Sound(c, responses, up.got)
        /\ c.todo \subseteq Request /\ c.pending \subseteq Request
    BY <1>0, CallChanges
  <1>1. ASSUME NEW input \in Input, Claim(b, input) PROVE Goal
    <2> DEFINE n == [Idle EXCEPT !.at = "loading", !.input = input, !.todo = Answered(input)]
    <2>1. n \in CallState /\ n.at = "loading" /\ n.input = input /\ n.todo = Answered(input)
          /\ n.pending = {}
      BY ClaimType
    <2>2. Answered(input) # {} /\ Go(b, n) /\ \A r \in Answered(input) : input[r] # NoValue
      BY <1>1 DEF Claim, Answered
    <2> HIDE DEF n
    <2>3. Sound(n, responses, up.got)
      BY <2>1, <2>2 DEF Sound, InLoop, Before, After
    <2>4. QED
      BY <1>f, <2>1, <2>2, <2>3
  <1>2. CASE Load(b)
    <2> DEFINE L == IF row.status = "input_required" THEN row.outstanding ELSE {}
    <2>1. L \in SUBSET Request
      BY TypeParts DEF RowType
    <2>2. Go(b, [c EXCEPT !.at = "reading", !.live = L]) /\ c.at = "loading"
      BY <1>2 DEF Load
    <2> HIDE DEF L
    <2>3. QED
      BY <1>f, <1>i, <2>1, <2>2, SoundMove, CallChanges
  <1>3. CASE Read(b)
    <2> DEFINE r == Min(c.todo)
    <2>1. c.at = "reading"
      BY <1>3 DEF Read
    <2>2. CASE Go(b, [c EXCEPT !.at = "recording"])
      <3>1. [c EXCEPT !.at = "recording"] \in CallState
        BY <1>i, CallChanges DEF Working
      <3>2. QED
        BY <1>f, <1>i, <2>1, <2>2, <3>1, SoundMove
    <2>3. CASE Go(b, Done)
      BY <1>g, <2>3
    <2>4. CASE responses[r] = c.input[r] /\ Go(b, [c EXCEPT !.at = "checking"])
      <3>1. [c EXCEPT !.at = "checking"] \in CallState
        BY <1>i, CallChanges DEF Working
      <3>2. QED
        BY <1>f, <1>i, <2>1, <2>4, <3>1, SoundMove
    <2>5. CASE responses[r] = c.input[r] /\ Go(b, Onward(c, c.pending))
      <3>1. Onward(c, c.pending) \in CallState
        BY <1>i, OnwardForm
      <3>2. Sound(Onward(c, c.pending), responses, up.got)
        BY <1>i, <2>1, <2>5, SoundOnward
      <3>3. QED
        BY <1>f, <2>5, <3>1, <3>2
    <2>6. QED
      BY <1>3, <2>2, <2>3, <2>4, <2>5 DEF Read
  <1>4. CASE Record(b)
    <2> DEFINE r == Min(c.todo)
               n == [c EXCEPT !.at = "checking"]
    <2>1. c.at = "recording" /\ n \in CallState
      BY <1>4, <1>i, CallChanges DEF Record, Working
    <2>2. r \in Request
      BY <1>i, <2>1, MinMember DEF Sound, InLoop
    <2>3. CASE responses[r] = NoValue
      <3>1. responses'[r] = c.input[r] /\ Go(b, n) /\ up'.got = up.got
        BY <1>0, <1>4, <2>2, <2>3 DEF Record
      <3>2. Sound(c, responses', up'.got)
        BY <1>a, <1>i, SoundGrows
      <3>3. Sound(n, responses', up'.got)
        BY <1>i, <2>1, <3>1, <3>2, SoundMove
      <3>4. QED
        BY <3>1, <3>3, GoTypes DEF Goal
    <2>4. CASE responses[r] # NoValue /\ responses[r] = c.input[r]
      <3>1. Go(b, n)
        BY <1>4, <2>4 DEF Record, RecordedBefore
      <3>2. QED
        BY <1>f, <1>i, <2>1, <2>4, <3>1, SoundMove
    <2>5. CASE responses[r] # NoValue /\ responses[r] # c.input[r]
      BY <1>4, <1>g, <2>5 DEF Record, RecordedBefore
    <2>6. QED
      BY <2>3, <2>4, <2>5
  <1>5. CASE Check(b)
    <2> DEFINE r == Min(c.todo)
               P == IF r \in sent THEN c.pending ELSE c.pending \union {r}
    <2>1. c.at = "checking" /\ Go(b, Onward(c, P))
      BY <1>5 DEF Check
    <2>2. r \in Request /\ responses[r] = c.input[r]
      BY <1>i, <2>1, MinMember DEF Sound, InLoop
    <2>3. P \in SUBSET Request /\ P \in {c.pending, c.pending \union {r}}
      BY <1>i, <2>2
    <2> HIDE DEF P
    <2>4. Onward(c, P) \in CallState /\ Sound(Onward(c, P), responses, up.got)
      BY <1>i, <2>1, <2>2, <2>3, OnwardForm, SoundOnward
    <2>5. QED
      BY <1>f, <2>1, <2>4
  <1>6. CASE Reread(b) \/ Recheck(b)
    <2>1. CASE Go(b, Done)
      BY <1>g, <2>1
    <2>2. CASE /\ c.at = "rereading"
               /\ Go(b, [c EXCEPT !.at = "rechecking", !.pending = c.pending \cap row.outstanding])
      <3>1. [c EXCEPT !.at = "rechecking", !.pending = c.pending \cap row.outstanding]
               \in CallState
        BY <1>i, CallChanges DEF Working
      <3>2. c.pending \cap row.outstanding \in SUBSET c.pending
        OBVIOUS
      <3>3. QED
        BY <1>f, <1>i, <2>2, <3>1, <3>2, SoundMove
    <2>3. CASE /\ c.at = "rechecking" /\ c.pending \ sent # {}
               /\ Go(b, [c EXCEPT !.at = "gating", !.pending = c.pending \ sent])
      <3>1. [c EXCEPT !.at = "gating", !.pending = c.pending \ sent] \in CallState
        BY <1>i, CallChanges DEF Working
      <3>2. c.pending \ sent \in SUBSET c.pending
        OBVIOUS
      <3>3. QED
        BY <1>f, <1>i, <2>3, <3>1, <3>2, SoundMove
    <2>4. QED
      BY <1>6, <2>1, <2>2, <2>3 DEF Reread, Recheck
  <1>7. CASE Gate(b)
    <2>1. delivery.gen \in Nat
      BY TypeParts DEF LeaseRow
    <2>2. [c EXCEPT !.at = "sending", !.gen = delivery.gen] \in CallState
      BY <1>i, <2>1, CallChanges
    <2>3. QED
      BY <1>7, <1>f, <1>g, <1>i, <2>2, SoundMove DEF Gate
  <1>8. CASE Send(b)
    <2>1. CASE up.status = "ended"
      BY <1>8, <1>g, <2>1 DEF Send
    <2>2. CASE up.status # "ended"
      <3> DEFINE n == [c EXCEPT !.at = "sent", !.input = Keep(c.input, {})]
      <3>1. Go(b, n) /\ c.at = "sending"
        BY <1>8, <2>2 DEF Send
      <3>2. n.at = "sent" /\ n.pending = c.pending
        BY <1>i DEF CallState
      <3>3. \A r \in c.pending : up'.got[r] # {}
        <4> DEFINE got == [r \in Request |-> IF r \in c.pending
                              THEN up.got[r] \union {c.input[r]} ELSE up.got[r]]
                   asks == up.asks \ c.pending
        <4>1. up' = [up EXCEPT !.asks = asks,
                       !.status = IF asks = {} THEN "running" ELSE up.status, !.got = got]
          BY <1>8, <2>2 DEF Send
        <4>2. \A r \in c.pending : got[r] # {}
          BY <1>i
        <4> HIDE DEF got, asks
        <4>3. up'.got = got
          BY <1>0, <4>1 DEF UpType
        <4>4. QED
          BY <4>2, <4>3
      <3>4. c.pending # {}
        BY <1>i, <3>1 DEF Sound
      <3> HIDE DEF n
      <3>5. Sound(n, responses', up'.got)
        BY <3>2, <3>3, <3>4 DEF Sound, InLoop, Before
      <3>6. QED
        BY <3>1, <3>5, GoTypes DEF Goal
    <2>3. QED
      BY <2>1, <2>2
  <1>9. CASE Acknowledged(b) \/ Commit(b)
    <2>1. /\ [c EXCEPT !.at = "committing"] \in CallState
          /\ [c EXCEPT !.at = "marking"] \in CallState
      BY <1>i, CallChanges DEF Working
    <2>2. QED
      BY <1>9, <1>f, <1>g, <1>i, <2>1, SoundMove DEF Acknowledged, Commit
  <1>10. CASE Mark(b)
    <2> DEFINE P == c.pending \ {Min(c.pending)}
    <2>1. Go(b, Done) \/ (P # {} /\ Go(b, [c EXCEPT !.pending = P]))
      <3>1. c.pending # {}
        BY <1>10, <1>i DEF Mark, Sound, After
      <3>2. QED
        BY <1>10, <3>1 DEF Mark
    <2>2. c.at = "marking" /\ P \in SUBSET c.pending /\ [c EXCEPT !.pending = P] \in CallState
      BY <1>10, <1>i, CallChanges DEF Mark
    <2> HIDE DEF P
    <2>3. QED
      BY <1>f, <1>g, <1>i, <2>1, <2>2, SoundMove
  <1>11. CASE Renew(b) \/ StoreBusy(b)
    <2>1. [c EXCEPT !.lost = TRUE] \in CallState /\ Sound([c EXCEPT !.lost = TRUE], responses, up.got)
      BY <1>i, CallChanges, SoundMove
    <2>2. QED
      BY <1>11, <1>b, <1>f, <1>g, <2>1 DEF Renew, StoreBusy
  <1>12. CASE Release(b) \/ Lose(b) \/ CancelUpdate(b) \/ Crash(b)
    BY <1>12, <1>g DEF Release, Lose, AfterLoss, CancelUpdate, Crash
  <1>13. ASSUME NEW a \in Await, a # b,
               \/ Work(a) \/ Renew(a) \/ Lose(a) \/ CancelUpdate(a) \/ StoreBusy(a) \/ Crash(a)
               \/ \E input \in Input : Claim(a, input)
         PROVE  Goal
    BY <1>13, <1>b, <1>e
       DEF Work, Claim, Load, Read, Record, Check, Reread, Recheck, Gate, Send, Acknowledged,
           Commit, Mark, Release, Renew, Lose, CancelUpdate, StoreBusy, Crash
  <1>14. CASE UNCHANGED call
    BY <1>14, <1>b
  <1>15. QED
    BY <1>1, <1>2, <1>3, <1>4, <1>5, <1>6, <1>7, <1>8, <1>9, <1>10, <1>11, <1>12, <1>13,
       <1>14
       DEF Next, Awaits, Work, RunnerStep, vars, Fetch, ClaimSnapshot, Observe, Settle, Free,
           RunnerCrash, Lapse, End, Ask, Goal

-----------------------------------------------------------------------------
(* The answers.                                                            *)

LEMMA AnswersAgreeStep ==
    TypeOK /\ AwaitsSound /\ AnswersAgree /\ [Next]_vars => AnswersAgree'
  <1> SUFFICES ASSUME TypeOK, AwaitsSound, AnswersAgree, [Next]_vars, NEW r \in Request
               PROVE  up'.got[r] \subseteq {responses'[r]}
    BY DEF AnswersAgree
  <1>1. /\ up.got[r] \subseteq {responses[r]} /\ up.got[r] \subseteq Value
        /\ NoValue \notin Value
    BY TypeParts, InputAssumption DEF AnswersAgree, UpType
  <1>2. CASE up'.got = up.got
    BY <1>1, <1>2, RecordedStep
  <1>3. ASSUME NEW a \in Await, call[a].at = "sending", UNCHANGED responses,
               up'.got = [q \in Request |-> IF q \in call[a].pending
                             THEN up.got[q] \union {call[a].input[q]} ELSE up.got[q]]
        PROVE  up'.got[r] \subseteq {responses'[r]}
    <2>1. Sound(call[a], responses, up.got)
      BY DEF AwaitsSound
    <2>2. r \in call[a].pending => call[a].input[r] = responses[r]
      BY <1>3, <2>1 DEF Sound, Before
    <2>3. QED
      BY <1>1, <1>3, <2>2
  <1>4. QED
    BY <1>2, <1>3, GotStep

LEMMA MarkedWasDeliveredStep ==
    TypeOK /\ AwaitsSound /\ MarkedWasDelivered /\ [Next]_vars => MarkedWasDelivered'
  <1> SUFFICES ASSUME TypeOK, AwaitsSound, MarkedWasDelivered, [Next]_vars, NEW r \in sent'
               PROVE  up'.got[r] # {}
    BY DEF MarkedWasDelivered
  <1>1. sent \subseteq Request
    BY TypeParts
  <1>2. ASSUME r \in Request, up.got[r] # {} PROVE up'.got[r] # {}
    BY <1>2, GotStep
  <1>3. CASE r \in sent
    BY <1>1, <1>2, <1>3 DEF MarkedWasDelivered
  <1>4. ASSUME NEW a \in Await, Mark(a), r \notin sent PROVE up'.got[r] # {}
    <2>1. Sound(call[a], responses, up.got) /\ call[a].pending \in SUBSET Request
      BY TypeParts DEF AwaitsSound, CallState
    <2>2. call[a].at = "marking" /\ r = Min(call[a].pending)
      BY <1>4 DEF Mark
    <2>3. r \in call[a].pending /\ up.got[r] # {}
      BY <2>1, <2>2, MinMember DEF Sound, After
    <2>4. QED
      BY <1>2, <2>1, <2>3
  <1>5. QED
    BY ZenonT(40), <1>3, <1>4
       DEF Next, Awaits, Work, RunnerStep, vars, table, Claim, Load, Read, Record, Check, Reread,
           Recheck, Gate, Send, Acknowledged, Commit, Release, Renew, Lose, CancelUpdate,
           StoreBusy, Crash, Fetch, ClaimSnapshot, Observe, Settle, Free, RunnerCrash, Lapse,
           End, Ask

-----------------------------------------------------------------------------
(* The delivery lease.                                                     *)

RunnerAtWork == runner.at \in {"observing", "settling", "freeing"}

\* Whoever is at work alone is.
LEMMA OneAtWork ==
    ASSUME TypeOK, HoldsLease, ~ stalled, NEW b \in Await, call[b].at # "idle"
    PROVE  /\ Live(delivery, b) /\ ~ RunnerAtWork
           /\ \A a \in Await : a # b => call[a].at = "idle"
  <1>1. Live(delivery, b) /\ (RunnerAtWork => Live(delivery, Runner))
    BY DEF HoldsLease, RunnerAtWork
  <1>2. Runner # b
    BY InputAssumption
  <1>3. QED
    BY <1>1, <1>2 DEF HoldsLease, Live

LEMMA StalledStep == TypeOK /\ [Next]_vars /\ ~ stalled' => ~ stalled
  BY DEF Next, Awaits, Work, RunnerStep, vars, rest, Claim, Load, Read, Record, Check, Reread,
         Recheck, Gate, Send, Acknowledged, Commit, Mark, Release, Renew, Lose, CancelUpdate,
         StoreBusy, Crash, Fetch, ClaimSnapshot, Observe, Settle, Free, RunnerCrash, Lapse,
         End, Ask

\* An await starts with a claim, the runner's write with a claim of its own.
LEMMA StartStep ==
    ASSUME TypeOK, [Next]_vars
    PROVE  /\ \A b \in Await : call[b].at = "idle" /\ call'[b].at # "idle" =>
                 \E input \in Input : Claim(b, input)
           /\ ~ RunnerAtWork /\ RunnerAtWork' => ClaimSnapshot
  <1>1. ASSUME NEW b \in Await, call[b].at = "idle", call'[b].at # "idle"
        PROVE  \E input \in Input : Claim(b, input)
    <2>1. CASE UNCHANGED call
      BY <1>1, <2>1
    <2>2. ASSUME NEW a \in Await, NEW n, a # b, Go(a, n) PROVE FALSE
      BY <1>1, <2>2, GoTypes
    <2>3. ASSUME NEW a \in Await, a # b,
                 \/ Work(a) \/ Renew(a) \/ Lose(a) \/ CancelUpdate(a) \/ StoreBusy(a) \/ Crash(a)
                 \/ \E input \in Input : Claim(a, input)
          PROVE  FALSE
      BY <2>1, <2>2, <2>3, <1>1
         DEF Work, Claim, Load, Read, Record, Check, Reread, Recheck, Gate, Send, Acknowledged,
             Commit, Mark, Release, Renew, Lose, CancelUpdate, StoreBusy, Crash
    <2>4. ~ (Work(b) \/ Renew(b) \/ Lose(b) \/ CancelUpdate(b) \/ StoreBusy(b) \/ Crash(b))
      BY <1>1
         DEF Work, Load, Read, Record, Check, Reread, Recheck, Gate, Send, Acknowledged,
             Commit, Mark, Release, Renew, Lose, CancelUpdate, StoreBusy, Crash, Working
    <2>5. QED
      BY <2>1, <2>3, <2>4, <1>1
         DEF Next, Awaits, RunnerStep, vars, Fetch, ClaimSnapshot, Observe, Settle, Free,
             RunnerCrash, Lapse, End, Ask
  <1>2. ASSUME ~ RunnerAtWork, RunnerAtWork' PROVE ClaimSnapshot
    <2>1. runner \in RunnerState
      BY TypeParts
    <2>2. ~ (UNCHANGED runner)
      BY <1>2 DEF RunnerAtWork
    <2>3. ~ (Fetch \/ RunnerCrash \/ Free)
      BY <1>2 DEF Fetch, RunnerCrash, Free, RunnerIdle, RunnerAtWork
    <2>4. ~ (Observe \/ Settle)
      BY <1>2 DEF Observe, Settle, RunnerAtWork
    <2>5. QED
      BY ZenonT(40), <2>2, <2>3, <2>4
         DEF Next, Awaits, Work, RunnerStep, vars, Claim, Load, Read, Record, Check, Reread,
             Recheck, Gate, Send, Acknowledged, Commit, Mark, Release, Renew, Lose,
             CancelUpdate, StoreBusy, Crash, Lapse, End, Ask
  <1>3. QED
    BY <1>1, <1>2

\* What the statements on the lease leave to its holder, whoever it is.
LEMMA HolderKeeps ==
    ASSUME NEW r \in LeaseRow(Owner), NEW o \in Owner, Live(r, o)
    PROVE  /\ \A p \in Owner : p # o => ReleaseLease(r, p) = r /\ ~ Claimable(r, p)
           /\ Live(RenewLease(r, 0), o)
           /\ r.left # 1 => Live(Elapse(r), o)
           /\ r.owner # NoOwner /\ r.left # 0
  BY TTLAssumption, InputAssumption
     DEF Live, ReleaseLease, Claimable, RenewLease, Elapse, LeaseRow, Owner

LEMMA ClaimHolds ==
    ASSUME NEW r \in LeaseRow(Owner), NEW o \in Owner PROVE Live(ClaimLease(r, o, 0), o)
  BY TTLAssumption DEF Live, ClaimLease

LEMMA HoldsLeaseStep == TypeOK /\ HoldsLease /\ [Next]_vars => HoldsLease'
  <1> SUFFICES ASSUME TypeOK, HoldsLease, [Next]_vars, ~ stalled'
               PROVE  /\ \A b \in Await : call'[b].at # "idle" => Live(delivery', b)
                      /\ RunnerAtWork' => Live(delivery', Runner)
    BY DEF HoldsLease, RunnerAtWork
  <1>0. /\ ~ stalled /\ delivery \in LeaseRow(Owner)
        /\ Runner \in Owner /\ Runner \notin Await /\ \A a \in Await : a \in Owner
    BY StalledStep, TypeParts, InputAssumption DEF Owner
  \* Who held it before the step keeps it.
  <1>1. ASSUME NEW o \in Owner, Live(delivery, o), AtWork(o),
               o \in Await => call'[o].at # "idle", o = Runner => RunnerAtWork'
        PROVE  Live(delivery', o)
    <2>1. /\ \A p \in Owner : p # o => ReleaseLease(delivery, p) = delivery
                                       /\ ~ Claimable(delivery, p)
          /\ Live(RenewLease(delivery, 0), o)
          /\ delivery.left # 1 => Live(Elapse(delivery), o)
          /\ delivery.owner # NoOwner /\ delivery.left # 0
      BY <1>0, <1>1, HolderKeeps
    <2>2. CASE UNCHANGED delivery
      BY <1>1, <2>2
    <2>3. ASSUME NEW a \in Await, NEW input \in Input, Claim(a, input)
          PROVE  FALSE
      <3>1. delivery.owner = o
        BY <1>1 DEF Live
      <3>2. QED
        BY <1>0, <2>1, <2>3, <3>1 DEF Claim
    <2>4. ASSUME NEW a \in Await, Release(a) PROVE Live(delivery', o)
      <3>1. a # o
        BY <1>1, <2>4, GoTypes DEF Release, Idle
      <3>2. QED
        BY <1>0, <1>1, <2>1, <2>4, <3>1 DEF Release
    <2>5. ASSUME NEW a \in Await, Renew(a) PROVE Live(delivery', o)
      BY <1>1, <2>1, <2>5 DEF Renew
    <2>6. CASE ClaimSnapshot
      BY <1>1, <2>1, <2>6 DEF ClaimSnapshot, SnapshotMay
    <2>7. CASE Free
      <3>1. o # Runner
        BY <1>1, <2>7 DEF Free, RunnerIdle, RunnerAtWork
      <3>2. QED
        BY <1>0, <1>1, <2>1, <2>7, <3>1 DEF Free
    <2>8. CASE Lapse
      <3>1. delivery.owner = o
        BY <1>1 DEF Live
      <3>2. delivery.left # 1
        BY <1>1, <2>8, <3>1 DEF Lapse
      <3>3. QED
        BY <2>1, <2>8, <3>2 DEF Lapse
    <2>9. QED
      BY <2>2, <2>3, <2>4, <2>5, <2>6, <2>7, <2>8
         DEF Next, Awaits, Work, RunnerStep, vars, Load, Read, Record, Check, Reread, Recheck,
             Gate, Send, Acknowledged, Commit, Mark, Lose, CancelUpdate, StoreBusy, Crash,
             Fetch, Observe, Settle, RunnerCrash, End, Ask
  \* Who starts has claimed it.
  <1>2. ASSUME NEW b \in Await, call'[b].at # "idle" PROVE Live(delivery', b)
    <2>1. CASE call[b].at # "idle"
      <3>1. Live(delivery, b) /\ b # Runner
        BY <1>0, <2>1 DEF HoldsLease
      <3>2. AtWork(b)
        BY <2>1, <3>1 DEF AtWork
      <3>3. QED
        BY <1>0, <1>1, <1>2, <3>1, <3>2
    <2>2. CASE call[b].at = "idle"
      <3>1. PICK input \in Input : Claim(b, input)
        BY <1>2, <2>2, StartStep
      <3>2. QED
        BY <1>0, <3>1, ClaimHolds DEF Claim
    <2>3. QED
      BY <2>1, <2>2
  <1>3. ASSUME RunnerAtWork' PROVE Live(delivery', Runner)
    <2>1. CASE RunnerAtWork
      <3>1. Live(delivery, Runner)
        BY <1>0, <2>1 DEF HoldsLease, RunnerAtWork
      <3>2. AtWork(Runner)
        BY <2>1 DEF AtWork, RunnerAtWork
      <3>3. QED
        BY <1>0, <1>1, <1>3, <3>1, <3>2
    <2>2. CASE ~ RunnerAtWork
      <3>1. ClaimSnapshot
        BY <1>3, <2>2, StartStep
      <3>2. SnapshotMay
        BY <1>3, <3>1 DEF ClaimSnapshot, RunnerIdle, RunnerAtWork
      <3>3. delivery' = ClaimLease(delivery, Runner, 0)
        BY <3>1, <3>2 DEF ClaimSnapshot, SnapshotMay, Claimable
      <3>4. QED
        BY <1>0, <3>3, ClaimHolds
    <2>3. QED
      BY <2>1, <2>2
  <1>4. QED
    BY <1>2, <1>3

LEMMA ReadHoldsStep == TypeOK /\ HoldsLease /\ ReadHolds /\ [Next]_vars => ReadHolds'
  <1> DEFINE Reads(c, st, out, marked) ==
               /\ c.at \in {"rechecking", "gating", "sending"} =>
                     st = "input_required" /\ c.pending \subseteq out
               /\ c.at \in {"gating", "sending"} => c.pending \cap marked = {}
  <1> SUFFICES ASSUME TypeOK, HoldsLease, ReadHolds, [Next]_vars, ~ stalled', NEW b \in Await
               PROVE  Reads(call'[b], row'.status, row'.outstanding, sent')
    BY DEF ReadHolds
  <1> DEFINE c == call[b]
             Goal == Reads(call'[b], row'.status, row'.outstanding, sent')
  <1>0. /\ c \in CallState /\ ~ stalled
        /\ Reads(c, row.status, row.outstanding, sent)
    BY StalledStep, TypeParts DEF ReadHolds
  <1>1. ASSUME call'[b].at \notin {"rechecking", "gating", "sending"} PROVE Goal
    BY <1>1
  <1>2. ASSUME NEW n, Go(b, n), n.at \notin {"rechecking", "gating", "sending"} PROVE Goal
    BY <1>2, GoTypes
  <1>3. Idle.at \notin {"rechecking", "gating", "sending"}
        /\ Done.at \notin {"rechecking", "gating", "sending"}
    BY DEF Idle, Done
  \* Somebody else's step: nobody else writes while this await is at work.
  <1>4. ASSUME call'[b] = c PROVE Goal
    <2> SUFFICES ASSUME c.at # "idle" PROVE Goal
      BY <1>1, <1>4
    <2>1. /\ ~ RunnerAtWork
          /\ \A a \in Await : a # b => call[a].at = "idle"
      BY <1>0, OneAtWork
    <2>2. row' = row
      BY ZenonT(40), <2>1
         DEF Next, Awaits, Work, RunnerStep, vars, Claim, Load, Read, Record, Check, Reread,
             Recheck, Gate, Send, Acknowledged, Commit, Mark, Release, Renew, Lose,
             CancelUpdate, StoreBusy, Crash, Fetch, ClaimSnapshot, Observe, Settle, Free,
             RunnerCrash, Lapse, End, Ask, RunnerAtWork
    <2>3. sent' = sent \/ c.at = "marking"
      BY ZenonT(40), <2>1
         DEF Next, Awaits, Work, RunnerStep, vars, table, Claim, Load, Read, Record, Check,
             Reread, Recheck, Gate, Send, Acknowledged, Commit, Mark, Release, Renew, Lose,
             CancelUpdate, StoreBusy, Crash, Fetch, ClaimSnapshot, Observe, Settle, Free,
             RunnerCrash, Lapse, End, Ask
    <2>4. QED
      BY <1>0, <1>4, <2>2, <2>3
  <1> HIDE DEF Goal
  <1> SUFFICES Goal
    BY DEF Goal
  <1>5. ASSUME NEW input \in Input, Claim(b, input) PROVE Goal
    <2>1. [Idle EXCEPT !.at = "loading", !.input = input, !.todo = Answered(input)].at = "loading"
      BY ClaimType
    <2>2. QED
      BY <1>2, <1>5, <2>1 DEF Claim
  <1>6. CASE Load(b) \/ Record(b) \/ Acknowledged(b) \/ Commit(b) \/ Release(b)
             \/ CancelUpdate(b) \/ Lose(b) \/ Crash(b)
    BY <1>0, <1>2, <1>3, <1>6
       DEF Load, Record, Acknowledged, Commit, Release, CancelUpdate, Lose, Crash, AfterLoss,
           CallState
  <1>7. CASE Read(b) \/ Check(b)
    <2>1. ASSUME NEW P PROVE Onward(c, P).at \notin {"rechecking", "gating", "sending"}
      <3> DEFINE todo == c.todo \ {Min(c.todo)}
                 w == IF todo = {} THEN "rereading" ELSE "reading"
                 k == Keep(c.input, todo \union P)
      <3>1. \/ Onward(c, P) = Done
            \/ Onward(c, P) = [c EXCEPT !.at = w, !.input = k, !.live = c.live \cap todo,
                                        !.todo = todo, !.pending = P]
        BY DEF Onward
      <3>2. w \in {"rereading", "reading"}
        OBVIOUS
      <3> HIDE DEF w, todo, k
      <3>3. QED
        BY <1>0, <1>3, <3>1, <3>2 DEF CallState
    <2>2. [c EXCEPT !.at = "recording"].at = "recording"
          /\ [c EXCEPT !.at = "checking"].at = "checking"
      BY <1>0 DEF CallState
    <2>3. CASE Read(b)
      BY <1>2, <1>3, <2>1, <2>2, <2>3 DEF Read
    <2>4. CASE Check(b)
      BY <1>2, <2>1, <2>4 DEF Check
    <2>5. QED
      BY <1>7, <2>3, <2>4
  <1>8. CASE Reread(b)
    <2> DEFINE n == [c EXCEPT !.at = "rechecking", !.pending = c.pending \cap row.outstanding]
    <2>1. CASE row.status # "input_required"
      BY <1>2, <1>3, <1>8, <2>1 DEF Reread
    <2>2. CASE row.status = "input_required"
      <3>1. call'[b] = n /\ row' = row
        BY <1>8, <2>2, GoTypes DEF Reread
      <3>2. n.at = "rechecking" /\ n.pending \subseteq row.outstanding
        BY <1>0 DEF CallState
      <3> HIDE DEF n
      <3>3. QED
        BY <2>2, <3>1, <3>2 DEF Goal
    <2>3. QED
      BY <2>1, <2>2
  <1>9. CASE Recheck(b)
    <2> DEFINE n == [c EXCEPT !.at = "gating", !.pending = c.pending \ sent]
    <2>1. CASE c.pending \ sent = {}
      BY <1>2, <1>3, <1>9, <2>1 DEF Recheck
    <2>2. CASE c.pending \ sent # {}
      <3>1. call'[b] = n /\ row' = row /\ sent' = sent /\ c.at = "rechecking"
        BY <1>9, <2>2, GoTypes DEF Recheck, table
      <3>2. n.at = "gating" /\ n.pending = c.pending \ sent
        BY <1>0 DEF CallState
      <3> HIDE DEF n
      <3>3. QED
        BY <1>0, <3>1, <3>2 DEF Goal
    <2>3. QED
      BY <2>1, <2>2
  <1>10. CASE Gate(b)
    <2> DEFINE n == [c EXCEPT !.at = "sending", !.gen = delivery.gen]
    <2>1. CASE ~ Live(delivery, b)
      BY <1>2, <1>3, <1>10, <2>1 DEF Gate
    <2>2. CASE Live(delivery, b)
      <3>1. call'[b] = n /\ row' = row /\ sent' = sent /\ c.at = "gating"
        BY <1>10, <2>2, GoTypes DEF Gate, table
      <3>2. n.at = "sending" /\ n.pending = c.pending
        BY <1>0 DEF CallState
      <3> HIDE DEF n
      <3>3. QED
        BY <1>0, <3>1, <3>2 DEF Goal
    <2>3. QED
      BY <2>1, <2>2
  <1>11. CASE Send(b) \/ Mark(b)
    <2>1. CASE Send(b)
      <3> DEFINE k == Keep(c.input, {})
      <3>1. Go(b, Done) \/ Go(b, [c EXCEPT !.at = "sent", !.input = k])
        BY <2>1 DEF Send
      <3> HIDE DEF k
      <3>2. [c EXCEPT !.at = "sent", !.input = k].at = "sent"
        BY <1>0 DEF CallState
      <3>3. QED
        BY <1>2, <1>3, <3>1, <3>2
    <2>2. CASE Mark(b)
      <3> DEFINE P == c.pending \ {Min(c.pending)}
      <3>1. c.at = "marking" /\ (Go(b, Done) \/ Go(b, [c EXCEPT !.pending = P]))
        BY <2>2 DEF Mark
      <3> HIDE DEF P
      <3>2. [c EXCEPT !.pending = P].at = c.at
        BY <1>0 DEF CallState
      <3>3. QED
        BY <1>2, <1>3, <3>1, <3>2
    <2>3. QED
      BY <1>11, <2>1, <2>2
  <1>12. CASE Renew(b) \/ StoreBusy(b)
    <2> DEFINE n == [c EXCEPT !.lost = TRUE]
    <2>1. row' = row /\ sent' = sent /\ (UNCHANGED call \/ Go(b, Done) \/ Go(b, n))
      BY <1>12 DEF Renew, StoreBusy, table
    <2>2. CASE UNCHANGED call
      BY <1>4, <2>2
    <2>3. CASE Go(b, Done)
      BY <1>2, <1>3, <2>3
    <2>4. CASE Go(b, n)
      <3>1. n.at = c.at /\ n.pending = c.pending /\ call'[b] = n
        BY <1>0, <2>4, GoTypes DEF CallState
      <3> HIDE DEF n
      <3>2. QED
        BY <1>0, <2>1, <3>1 DEF Goal
    <2>5. QED
      BY <2>1, <2>2, <2>3, <2>4
  <1>13. ASSUME NEW a \in Await, a # b,
               \/ Work(a) \/ Renew(a) \/ Lose(a) \/ CancelUpdate(a) \/ StoreBusy(a) \/ Crash(a)
               \/ \E input \in Input : Claim(a, input)
         PROVE  Goal
    <2>1. ASSUME NEW n, Go(a, n) PROVE Goal
      BY <1>13, <1>4, <2>1, GoTypes
    <2>2. QED
      BY <1>13, <1>4, <2>1
         DEF Work, Claim, Load, Read, Record, Check, Reread, Recheck, Gate, Send, Acknowledged,
             Commit, Mark, Release, Renew, Lose, CancelUpdate, StoreBusy, Crash
  <1>14. CASE UNCHANGED call
    BY <1>14, <1>4
  <1>15. QED
    BY <1>5, <1>6, <1>7, <1>8, <1>9, <1>10, <1>11, <1>12, <1>13, <1>14
       DEF Next, Awaits, Work, RunnerStep, vars, Fetch, ClaimSnapshot, Observe, Settle, Free,
           RunnerCrash, Lapse, End, Ask

-----------------------------------------------------------------------------
(* The theorems.                                                           *)

LEMMA IInvInit == Init => IInv
  <1> SUFFICES ASSUME Init PROVE IInv
    OBVIOUS
  <1>1. call = [a \in Await |-> Idle] /\ \A a \in Await : call[a] = Idle
    BY DEF Init
  <1>2. TypeOK
    <2>1. call \in [Await -> CallState] /\ runner \in RunnerState
      BY <1>1, IdleType DEF Init, RunnerIdle, RunnerState, Status
    <2>2. delivery \in LeaseRow(Owner) /\ faults \in 0..MaxFaults
      BY TTLAssumption, InputAssumption DEF Init, NoLease, LeaseRow
    <2>3. row \in RowType /\ up \in UpType
      BY DEF Init, RowType, UpType, Status
    <2>4. responses \in [Request -> Value \union {NoValue}] /\ sent \subseteq Request
          /\ stalled \in BOOLEAN
      BY DEF Init
    <2>5. QED
      BY <2>1, <2>2, <2>3, <2>4, TypeParts
  <1>3. AwaitsSound
    BY <1>1, SoundRest DEF AwaitsSound
  <1>4. HoldsLease /\ ReadHolds
    <2>1. Idle.at = "idle" /\ runner.at = "idle"
      BY DEF Idle, Init, RunnerIdle
    <2>2. QED
      BY <1>1, <2>1 DEF HoldsLease, ReadHolds
  <1>5. AnswersAgree /\ MarkedWasDelivered
    BY DEF Init, AnswersAgree, MarkedWasDelivered
  <1>6. QED
    BY <1>2, <1>3, <1>4, <1>5 DEF IInv

LEMMA IInvStep == IInv /\ [Next]_vars => IInv'
  BY TypeOKStep, AwaitsSoundStep, HoldsLeaseStep, ReadHoldsStep, AnswersAgreeStep,
     MarkedWasDeliveredStep
     DEF IInv

\* The inductive invariant holds of every behaviour of the awaits and the
\* runner, however they interleave, stall, crash or lose an update.
THEOREM InputInductive == Spec => []IInv
  <1>1. Init => IInv
    BY IInvInit
  <1>2. IInv /\ [Next]_vars => IInv'
    BY IInvStep
  <1>3. QED
    BY <1>1, <1>2, PTL DEF Spec

\* The rows, the lease, the awaits and the runner keep their types.
THEOREM InputTyped == Spec => []TypeOK
  <1>1. IInv => TypeOK
    BY DEF IInv
  <1>2. QED
    BY <1>1, InputInductive, PTL

\* SetInputResponse's first-answer-wins and applyInputResponses' conflict check:
\* upstream never gets two answers to a request, nor one that is not recorded,
\* with any number of awaits and even past an expired delivery lease.
THEOREM OneAnswer == Spec => []AnswersAgree
  <1>1. IInv => AnswersAgree
    BY DEF IInv
  <1>2. QED
    BY <1>1, InputInductive, PTL

\* recordDeliveredInput: sent_at is set only on an answer that upstream has.
THEOREM MarkIsTruthful == Spec => []MarkedWasDelivered
  <1>1. IInv => MarkedWasDelivered
    BY DEF IInv
  <1>2. QED
    BY <1>1, InputInductive, PTL

\* The delivery lease makes pendingOutstanding's reads hold until the update:
\* with nobody stalled past it, an update carries only answers that the row
\* asks for and that nobody has delivered.
THEOREM UpdateIsOutstanding == Spec => SendsOutstandingOnly
  <1>1. IInv => \A a \in Await : Send(a) /\ ~ stalled =>
                   /\ row.status = "input_required"
                   /\ call[a].pending \subseteq row.outstanding \ sent
    BY DEF IInv, ReadHolds, Send
  <1> DEFINE A == \A a \in Await : Send(a) /\ ~ stalled =>
                     /\ row.status = "input_required"
                     /\ call[a].pending \subseteq row.outstanding \ sent
  <1>2. IInv => A
    BY <1>1
  <1> HIDE DEF A
  <1>3. Spec => [][A]_vars
    BY <1>2, InputInductive, PTL
  <1>4. QED
    BY <1>3 DEF A, SendsOutstandingOnly
=============================================================================
