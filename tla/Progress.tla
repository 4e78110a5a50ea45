------------------------------ MODULE Progress ------------------------------
(***************************************************************************)
(* The progress events of one submission (internal/store/event.go) and the *)
(* awaits that read them with a cursor (internal/application/await.go).    *)
(*                                                                         *)
(* Runners of several processes append an event with the sequence number   *)
(* after the one they last read, without a lease, and ignore a refusal.    *)
(* The log keeps the newest events within a count and a size.  The sweep   *)
(* empties the log of an expired row, which keeps its sequence.  A client  *)
(* passes the cursor of its last answer to its next await, which polls     *)
(* until the row is terminal, the wait is over or the caller is gone.      *)
(***************************************************************************)
EXTENDS SequencesExt, Integers

CONSTANTS Runner,       \* invocations that note progress
          MaxEvents,    \* limit: events in the log
          EventBytes,   \* limit: size of an event
          EventsBytes,  \* limit: size of the log
          Size,         \* the sizes of events
          MaxSequence   \* bound on the events of a behaviour

VARIABLES row,       \* the submission: status, sequence and events
          seen,      \* the sequence each runner last read
          await,     \* the await of the client and its snapshot of the row
          cursor,    \* the cursor of the client's last answer
          received   \* history: the events the client got

vars == <<row, seen, await, cursor, received>>

NoAwait == [at |-> "idle", after |-> 0, sub |-> [status |-> "none", sequence |-> 0, events |-> <<>>]]

\* encodedEventsSize: brackets, commas and the events.
EncodedEventsSize(events) ==
    FoldLeft(LAMBDA total, e : total + e.size, 2, events)
        + (IF events = <<>> THEN 0 ELSE Len(events) - 1)

Fits(events) ==
    Len(events) <= MaxEvents /\ (events = <<>> \/ EncodedEventsSize(events) <= EventsBytes)

\* trimEvents: the longest end of the log that fits.
TrimEvents(events) ==
    LET first == CHOOSE k \in 1..(Len(events) + 1) :
                   /\ Fits(SubSeq(events, k, Len(events)))
                   /\ \A j \in 1..(k - 1) : ~Fits(SubSeq(events, j, Len(events)))
    IN  SubSeq(events, first, Len(events))

Init ==
    \* The row is created and appendAcceptedEvent recorded its acceptance.  An
    \* event carries its author, so that two events of one number differ.
    /\ \E r \in Runner, n \in {n \in Size : Fits(<<[size |-> n]>>)} :
         row = [status |-> "open", sequence |-> 1,
                events |-> <<[sequence |-> 1, size |-> n, by |-> r]>>]
    /\ seen = [r \in Runner |-> 1]
    /\ await = NoAwait /\ cursor = 0
    /\ received = <<>>

Terminal(status) == status \in {"settled", "expired"}

-----------------------------------------------------------------------------
(* The event log.                                                          *)

\* Mutated form: any number is taken.
CheckSequenceNever(sequence, previous) == sequence >= 1

CheckSequence(sequence, previous) == sequence >= 1 /\ sequence > previous

\* mergeEvents, on the row as the transaction finds it.
Appends(event) ==
    /\ row.status = "open"
    /\ CheckSequence(event.sequence, row.sequence)
    /\ event.size <= EventBytes /\ event.size <= EventsBytes

AppendEvents(event) ==
    row' = IF Appends(event)
           THEN [row EXCEPT !.sequence = event.sequence,
                            !.events = TrimEvents(Append(@, event))]
           ELSE row

-----------------------------------------------------------------------------
(* Runners and the sweep.                                                  *)

\* GetSubmission, or the row a transition returns.
Load(r) ==
    /\ row.status # "gone"
    /\ seen' = [seen EXCEPT ![r] = row.sequence]
    /\ UNCHANGED <<row, await, cursor, received>>

\* taskRunner.note, with a row that may be stale; a refusal is not noticed.
Note(r) ==
    /\ seen[r] < MaxSequence
    /\ \E n \in Size : AppendEvents([sequence |-> seen[r] + 1, size |-> n, by |-> r])
    /\ UNCHANGED <<seen, await, cursor, received>>

\* CompleteLeased, CaptureTerminalLeased or a failure.  The note that follows is
\* refused: the row is terminal.
Settle ==
    /\ row.status = "open"
    /\ row' = [row EXCEPT !.status = "settled"]
    /\ UNCHANGED <<seen, await, cursor, received>>

\* Mutated form: the sweep clears the sequence with the events.
ExpiredRowCleared == [status |-> "expired", sequence |-> 0, events |-> <<>>]

\* expirePayloads.
ExpiredRow == [row EXCEPT !.status = "expired", !.events = <<>>]

ExpirePayloads ==
    /\ row.status = "settled"
    /\ row' = ExpiredRow
    /\ UNCHANGED <<seen, await, cursor, received>>

\* deleteLapsedTombstones.
DeleteTombstone ==
    /\ row.status = "expired"
    /\ row' = [row EXCEPT !.status = "gone", !.events = <<>>]
    /\ UNCHANGED <<seen, await, cursor, received>>

-----------------------------------------------------------------------------
(* Await.                                                                  *)

\* loadForAwait, parseCursor: an unknown submission and a cursor beyond its
\* sequence are refused.
Rejected(after) == row.status = "gone" \/ after > row.sequence

StartAwait ==
    /\ await = NoAwait
    /\ ~Rejected(cursor)
    /\ await' = [at |-> IF Terminal(row.status) THEN "answer" ELSE "wait",
                 after |-> cursor, sub |-> row]
    /\ UNCHANGED <<row, seen, cursor, received>>

\* waitForState: a poll; a row that is gone is an error.
Poll ==
    /\ await.at = "wait"
    /\ await' = CASE row.status = "gone" -> NoAwait
                  [] Terminal(row.status) -> [await EXCEPT !.at = "answer", !.sub = row]
                  [] OTHER -> [await EXCEPT !.sub = row]
    /\ UNCHANGED <<row, seen, cursor, received>>

\* finalState: the wait is over or the caller is gone.  A last read, or the
\* snapshot when that read takes too long.
FinalState ==
    /\ await.at = "wait"
    /\ \/ await' = [await EXCEPT !.at = "answer"]
       \/ await' = IF row.status = "gone" THEN NoAwait
                   ELSE [await EXCEPT !.at = "answer", !.sub = row]
    /\ UNCHANGED <<row, seen, cursor, received>>

\* buildOutput: the events after the cursor, one by one, and the next cursor.
NewEvents(after, events) ==
    LET new[i \in 0..Len(events)] ==
          IF i = 0 THEN <<>>
          ELSE IF events[i].sequence > after THEN Append(new[i - 1], events[i])
          ELSE new[i - 1]
    IN  new[Len(events)]
NextCursor(after, events) == Max({after} \union {e.sequence : e \in ToSet(events)})

BuildOutput ==
    /\ await.at = "answer"
    /\ received' = received \o NewEvents(await.after, await.sub.events)
    /\ cursor' = NextCursor(await.after, await.sub.events)
    /\ await' = NoAwait
    /\ UNCHANGED <<row, seen>>

Next ==
    \/ \E r \in Runner : Load(r) \/ Note(r)
    \/ Settle \/ ExpirePayloads \/ DeleteTombstone
    \/ StartAwait \/ Poll \/ FinalState \/ BuildOutput

Spec == Init /\ [][Next]_vars

-----------------------------------------------------------------------------
(* Properties.                                                             *)

\* A client that follows its cursor gets every event once and in order, whatever
\* runners with a stale row append meanwhile and however stale the answer is: an
\* event in the log that its cursor has passed was received, nothing is received
\* twice, and its cursor is never refused as beyond the sequence, although the
\* sweep empties the log while an await holds an older snapshot.
FollowsTheLog ==
    /\ \A e \in ToSet(row.events) : e.sequence <= cursor => e \in ToSet(received)
    /\ \A i, j \in DOMAIN received : i < j => received[i].sequence < received[j].sequence
    /\ row.status # "gone" => cursor <= row.sequence
=============================================================================
