----------------------------- MODULE EventPage -----------------------------
(***************************************************************************)
(* One page of a task's durable events, as crates/mesh-daemon/src/reader.rs *)
(* reads it from a single SQLite snapshot.  Event n of a task is the n-th   *)
(* element of `events'; its size is the length of its encoding.             *)
(***************************************************************************)
EXTENDS Naturals, Sequences, FiniteSets

CONSTANTS
    PageLimit,      \* the largest page, 200 events
    FrameLimit      \* RESPONSE_FRAME_LIMIT, in units of size

\* validate_event_page_request.
ValidEventPageRequest(limit, budget) ==
    limit \in 1..PageLimit /\ budget \in 1..FrameLimit

\* The bytes of the first n events behind `after', with the commas between.
EncodedBytes(sizes, after, n) ==
    LET bytes[k \in 0..n] ==
          IF k = 0 THEN 0
          ELSE bytes[k - 1] + sizes[after + k] + (IF k = 1 THEN 0 ELSE 1)
    IN  bytes[n]

\* An event's payload never exceeds its encoding, so the length preflight of
\* load_event_page stops no page its encoded size would not stop.
Fits(sizes, after, n, budget) == EncodedBytes(sizes, after, n) <= budget

\* How many events the loop takes: it stops at the first that does not fit.
Taken(sizes, after, limit, budget) ==
    LET available == Len(sizes) - after
        most == IF available < limit THEN available ELSE limit
    IN  CHOOSE n \in 0..most :
          /\ \A k \in 0..n : Fits(sizes, after, k, budget)
          /\ n = most \/ ~Fits(sizes, after, n + 1, budget)

\* load_event_page for a task whose events after `evicted' are stored.  The
\* cursor is valid when evicted <= last (load_cursor).
LoadEventPage(sizes, evicted, last, after, limit, budget) ==
    LET stored == Len(sizes) = last
        n == Taken(sizes, after, limit, budget)
    IN  CASE after < evicted -> [outcome |-> "cursor_expired", next |-> after]
          [] after > last -> [outcome |-> "invalid_request", next |-> after]
          [] after = last -> [outcome |-> "ok", next |-> after]
          [] after < last /\ ~stored -> [outcome |-> "quarantined", next |-> after]
          [] after < last /\ stored /\ n = 0 ->
               [outcome |-> "output_limit_exceeded", next |-> after]
          [] OTHER -> [outcome |-> "ok", next |-> after + n]

=============================================================================
