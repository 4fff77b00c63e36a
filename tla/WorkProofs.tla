---------------------------- MODULE WorkProofs -----------------------------
(***************************************************************************)
(* The work of the daemon, for any candidates, limits, repositories,       *)
(* providers and lines: what the scheduler picks, who holds the lock of a  *)
(* repository, and what a run makes of its provider's output.              *)
(***************************************************************************)
EXTENDS AdapterRun, Scheduler, Worktrees, FiniteSetTheorems, WellFoundedInduction, TLAPS

-----------------------------------------------------------------------------
(* AdapterRun: what is read is recorded, and what decides.                 *)

\* A set of naturals has a least element.
LEMMA LeastOf ==
  ASSUME NEW T, T \subseteq Nat, T # {}
  PROVE  \E x \in T : \A y \in T : x <= y
<1>1. IsWellFoundedOn(OpToRel(<, Nat), Nat)
  BY Zenon, NatLessThanWellFounded
<1>2. PICK x \in T : \A y \in T : ~ (<<y, x>> \in OpToRel(<, Nat))
  BY Zenon, <1>1, WFMin
<1>3. \A y \in T : ~(y < x)
  BY Zenon, <1>2 DEF OpToRel
<1>4. QED
  BY <1>3

\* A set that holds 0 and the successors of its members holds every natural.
LEMMA SetInduction ==
  ASSUME NEW T, 0 \in T, \A n \in Nat : n \in T => n + 1 \in T
  PROVE  Nat \subseteq T
<1>1. SUFFICES ASSUME Nat \ T # {} PROVE FALSE
  BY Zenon
<1>2. PICK x \in Nat \ T : \A y \in Nat \ T : x <= y
  BY Zenon, <1>1, LeastOf
<1>3. x # 0 /\ x - 1 \in Nat /\ x - 1 \in T
  BY <1>2
<1>4. QED
  BY <1>2, <1>3

\* A list of anything: a function on 1..Len.
Listed(s) == Len(s) \in Nat /\ s = [i \in 1..Len(s) |-> s[i]]

\* A sequence is a list.
LEMMA SequenceIsListed ==
  ASSUME NEW S, NEW s \in Seq(S)
  PROVE  Listed(s)
<1>1. Len(s) \in Nat /\ s \in [1..Len(s) -> S]
  OBVIOUS
<1>2. s = [i \in 1..Len(s) |-> s[i]]
  BY Zenon, <1>1
<1>3. QED
  BY Zenon, <1>1, <1>2 DEF Listed

\* Append to a list.
LEMMA ListGrows ==
  ASSUME NEW f, Listed(f), NEW e
  PROVE  /\ Listed(Append(f, e)) /\ Len(Append(f, e)) = Len(f) + 1
         /\ \A i \in 1..Len(f) : Append(f, e)[i] = f[i]
         /\ Append(f, e)[Len(f) + 1] = e
<1> DEFINE S == {f[i] : i \in 1..Len(f)} \cup {e}
<1>1. f \in Seq(S) /\ e \in S
  BY DEF Listed
<1> HIDE DEF S
<1>2. Append(f, e) \in Seq(S) /\ Len(Append(f, e)) = Len(f) + 1
  BY <1>1
<1>3. Listed(Append(f, e))
  BY Zenon, <1>2, SequenceIsListed
<1>4. (\A i \in 1..Len(f) : Append(f, e)[i] = f[i]) /\ Append(f, e)[Len(f) + 1] = e
  BY <1>1
<1>5. QED
  BY Zenon, <1>2, <1>3, <1>4

-----------------------------------------------------------------------------
(* The activity buffer. *)

\* The fields of what persist_new_frames works on.
OutputFields == {"activity", "recorded", "verdict"}

\* The buffer, the recorded events and the verdict so far.
Buffered(o) ==
    /\ DOMAIN o = OutputFields
    /\ DOMAIN o.activity = {"channel", "text"} /\ Listed(o.activity.text)
    /\ o.activity.channel = "none" => o.activity = NoActivity
    /\ Listed(o.recorded)

\* A piece of text is in the buffer or in an event, on its channel.
Kept(o, channel, text) ==
    \/ /\ o.activity.channel = channel
       /\ \E n \in DOMAIN o.activity.text : o.activity.text[n] = text
    \/ \E e \in DOMAIN o.recorded :
         /\ o.recorded[e].kind = channel
         /\ \E n \in DOMAIN o.recorded[e].of : o.recorded[e].of[n] = text

\* The buffer at rest.
LEMMA NoActivityIsEmpty ==
  /\ DOMAIN NoActivity = {"channel", "text"} /\ NoActivity.channel = "none"
  /\ NoActivity.text = <<>> /\ Listed(NoActivity.text) /\ DOMAIN NoActivity.text = {}
<1>1. DOMAIN NoActivity = {"channel", "text"} /\ NoActivity.channel = "none" /\ NoActivity.text = <<>>
  BY Zenon DEF NoActivity
<1>2. <<>> \in Seq(Nat)
  OBVIOUS
<1>3. Listed(<<>>)
  BY Zenon, <1>2, SequenceIsListed
<1>4. QED
  BY <1>1, <1>3

\* Recording adds one event behind the others.
LEMMA RecordIs ==
  ASSUME NEW o, Buffered(o), NEW e
  PROVE  LET r == Record(o, e)
         IN  /\ Buffered(r) /\ r.activity = o.activity /\ r.verdict = o.verdict
             /\ \E x \in DOMAIN r.recorded : r.recorded[x] = e
             /\ \A x \in DOMAIN o.recorded : x \in DOMAIN r.recorded /\ r.recorded[x] = o.recorded[x]
<1>1. PICK r, old : r = Record(o, e) /\ old = o.recorded
  BY Zenon
<1>2. /\ DOMAIN r = OutputFields /\ r.activity = o.activity /\ r.verdict = o.verdict
      /\ r.recorded = IF \E i \in DOMAIN old : old[i] = e THEN old ELSE Append(old, e)
  BY Zenon, <1>1 DEF Record, Buffered, OutputFields
<1>3. Listed(old) /\ DOMAIN old = 1..Len(old)
  BY Zenon, <1>1 DEF Buffered, Listed
<1>4. CASE \E i \in DOMAIN old : old[i] = e
  <2>1. r.recorded = old
    BY Zenon, <1>2, <1>4
  <2>2. Buffered(r)
    BY Zenon, <1>2, <1>3, <2>1 DEF Buffered
  <2>3. QED
    BY Zenon, <1>1, <1>2, <1>4, <2>1, <2>2
<1>5. CASE ~\E i \in DOMAIN old : old[i] = e
  <2>1. PICK new : new = Append(old, e)
    BY Zenon
  <2>2. /\ Listed(new) /\ Len(new) = Len(old) + 1 /\ new[Len(old) + 1] = e
        /\ \A i \in 1..Len(old) : new[i] = old[i]
    BY <1>3, <2>1, ListGrows
  <2>3. DOMAIN new = 1..(Len(old) + 1) /\ Len(old) \in Nat
    BY Zenon, <1>3, <2>2 DEF Listed
  <2>4. r.recorded = new
    BY Zenon, <1>2, <1>5, <2>1
  <2>5. Buffered(r)
    BY Zenon, <1>2, <2>2, <2>4 DEF Buffered
  <2>6. QED
    BY <1>1, <1>2, <1>3, <2>2, <2>3, <2>4, <2>5
<1>6. QED
  BY Zenon, <1>4, <1>5

\* So it loses nothing.
LEMMA RecordKeeps ==
  ASSUME NEW o, Buffered(o), NEW e, NEW channel, NEW text, Kept(o, channel, text)
  PROVE  Kept(Record(o, e), channel, text)
<1>1. PICK r : r = Record(o, e)
  BY Zenon
<1>2. /\ r.activity = o.activity
      /\ \A x \in DOMAIN o.recorded : x \in DOMAIN r.recorded /\ r.recorded[x] = o.recorded[x]
  BY <1>1, RecordIs
<1>3. Kept(r, channel, text)
  BY <1>2 DEF Kept
<1>4. QED
  BY Zenon, <1>1, <1>3

\* flush leaves the buffer at rest.
LEMMA FlushIs ==
  ASSUME NEW o, Buffered(o)
  PROVE  LET f == Flush(o)
         IN  Buffered(f) /\ f.activity = NoActivity /\ f.verdict = o.verdict
<1>1. CASE o.activity.channel = "none"
  BY Zenon, <1>1 DEF Flush, Buffered
<1>2. CASE o.activity.channel # "none"
  <2>1. PICK e, r, f : /\ e = [kind |-> o.activity.channel, of |-> o.activity.text]
                       /\ r = Record(o, e) /\ f = [r EXCEPT !.activity = NoActivity]
    BY Zenon
  <2>2. f = Flush(o)
    BY Zenon, <1>2, <2>1 DEF Flush
  <2>3. Buffered(r) /\ r.verdict = o.verdict
    BY Zenon, <2>1, RecordIs
  <2>4. /\ DOMAIN f = OutputFields /\ f.activity = NoActivity /\ f.recorded = r.recorded
        /\ f.verdict = r.verdict
    BY Zenon, <2>1, <2>3 DEF Buffered, OutputFields
  <2>5. Buffered(f)
    BY Zenon, <2>3, <2>4, NoActivityIsEmpty DEF Buffered
  <2>6. QED
    BY Zenon, <2>2, <2>3, <2>4, <2>5
<1>3. QED
  BY Zenon, <1>1, <1>2

\* And loses nothing.
LEMMA FlushKeeps ==
  ASSUME NEW o, Buffered(o), NEW channel, NEW text, channel # "none", Kept(o, channel, text)
  PROVE  Kept(Flush(o), channel, text)
<1>1. CASE o.activity.channel = "none"
  BY Zenon, <1>1 DEF Flush
<1>2. CASE o.activity.channel # "none"
  <2>1. PICK e, r, f : /\ e = [kind |-> o.activity.channel, of |-> o.activity.text]
                       /\ r = Record(o, e) /\ f = [r EXCEPT !.activity = NoActivity]
    BY Zenon
  <2>2. f = Flush(o)
    BY Zenon, <1>2, <2>1 DEF Flush
  <2>3. /\ Buffered(r) /\ \E x \in DOMAIN r.recorded : r.recorded[x] = e
        /\ \A x \in DOMAIN o.recorded : x \in DOMAIN r.recorded /\ r.recorded[x] = o.recorded[x]
    BY <2>1, RecordIs
  <2>4. f.recorded = r.recorded
    BY Zenon, <2>1, <2>3 DEF Buffered, OutputFields
  <2>5. e.kind = o.activity.channel /\ e.of = o.activity.text
    BY Zenon, <2>1
  <2>6. Kept(f, channel, text)
    BY <2>3, <2>4, <2>5 DEF Kept
  <2>7. QED
    BY Zenon, <2>2, <2>6
<1>3. QED
  BY Zenon, <1>1, <1>2

\* ActivityBuffer::append, without the flush at its end.
LEMMA AppendIs ==
  ASSUME NEW o, Buffered(o), NEW channel, channel # "none", NEW text
  PROVE  LET a == AppendActivity(o, channel, text)
         IN  /\ Buffered(a) /\ a.verdict = o.verdict /\ Kept(a, channel, text)
             /\ \A c, t : c # "none" /\ Kept(o, c, t) => Kept(a, c, t)
<1>1. PICK a : a = IF o.activity.channel \in {"none", channel} THEN o ELSE Flush(o)
  BY Zenon
<1>2. /\ Buffered(a) /\ a.verdict = o.verdict
      /\ a.activity.channel = channel \/ a.activity = NoActivity
      /\ \A c, t : c # "none" /\ Kept(o, c, t) => Kept(a, c, t)
  <2>1. CASE o.activity.channel \in {"none", channel}
    BY Zenon, <1>1, <2>1 DEF Buffered
  <2>2. CASE o.activity.channel \notin {"none", channel}
    <3>1. a = Flush(o)
      BY Zenon, <1>1, <2>2
    <3>2. QED
      BY Zenon, <3>1, FlushIs, FlushKeeps
  <2>3. QED
    BY Zenon, <2>1, <2>2
<1>3. PICK held, more : held = a.activity.text /\ more = Append(held, text)
  BY Zenon
<1>4. PICK b : b = [a EXCEPT !.activity = [channel |-> channel, text |-> more]]
  BY Zenon
<1>5. /\ DOMAIN b = OutputFields /\ b.recorded = a.recorded /\ b.verdict = a.verdict
      /\ b.activity = [channel |-> channel, text |-> more]
  BY Zenon, <1>2, <1>4 DEF Buffered, OutputFields
<1>6. b.activity.channel = channel /\ b.activity.text = more /\ DOMAIN b.activity = {"channel", "text"}
  BY <1>5
<1>7. Listed(held)
  BY Zenon, <1>2, <1>3 DEF Buffered
<1>8. /\ Listed(more) /\ Len(more) = Len(held) + 1 /\ more[Len(held) + 1] = text
      /\ \A i \in 1..Len(held) : more[i] = held[i]
  BY <1>3, <1>7, ListGrows
<1>9. DOMAIN more = 1..(Len(held) + 1) /\ DOMAIN held = 1..Len(held) /\ Len(held) \in Nat
  BY Zenon, <1>7, <1>8 DEF Listed
<1>10. Buffered(b)
  BY Zenon, <1>2, <1>5, <1>6, <1>8 DEF Buffered
<1>11. Kept(b, channel, text)
  BY <1>6, <1>8, <1>9 DEF Kept
<1>12. ASSUME NEW c, NEW t, c # "none", Kept(a, c, t) PROVE Kept(b, c, t)
  <2>1. CASE a.activity.channel = c /\ \E n \in DOMAIN held : held[n] = t
    <3>1. c = channel
      BY Zenon, <1>2, <1>12, <2>1, NoActivityIsEmpty
    <3>2. \E n \in DOMAIN more : more[n] = t
      BY <1>8, <1>9, <2>1
    <3>3. QED
      BY Zenon, <1>6, <3>1, <3>2 DEF Kept
  <2>2. CASE \E e \in DOMAIN a.recorded :
               /\ a.recorded[e].kind = c
               /\ \E n \in DOMAIN a.recorded[e].of : a.recorded[e].of[n] = t
    BY Zenon, <1>5, <2>2 DEF Kept
  <2>3. QED
    BY Zenon, <1>3, <1>12, <2>1, <2>2 DEF Kept
<1>13. PICK d : d = IF Len(b.activity.text) >= FlushSize THEN Flush(b) ELSE b
  BY Zenon
<1>14. d = AppendActivity(o, channel, text)
  BY Zenon, <1>1, <1>3, <1>4, <1>13 DEF AppendActivity
<1>15. /\ Buffered(d) /\ d.verdict = b.verdict
       /\ \A c, t : c # "none" /\ Kept(b, c, t) => Kept(d, c, t)
  <2>1. CASE d = b
    BY Zenon, <1>10, <2>1
  <2>2. CASE d = Flush(b)
    BY Zenon, <1>10, <2>2, FlushIs, FlushKeeps
  <2>3. QED
    BY Zenon, <1>13, <2>1, <2>2
<1>16. QED
  BY Zenon, <1>2, <1>5, <1>11, <1>12, <1>14, <1>15

\* A piece of text or of thinking is kept on its channel.
PieceKept(o, k) ==
    /\ k.kind = "text" => Kept(o, "text_delta", k.of)
    /\ k.kind = "thinking" => Kept(o, "warning", k.of)

\* A piece stays kept while nothing kept is lost.
LEMMA PieceStaysKept ==
  ASSUME NEW o, NEW h, \A c, t : c # "none" /\ Kept(o, c, t) => Kept(h, c, t),
         NEW k, PieceKept(o, k)
  PROVE  PieceKept(h, k)
BY Zenon DEF PieceKept

\* An event of its own behind what the buffer held.
LEMMA RecordBehind ==
  ASSUME NEW o, Buffered(o), NEW e
  PROVE  LET r == Record(Flush(o), e)
         IN  /\ Buffered(r) /\ r.activity = NoActivity /\ r.verdict = o.verdict
             /\ \A c, t : c # "none" /\ Kept(o, c, t) => Kept(r, c, t)
<1>1. PICK f, r : f = Flush(o) /\ r = Record(f, e)
  BY Zenon
<1>2. Buffered(f) /\ f.activity = NoActivity /\ f.verdict = o.verdict
  BY Zenon, <1>1, FlushIs
<1>3. \A c, t : c # "none" /\ Kept(o, c, t) => Kept(f, c, t)
  BY Zenon, <1>1, FlushKeeps
<1>4. Buffered(r) /\ r.activity = f.activity /\ r.verdict = f.verdict
  BY Zenon, <1>1, <1>2, RecordIs
<1>5. \A c, t : Kept(f, c, t) => Kept(r, c, t)
  BY Zenon, <1>1, <1>2, RecordKeeps
<1>6. QED
  BY Zenon, <1>1, <1>2, <1>3, <1>4, <1>5

\* The verdict leaves the rest alone.
LEMMA VerdictSet ==
  ASSUME NEW o, Buffered(o), NEW v
  PROVE  LET r == [o EXCEPT !.verdict = v]
         IN  /\ Buffered(r) /\ r.activity = o.activity /\ r.verdict = v
             /\ \A c, t : Kept(o, c, t) => Kept(r, c, t)
<1>1. PICK r : r = [o EXCEPT !.verdict = v]
  BY Zenon
<1>2. /\ DOMAIN r = OutputFields /\ r.activity = o.activity /\ r.recorded = o.recorded
      /\ r.verdict = v
  BY Zenon, <1>1 DEF Buffered, OutputFields
<1>3. Buffered(r)
  BY Zenon, <1>2 DEF Buffered
<1>4. \A c, t : Kept(o, c, t) => Kept(r, c, t)
  BY Zenon, <1>2 DEF Kept
<1>5. QED
  BY Zenon, <1>1, <1>2, <1>3, <1>4

\* What one kind does: nothing kept is lost, a piece of text is kept, and it
\* decides exactly when it is a deciding one.
LEMMA HandleIs ==
  ASSUME NEW o, Buffered(o), o.verdict = "none", NEW k, k.kind \in KindNames
  PROVE  LET h == Handle(o, k)
         IN  /\ Buffered(h) /\ PieceKept(h, k)
             /\ \A c, t : c # "none" /\ Kept(o, c, t) => Kept(h, c, t)
             /\ ~Decisive(k) => h.verdict = "none"
             /\ Decisive(k) => h.verdict = Verdict(k) /\ h.activity = NoActivity
<1>1. PICK h : h = Handle(o, k)
  BY Zenon
<1> DEFINE Goal == /\ Buffered(h) /\ PieceKept(h, k)
                   /\ \A c, t : c # "none" /\ Kept(o, c, t) => Kept(h, c, t)
                   /\ ~Decisive(k) => h.verdict = "none"
                   /\ Decisive(k) => h.verdict = Verdict(k) /\ h.activity = NoActivity
<1>2. CASE k.kind \in {"text", "thinking"}
  <2>1. PICK channel : channel = IF k.kind = "text" THEN "text_delta" ELSE "warning"
    BY Zenon
  <2>2. channel # "none"
    BY Zenon, <2>1
  <2>3. h = AppendActivity(o, channel, k.of)
    BY Zenon, <1>1, <1>2, <2>1 DEF Handle
  <2>4. /\ Buffered(h) /\ h.verdict = o.verdict /\ Kept(h, channel, k.of)
        /\ \A c, t : c # "none" /\ Kept(o, c, t) => Kept(h, c, t)
    BY Zenon, <2>2, <2>3, AppendIs
  <2>5. PieceKept(h, k) /\ ~Decisive(k)
    BY Zenon, <1>2, <2>1, <2>4 DEF PieceKept, Decisive
  <2>6. QED
    BY Zenon, <1>1, <2>4, <2>5
<1>3. CASE k.kind \in {"unknown", "state_changed", "interaction_requested"}
  <2>1. h = o
    BY Zenon, <1>1, <1>3 DEF Handle
  <2>2. PieceKept(h, k) /\ ~Decisive(k)
    BY Zenon, <1>3 DEF PieceKept, Decisive
  <2>3. QED
    BY Zenon, <1>1, <2>1, <2>2
<1>4. CASE k.kind \in {"warning", "usage"}
  <2>1. PICK e : e = [kind |-> k.kind, of |-> <<k.of>>]
    BY Zenon
  <2>2. h = Record(Flush(o), e)
    BY Zenon, <1>1, <1>4, <2>1 DEF Handle
  <2>3. PieceKept(h, k) /\ ~Decisive(k)
    BY Zenon, <1>4 DEF PieceKept, Decisive
  <2>4. QED
    BY <1>1, <2>2, <2>3, RecordBehind
<1>5. CASE k.kind = "tool_proposal"
  <2>1. PICK e, second, r : /\ e = [kind |-> k.kind, of |-> <<k.of>>]
                            /\ second = [kind |-> "warning", of |-> <<"tool">>]
                            /\ r = Record(Flush(o), e)
    BY Zenon
  <2>2. h = Record(r, second)
    BY Zenon, <1>1, <1>5, <2>1 DEF Handle
  <2>3. /\ Buffered(r) /\ r.verdict = o.verdict
        /\ \A c, t : c # "none" /\ Kept(o, c, t) => Kept(r, c, t)
    BY Zenon, <2>1, RecordBehind
  <2>4. /\ Buffered(h) /\ h.verdict = r.verdict
        /\ \A c, t : Kept(r, c, t) => Kept(h, c, t)
    BY Zenon, <2>2, <2>3, RecordIs, RecordKeeps
  <2>5. PieceKept(h, k) /\ ~Decisive(k)
    BY Zenon, <1>5 DEF PieceKept, Decisive
  <2>6. QED
    BY Zenon, <1>1, <2>3, <2>4, <2>5
<1>6. CASE k.kind = "protocol_error"
  <2>1. PICK e, r : e = [kind |-> k.kind, of |-> <<k.of>>] /\ r = Record(Flush(o), e)
    BY Zenon
  <2>2. h = IF Decisive(k) THEN [r EXCEPT !.verdict = Verdict(k)] ELSE r
    BY Zenon, <1>1, <1>6, <2>1 DEF Handle
  <2>3. /\ Buffered(r) /\ r.activity = NoActivity /\ r.verdict = o.verdict
        /\ \A c, t : c # "none" /\ Kept(o, c, t) => Kept(r, c, t)
    BY Zenon, <2>1, RecordBehind
  <2>4. PieceKept(h, k)
    BY Zenon, <1>6 DEF PieceKept
  <2>5. CASE Decisive(k)
    <3>1. /\ Buffered(h) /\ h.activity = r.activity /\ h.verdict = Verdict(k)
          /\ \A c, t : Kept(r, c, t) => Kept(h, c, t)
      BY <2>2, <2>3, <2>5, VerdictSet
    <3>2. QED
      BY Zenon, <1>1, <2>3, <2>4, <2>5, <3>1
  <2>6. CASE ~Decisive(k)
    BY Zenon, <1>1, <2>2, <2>3, <2>4, <2>6
  <2>7. QED
    BY Zenon, <2>5, <2>6
<1>7. CASE k.kind = "terminal"
  <2>1. PICK f : f = Flush(o)
    BY Zenon
  <2>2. h = [f EXCEPT !.verdict = Verdict(k)]
    BY Zenon, <1>1, <1>7, <2>1 DEF Handle
  <2>3. /\ Buffered(f) /\ f.activity = NoActivity
        /\ \A c, t : c # "none" /\ Kept(o, c, t) => Kept(f, c, t)
    BY Zenon, <2>1, FlushIs, FlushKeeps
  <2>4. /\ Buffered(h) /\ h.activity = f.activity /\ h.verdict = Verdict(k)
        /\ \A c, t : Kept(f, c, t) => Kept(h, c, t)
    BY Zenon, <2>2, <2>3, VerdictSet
  <2>5. PieceKept(h, k) /\ Decisive(k)
    BY Zenon, <1>7 DEF PieceKept, Decisive
  <2>6. QED
    BY Zenon, <1>1, <2>3, <2>4, <2>5
<1>8. QED
  BY Zenon, <1>2, <1>3, <1>4, <1>5, <1>6, <1>7 DEF KindNames

-----------------------------------------------------------------------------
(* The two loops of persist_new_frames. *)

\* f is what the loop over the kinds of a line computes.
LineLoop(f, count, o, kinds) ==
    f = [j \in 0 .. count |->
          IF j = 0 THEN o
          ELSE IF f[j - 1].verdict # "none" THEN f[j - 1]
          ELSE Handle(f[j - 1], kinds[j])]

\* The loop over the events of a line is a function.
LEMMA LineLoopExists ==
  ASSUME NEW count \in Nat, NEW o, NEW kinds
  PROVE  \E f : LineLoop(f, count, o, kinds)
<1> DEFINE T == {m \in Nat : \E f : LineLoop(f, m, o, kinds)}
<1>1. 0 \in T
  <2>1. LineLoop([j \in 0 .. 0 |-> o], 0, o, kinds)
    BY DEF LineLoop
  <2>2. QED
    BY Zenon, <2>1
<1>2. ASSUME NEW m \in Nat, m \in T PROVE m + 1 \in T
  <2>1. PICK f : LineLoop(f, m, o, kinds)
    BY Zenon, <1>2
  <2>2. PICK g : g = [j \in 0 .. (m + 1) |->
          IF j = 0 THEN o
          ELSE IF f[j - 1].verdict # "none" THEN f[j - 1]
          ELSE Handle(f[j - 1], kinds[j])]
    BY Zenon
  <2>3. ASSUME NEW j \in 0 .. m PROVE g[j] = f[j]
    BY SMTT(40), <2>1, <2>2 DEF LineLoop
  <2>4. ASSUME NEW j \in 0 .. (m + 1), j # 0 PROVE g[j - 1] = f[j - 1]
    <3>1. j - 1 \in 0 .. m
      BY <2>4
    <3>2. QED
      BY Zenon, <2>3, <3>1
  <2>5. LineLoop(g, m + 1, o, kinds)
    BY Zenon, <2>2, <2>4 DEF LineLoop
  <2>6. QED
    BY <2>5
<1>3. \A m \in Nat : m \in T => m + 1 \in T
  BY Zenon, <1>2
<1>4. count \in T
  <2> HIDE DEF T
  <2>1. Nat \subseteq T
    BY Zenon, <1>1, <1>3, SetInduction
  <2>2. QED
    BY Zenon, <2>1
<1>5. QED
  BY Zenon, <1>4

\* And HandleLine is its last value.
LEMMA HandleLineIs ==
  ASSUME NEW o, NEW kinds, Len(kinds) \in Nat
  PROVE  \E f : LineLoop(f, Len(kinds), o, kinds) /\ HandleLine(o, kinds) = f[Len(kinds)]
<1> DEFINE taken == CHOOSE f : f = [j \in 0 .. Len(kinds) |->
          IF j = 0 THEN o
          ELSE IF f[j - 1].verdict # "none" THEN f[j - 1]
          ELSE Handle(f[j - 1], kinds[j])]
<1>1. PICK f : LineLoop(f, Len(kinds), o, kinds)
  BY Zenon, LineLoopExists
<1>2. taken = [j \in 0 .. Len(kinds) |->
          IF j = 0 THEN o
          ELSE IF taken[j - 1].verdict # "none" THEN taken[j - 1]
          ELSE Handle(taken[j - 1], kinds[j])]
  BY Zenon, <1>1 DEF LineLoop
<1>3. HandleLine(o, kinds) = taken[Len(kinds)]
  BY Zenon DEF HandleLine
<1> HIDE DEF taken
<1>4. LineLoop(taken, Len(kinds), o, kinds)
  BY Zenon, <1>2 DEF LineLoop
<1>5. QED
  BY Zenon, <1>3, <1>4

\* f is what the loop over the lines computes.
ReadLoop(f, from, to) ==
    f = [n \in from .. to |->
          IF n = from THEN [activity |-> activity, recorded |-> recorded, verdict |-> "none"]
          ELSE IF f[n - 1].verdict # "none" THEN f[n - 1]
          ELSE HandleLine(f[n - 1], Decode(agent, printed[n]))]

\* The loop over the lines of a read is a function.
LEMMA ReadLoopExists ==
  ASSUME NEW from \in Nat, NEW count \in Nat
  PROVE  \E f : ReadLoop(f, from, from + count)
<1> DEFINE T == {m \in Nat : \E f : ReadLoop(f, from, from + m)}
           start == [activity |-> activity, recorded |-> recorded, verdict |-> "none"]
<1>1. 0 \in T
  <2>1. ReadLoop([n \in from .. from |-> start], from, from + 0)
    BY DEF ReadLoop
  <2>2. QED
    BY Zenon, <2>1
<1>2. ASSUME NEW m \in Nat, m \in T PROVE m + 1 \in T
  <2>1. PICK f : ReadLoop(f, from, from + m)
    BY Zenon, <1>2
  <2>2. PICK g : g = [n \in from .. (from + (m + 1)) |->
          IF n = from THEN start
          ELSE IF f[n - 1].verdict # "none" THEN f[n - 1]
          ELSE HandleLine(f[n - 1], Decode(agent, printed[n]))]
    BY ZenonT(60)
  <2>3. ASSUME NEW n \in from .. (from + m) PROVE g[n] = f[n]
    BY SMTT(40), <2>1, <2>2 DEF ReadLoop
  <2>4. ASSUME NEW n \in from .. (from + (m + 1)), n # from PROVE g[n - 1] = f[n - 1]
    <3>1. n - 1 \in from .. (from + m)
      BY <2>4
    <3>2. QED
      BY Zenon, <2>3, <3>1
  <2>5. ReadLoop(g, from, from + (m + 1))
    BY Zenon, <2>2, <2>4 DEF ReadLoop
  <2>6. QED
    BY <2>5
<1>3. \A m \in Nat : m \in T => m + 1 \in T
  BY Zenon, <1>2
<1>4. count \in T
  <2> HIDE DEF T
  <2>1. Nat \subseteq T
    BY Zenon, <1>1, <1>3, SetInduction
  <2>2. QED
    BY Zenon, <2>1
<1>5. QED
  BY Zenon, <1>4


-----------------------------------------------------------------------------
(* The invariant. *)

\* Every piece of the first n lines is kept.
AllKept(o, n) == \A i \in 1 .. n : \A j \in DOMAIN KindsOf(i) : PieceKept(o, KindsOf(i)[j])

\* Some frame of the first n lines is the first that decides, and this is its
\* verdict.
DecidedAs(v, n) ==
    \E i \in 1 .. n : \E j \in DOMAIN KindsOf(i) :
      DecidesFirst(i, j) /\ v = Verdict(KindsOf(i)[j])

\* The reader behind n lines.
ReadTo(o, n) ==
    /\ Buffered(o)
    /\ o.verdict = "none" => NothingDecides(n) /\ AllKept(o, n)
    /\ o.verdict # "none" => DecidedAs(o.verdict, n) /\ o.activity = NoActivity

\* The reader behind n lines and j kinds of the next.
ReadInto(o, n, j) ==
    /\ Buffered(o)
    /\ o.verdict = "none" =>
         /\ NothingDecides(n) /\ AllKept(o, n)
         /\ \A m \in 1 .. j : ~Decisive(KindsOf(n + 1)[m]) /\ PieceKept(o, KindsOf(n + 1)[m])
    /\ o.verdict # "none" => DecidedAs(o.verdict, n + 1) /\ o.activity = NoActivity

\* The pieces of the first n lines are in events.
AllRecorded(n) ==
    \A i \in 1 .. n : \A j \in DOMAIN KindsOf(i) :
      /\ KindsOf(i)[j].kind = "text" => RecordedOn("text_delta", KindsOf(i)[j].of)
      /\ KindsOf(i)[j].kind = "thinking" => RecordedOn("warning", KindsOf(i)[j].of)

\* The inductive invariant of a run.
RunInvariant ==
    /\ agent \in Agents
    /\ Listed(printed) /\ \A i \in 1 .. Len(printed) : printed[i] \in Lines[agent]
    /\ consumed \in Nat /\ copied \in Nat
    /\ consumed <= copied /\ copied <= Len(printed)
    /\ activity = NoActivity /\ Listed(recorded)
    /\ outcome.by # "frame" => NothingDecides(consumed) /\ AllRecorded(consumed)
    /\ outcome.by = "frame" => step = "done" /\ DecidedAs(outcome.state, Len(printed))

\* A printed line decodes to events of known kinds.
LEMMA KindsAreKnown ==
  ASSUME RunInvariant, NEW i \in 1 .. Len(printed)
  PROVE  /\ Len(KindsOf(i)) \in Nat /\ DOMAIN KindsOf(i) = 1 .. Len(KindsOf(i))
         /\ \A j \in DOMAIN KindsOf(i) : KindsOf(i)[j].kind \in KindNames
<1>1. agent \in Agents /\ printed[i] \in Lines[agent]
  BY Zenon DEF RunInvariant
<1>2. QED
  BY Zenon, <1>1, LinesAreDecoded DEF KindsOf

\* One more event of a line.
LEMMA KindIsRead ==
  ASSUME RunInvariant, NEW n \in Nat, n + 1 \in 1 .. Len(printed),
         NEW j \in Nat, j + 1 <= Len(KindsOf(n + 1)), NEW o, ReadInto(o, n, j), NEW h,
         h = IF o.verdict # "none" THEN o ELSE Handle(o, KindsOf(n + 1)[j + 1])
  PROVE  ReadInto(h, n, j + 1)
<1>1. CASE o.verdict # "none"
  BY Zenon, <1>1 DEF ReadInto
<1>2. CASE o.verdict = "none"
  <2>1. PICK kinds, k, line : line = n + 1 /\ kinds = KindsOf(line) /\ k = kinds[j + 1]
    BY Zenon
  <2>2. Len(kinds) \in Nat /\ DOMAIN kinds = 1 .. Len(kinds) /\ k.kind \in KindNames
    BY <2>1, KindsAreKnown
  <2>3. h = Handle(o, k)
    BY Zenon, <1>2, <2>1
  <2>4. /\ Buffered(h) /\ PieceKept(h, k)
        /\ \A c, t : c # "none" /\ Kept(o, c, t) => Kept(h, c, t)
        /\ ~Decisive(k) => h.verdict = "none"
        /\ Decisive(k) => h.verdict = Verdict(k) /\ h.activity = NoActivity
    BY <1>2, <2>2, <2>3, HandleIs DEF ReadInto
  <2>5. NothingDecides(n) /\ AllKept(o, n)
        /\ \A m \in 1 .. j : ~Decisive(kinds[m]) /\ PieceKept(o, kinds[m])
    BY Zenon, <1>2, <2>1 DEF ReadInto
  <2>6. CASE ~Decisive(k)
    <3>1. AllKept(h, n)
      BY <2>4, <2>5, PieceStaysKept DEF AllKept
    <3>2. \A m \in 1 .. (j + 1) : ~Decisive(kinds[m]) /\ PieceKept(h, kinds[m])
      BY SMTT(40), <2>1, <2>4, <2>5, <2>6, PieceStaysKept
    <3>3. QED
      BY ZenonT(60), <2>1, <2>4, <2>5, <2>6, <3>1, <3>2 DEF ReadInto
  <2>7. CASE Decisive(k)
    <3>1. DecidesFirst(line, j + 1)
      <4>1. line - 1 = n /\ (j + 1) - 1 = j
        BY <2>1
      <4>2. QED
        BY Zenon, <2>1, <2>5, <2>7, <4>1 DEF DecidesFirst
    <3>2. line \in 1 .. line /\ j + 1 \in DOMAIN KindsOf(line)
      BY <2>1, <2>2
    <3>3. DecidedAs(h.verdict, line)
      BY Zenon, <2>1, <2>4, <2>7, <3>1, <3>2 DEF DecidedAs
    <3>4. h.verdict # "none"
      BY Zenon, <2>4, <2>7 DEF Verdict
    <3>5. QED
      BY Zenon, <2>1, <2>4, <2>7, <3>3, <3>4 DEF ReadInto
  <2>8. QED
    BY Zenon, <2>6, <2>7
<1>3. QED
  BY Zenon, <1>1, <1>2

\* One more line.
LEMMA LineIsRead ==
  ASSUME RunInvariant, NEW n \in Nat, n + 1 \in 1 .. Len(printed), NEW o, ReadTo(o, n),
         o.verdict = "none"
  PROVE  ReadTo(HandleLine(o, KindsOf(n + 1)), n + 1)
<1>1. PICK kinds, count : kinds = KindsOf(n + 1) /\ count = Len(kinds)
  BY Zenon
<1>2. count \in Nat /\ DOMAIN kinds = 1 .. count
  BY Zenon, <1>1, KindsAreKnown
<1>3. PICK f : LineLoop(f, count, o, kinds) /\ HandleLine(o, kinds) = f[count]
  BY Zenon, <1>1, <1>2, HandleLineIs
<1> DEFINE T == {m \in Nat : m <= count => ReadInto(f[m], n, m)}
<1>4. 0 \in T
  <2>1. f[0] = o
    BY <1>2, <1>3 DEF LineLoop
  <2>2. ReadInto(o, n, 0)
    BY DEF ReadTo, ReadInto
  <2>3. QED
    BY Zenon, <2>1, <2>2
<1>5. ASSUME NEW m \in Nat, m \in T PROVE m + 1 \in T
  <2>1. CASE m + 1 <= count
    <3>1. PICK prior, h : prior = f[m] /\ h = f[m + 1]
      BY Zenon
    <3>2. ReadInto(prior, n, m)
      BY <1>2, <1>5, <2>1, <3>1
    <3>3. m + 1 \in 0 .. count /\ m + 1 # 0 /\ (m + 1) - 1 = m
      BY <1>2, <2>1
    <3>4. h = IF prior.verdict # "none" THEN prior ELSE Handle(prior, kinds[m + 1])
      BY Zenon, <1>3, <3>1, <3>3 DEF LineLoop
    <3>5. m + 1 <= Len(KindsOf(n + 1))
      BY Zenon, <1>1, <2>1
    <3>6. ReadInto(h, n, m + 1)
      BY <1>1, <3>2, <3>4, <3>5, KindIsRead
    <3>7. QED
      BY <3>1, <3>6
  <2>2. CASE ~(m + 1 <= count)
    BY <2>2
  <2>3. QED
    BY Zenon, <2>1, <2>2
<1>6. \A m \in Nat : m \in T => m + 1 \in T
  BY Zenon, <1>5
<1>7. count \in T
  <2> HIDE DEF T
  <2>1. Nat \subseteq T
    BY Zenon, <1>4, <1>6, SetInduction
  <2>2. QED
    BY Zenon, <1>2, <2>1
<1>8. PICK h, line : h = f[count] /\ line = n + 1
  BY Zenon
<1>9. ReadInto(h, n, count) /\ line \in Nat
  BY <1>2, <1>7, <1>8
<1>10. CASE h.verdict = "none"
  <2>1. /\ NothingDecides(n) /\ AllKept(h, n)
        /\ \A m \in 1 .. count : ~Decisive(kinds[m]) /\ PieceKept(h, kinds[m])
    BY Zenon, <1>1, <1>9, <1>10 DEF ReadInto
  <2>2. \A i \in 1 .. line : i \in 1 .. n \/ i = line
    BY <1>8
  <2>3. NothingDecides(line) /\ AllKept(h, line)
    BY Zenon, <1>1, <1>2, <1>8, <2>1, <2>2 DEF NothingDecides, AllKept
  <2>4. ReadTo(h, line)
    BY Zenon, <1>9, <1>10, <2>3 DEF ReadTo, ReadInto
  <2>5. QED
    BY Zenon, <1>1, <1>3, <1>8, <2>4
<1>11. CASE h.verdict # "none"
  <2>1. ReadTo(h, line)
    BY Zenon, <1>8, <1>9, <1>11 DEF ReadTo, ReadInto
  <2>2. QED
    BY Zenon, <1>1, <1>3, <1>8, <2>1
<1>12. QED
  BY Zenon, <1>10, <1>11

\* A decision among the first lines is one among more of them.
LEMMA DecidedStays ==
  ASSUME NEW n \in Nat, NEW m \in Nat, n <= m, NEW v, DecidedAs(v, n)
  PROVE  DecidedAs(v, m)
<1>1. 1 .. n \subseteq 1 .. m
  OBVIOUS
<1>2. QED
  BY Zenon, <1>1 DEF DecidedAs

\* The reader starts with everything it has read in events.
LEMMA ReaderStarts ==
  ASSUME RunInvariant, outcome.by # "frame",
         NEW o, o = [activity |-> activity, recorded |-> recorded, verdict |-> "none"]
  PROVE  ReadTo(o, consumed)
<1>1. DOMAIN o = OutputFields /\ o.activity = NoActivity /\ o.recorded = recorded /\ o.verdict = "none"
  BY Zenon DEF RunInvariant, OutputFields
<1>2. Buffered(o)
  BY Zenon, <1>1, NoActivityIsEmpty DEF Buffered, RunInvariant
<1>3. \A c, t : RecordedOn(c, t) => Kept(o, c, t)
  BY Zenon, <1>1 DEF RecordedOn, Kept
<1>4. AllKept(o, consumed)
  BY Zenon, <1>3 DEF RunInvariant, AllRecorded, AllKept, PieceKept
<1>5. QED
  BY Zenon, <1>1, <1>2, <1>4 DEF RunInvariant, ReadTo

\* A read of the spool file takes every line up to the end of the file, or up
\* to the first that decides, and leaves nothing in the buffer.
LEMMA LinesAreRead ==
  ASSUME RunInvariant, outcome.by # "frame"
  PROVE  LET o == PersistNewFrames(consumed, copied)
         IN  ReadTo(o, copied) /\ o.activity = NoActivity
<1>1. PICK from \in Nat, count \in Nat : from = consumed /\ from + count = copied
  <2>1. copied - consumed \in Nat /\ consumed + (copied - consumed) = copied /\ consumed \in Nat
    BY DEF RunInvariant
  <2>2. QED
    BY Zenon, <2>1
<1> DEFINE to == from + count
           read == CHOOSE f : f = [n \in from .. to |->
          IF n = from THEN [activity |-> activity, recorded |-> recorded, verdict |-> "none"]
          ELSE IF f[n - 1].verdict # "none" THEN f[n - 1]
          ELSE HandleLine(f[n - 1], Decode(agent, printed[n]))]
<1>2. PICK g : ReadLoop(g, from, to)
  BY Zenon, ReadLoopExists
<1>3. read = [n \in from .. to |->
          IF n = from THEN [activity |-> activity, recorded |-> recorded, verdict |-> "none"]
          ELSE IF read[n - 1].verdict # "none" THEN read[n - 1]
          ELSE HandleLine(read[n - 1], Decode(agent, printed[n]))]
  BY Zenon, <1>2 DEF ReadLoop
<1>4. PersistNewFrames(from, to) = IF read[to].verdict = "none" THEN Flush(read[to]) ELSE read[to]
  BY Zenon DEF PersistNewFrames
<1> HIDE DEF read
<1>5. PICK f : f = read
  BY Zenon
<1> DEFINE T == {m \in Nat : m <= count => ReadTo(f[from + m], from + m)}
<1>6. 0 \in T
  <2>1. PICK o : o = [activity |-> activity, recorded |-> recorded, verdict |-> "none"]
    BY Zenon
  <2>2. f[from] = o /\ from + 0 = from
    BY <1>3, <1>5, <2>1
  <2>3. ReadTo(o, from)
    BY Zenon, <1>1, <2>1, ReaderStarts
  <2>4. QED
    BY Zenon, <2>2, <2>3
<1>7. ASSUME NEW m \in Nat, m \in T PROVE m + 1 \in T
  <2>1. CASE m + 1 <= count
    <3>0. PICK n \in Nat : n = from + m
      OBVIOUS
    <3>1. PICK prior, h : n = from + m /\ prior = f[n] /\ h = f[n + 1]
      BY Zenon, <3>0
    <3>2. ReadTo(prior, n)
      BY <1>7, <2>1, <3>1
    <3>3. n + 1 \in from .. to /\ n + 1 # from /\ (n + 1) - 1 = n
      BY <2>1, <3>1
    <3>4. n + 1 \in 1 .. Len(printed)
      BY <1>1, <2>1, <3>1 DEF RunInvariant, Listed
    <3>5. h = IF prior.verdict # "none" THEN prior ELSE HandleLine(prior, KindsOf(n + 1))
      BY <1>3, <1>5, <3>1, <3>3 DEF KindsOf
    <3>6. ReadTo(h, n + 1)
      <4>1. CASE prior.verdict # "none"
        <5>1. DecidedAs(prior.verdict, n) /\ prior.activity = NoActivity /\ Buffered(prior)
          BY Zenon, <3>2, <4>1 DEF ReadTo
        <5>2. DecidedAs(prior.verdict, n + 1)
          BY <5>1, DecidedStays
        <5>3. QED
          BY Zenon, <3>5, <4>1, <5>1, <5>2 DEF ReadTo
      <4>2. CASE prior.verdict = "none"
        BY Zenon, <3>2, <3>4, <3>5, <4>2, LineIsRead
      <4>3. QED
        BY Zenon, <4>1, <4>2
    <3>7. from + (m + 1) = n + 1
      BY <3>1
    <3>8. QED
      BY <3>1, <3>6, <3>7
  <2>2. CASE ~(m + 1 <= count)
    BY <2>2
  <2>3. QED
    BY Zenon, <2>1, <2>2
<1>8. \A m \in Nat : m \in T => m + 1 \in T
  BY Zenon, <1>7
<1>9. count \in T
  <2> HIDE DEF T
  <2>1. Nat \subseteq T
    BY Zenon, <1>6, <1>8, SetInduction
  <2>2. QED
    BY Zenon, <2>1
<1>10. PICK last, end, o : last = f[end] /\ end = to /\ o = PersistNewFrames(consumed, copied)
  BY Zenon
<1>11. ReadTo(last, end) /\ end = copied
  BY <1>1, <1>9, <1>10
<1>12. o = IF last.verdict = "none" THEN Flush(last) ELSE last
  BY Zenon, <1>1, <1>4, <1>5, <1>10
<1>13. CASE last.verdict = "none"
  <2>1. o = Flush(last) /\ Buffered(last)
    BY Zenon, <1>11, <1>12, <1>13 DEF ReadTo
  <2>2. Buffered(o) /\ o.activity = NoActivity /\ o.verdict = last.verdict
    BY Zenon, <2>1, FlushIs
  <2>3. \A c, t : c # "none" /\ Kept(last, c, t) => Kept(o, c, t)
    BY Zenon, <2>1, FlushKeeps
  <2>4. AllKept(o, end)
    BY Zenon, <1>11, <1>13, <2>3, PieceStaysKept DEF ReadTo, AllKept
  <2>5. ReadTo(o, end)
    BY Zenon, <1>11, <1>13, <2>2, <2>4 DEF ReadTo
  <2>6. QED
    BY Zenon, <1>10, <1>11, <2>2, <2>5
<1>14. CASE last.verdict # "none"
  BY Zenon, <1>10, <1>11, <1>12, <1>14 DEF ReadTo
<1>15. QED
  BY Zenon, <1>13, <1>14

-----------------------------------------------------------------------------
(* The steps. *)

\* The lines that are there stay there.
LinesStay ==
    /\ UNCHANGED agent /\ Listed(printed)' /\ Len(printed) <= Len(printed')
    /\ \A i \in 1 .. Len(printed) : printed'[i] = printed[i]
    /\ \A i \in 1 .. Len(printed') : printed'[i] \in Lines[agent]

\* Later lines change no decision.
LEMMA DecisionStays ==
  ASSUME RunInvariant, LinesStay, NEW n \in Nat, n <= Len(printed)
  PROVE  /\ NothingDecides(n) => NothingDecides(n)'
         /\ \A v : DecidedAs(v, n) => DecidedAs(v, n)'
<1>1. ASSUME NEW i \in 1 .. n PROVE KindsOf(i)' = KindsOf(i)
  <2>1. i \in 1 .. Len(printed)
    BY DEF RunInvariant, Listed
  <2>2. QED
    BY Zenon, <2>1 DEF LinesStay, KindsOf
<1>2. ASSUME NEW m \in 0 .. n PROVE NothingDecides(m) => NothingDecides(m)'
  BY <1>1 DEF NothingDecides
<1>3. ASSUME NEW i \in 1 .. n, NEW j, DecidesFirst(i, j) PROVE DecidesFirst(i, j)'
  <2>1. i - 1 \in 0 .. n
    OBVIOUS
  <2>2. QED
    BY Zenon, <1>1, <1>2, <1>3, <2>1 DEF DecidesFirst
<1>4. ASSUME NEW v, DecidedAs(v, n) PROVE DecidedAs(v, n)'
  <2>1. PICK i \in 1 .. n : \E j \in DOMAIN KindsOf(i) :
          DecidesFirst(i, j) /\ v = Verdict(KindsOf(i)[j])
    BY Zenon, <1>4 DEF DecidedAs
  <2>2. PICK j \in DOMAIN KindsOf(i) : DecidesFirst(i, j) /\ v = Verdict(KindsOf(i)[j])
    BY Zenon, <2>1
  <2>3. DecidesFirst(i, j)'
    BY Zenon, <1>3, <2>2
  <2>4. KindsOf(i)' = KindsOf(i)
    BY Zenon, <1>1
  <2>5. j \in DOMAIN KindsOf(i)' /\ v = Verdict(KindsOf(i)[j])'
    BY Zenon, <2>2, <2>4 DEF Verdict
  <2>6. QED
    BY Zenon, <2>3, <2>5 DEF DecidedAs
<1>5. QED
  BY <1>2, <1>4

\* Nor what was recorded of earlier ones.
LEMMA RecordsStay ==
  ASSUME RunInvariant, LinesStay, UNCHANGED recorded, NEW n \in Nat, n <= Len(printed),
         AllRecorded(n)
  PROVE  AllRecorded(n)'
<1>1. ASSUME NEW i \in 1 .. n PROVE KindsOf(i)' = KindsOf(i)
  <2>1. i \in 1 .. Len(printed)
    BY DEF RunInvariant, Listed
  <2>2. QED
    BY Zenon, <2>1 DEF LinesStay, KindsOf
<1>2. ASSUME NEW c, NEW t, RecordedOn(c, t) PROVE RecordedOn(c, t)'
  BY Zenon, <1>2 DEF RecordedOn
<1>3. ASSUME NEW i \in 1 .. n, NEW j \in DOMAIN KindsOf(i)
      PROVE  /\ KindsOf(i)[j].kind = "text" => RecordedOn("text_delta", KindsOf(i)[j].of)'
             /\ KindsOf(i)[j].kind = "thinking" => RecordedOn("warning", KindsOf(i)[j].of)'
  <2>1. PICK k : k = KindsOf(i)[j]
    BY Zenon
  <2>2. /\ k.kind = "text" => RecordedOn("text_delta", k.of)
        /\ k.kind = "thinking" => RecordedOn("warning", k.of)
    BY Zenon, <2>1 DEF AllRecorded
  <2>3. /\ k.kind = "text" => RecordedOn("text_delta", k.of)'
        /\ k.kind = "thinking" => RecordedOn("warning", k.of)'
    BY Zenon, <1>2, <2>2
  <2>4. KindsOf(i)[j]' = k
    BY Zenon, <1>1, <2>1
  <2>5. QED
    BY SMTT(40), <2>1, <2>3, <2>4 DEF RecordedOn
<1>4. QED
  BY Zenon, <1>1, <1>3 DEF AllRecorded

\* A step that reads nothing.
LEMMA NothingRead ==
  ASSUME RunInvariant, LinesStay, UNCHANGED <<consumed, activity, recorded>>,
         copied' \in Nat, copied <= copied', copied' <= Len(printed'),
         \/ UNCHANGED <<outcome, step>>
         \/ step # "done" /\ outcome'.by # "frame"
         \/ step # "done" /\ UNCHANGED outcome
  PROVE  RunInvariant'
<1>1. consumed \in Nat /\ consumed <= Len(printed) /\ Len(printed) \in Nat /\ Len(printed') \in Nat
  BY DEF RunInvariant, LinesStay, Listed
<1>2. ASSUME outcome.by # "frame" PROVE (NothingDecides(consumed) /\ AllRecorded(consumed))'
  <2>1. PICK n \in Nat : n = consumed
    BY Zenon, <1>1
  <2>2. NothingDecides(n) /\ AllRecorded(n)
    BY Zenon, <1>2, <2>1 DEF RunInvariant
  <2>3. NothingDecides(n)' /\ AllRecorded(n)'
    BY Zenon, <1>1, <2>1, <2>2, DecisionStays, RecordsStay
  <2>4. consumed' = n
    BY Zenon, <2>1
  <2>5. QED
    BY Zenon, <2>3, <2>4 DEF NothingDecides, AllRecorded
<1>3. ASSUME outcome.by = "frame" PROVE UNCHANGED <<outcome, step>> /\ step = "done"
  BY Zenon, <1>3 DEF RunInvariant
<1>4. ASSUME outcome'.by = "frame" PROVE step' = "done" /\ DecidedAs(outcome.state, Len(printed))'
  <2>1. outcome.by = "frame"
    BY Zenon, <1>4 DEF RunInvariant
  <2>2. UNCHANGED <<outcome, step>> /\ step = "done"
    BY Zenon, <1>3, <2>1
  <2>0. PICK v : v = outcome.state
    BY Zenon
  <2>3. PICK n \in Nat, m \in Nat : v = outcome.state /\ n = Len(printed) /\ m = Len(printed')
    BY Zenon, <1>1, <2>0
  <2>4. DecidedAs(v, n)
    BY Zenon, <2>1, <2>3 DEF RunInvariant
  <2>5. DecidedAs(v, n)'
    BY <2>3, <2>4, DecisionStays
  <2>6. 1 .. n \subseteq 1 .. m
    BY <2>3 DEF LinesStay
  <2>7. DecidedAs(v, m)'
    BY Zenon, <2>5, <2>6 DEF DecidedAs
  <2>8. QED
    BY Zenon, <2>2, <2>3, <2>7 DEF DecidedAs
<1>5. outcome'.by # "frame" => outcome.by # "frame"
  BY Zenon, <1>3
<1>6. QED
  BY SMTT(40), <1>1, <1>2, <1>4, <1>5 DEF RunInvariant, LinesStay

\* The lines are as they were.
LEMMA SameLines ==
  ASSUME RunInvariant, UNCHANGED <<agent, printed>>
  PROVE  LinesStay
<1>1. Len(printed) \in Nat /\ Listed(printed)
  BY Zenon DEF RunInvariant, Listed
<1>2. Listed(printed)'
  BY Zenon, <1>1 DEF Listed
<1>3. QED
  BY SMTT(40), <1>1, <1>2 DEF RunInvariant, LinesStay

\* The provider prints a line.
LEMMA PrintingKeeps ==
  ASSUME RunInvariant, ProviderPrints
  PROVE  RunInvariant'
<1>1. PICK l \in Lines[agent] : printed' = Append(printed, l)
  BY Zenon DEF ProviderPrints
<1>2. /\ UNCHANGED <<agent, copied, consumed, activity, recorded, outcome, step>>
  BY Zenon DEF ProviderPrints, fileVars, readVars
<1>3. PICK lines : lines = printed
  BY Zenon
<1>4. Listed(lines) /\ Len(lines) \in Nat /\ copied \in Nat /\ copied <= Len(lines)
  BY Zenon, <1>3 DEF RunInvariant, Listed
<1>5. /\ Listed(Append(lines, l)) /\ Len(Append(lines, l)) = Len(lines) + 1
      /\ \A i \in 1 .. Len(lines) : Append(lines, l)[i] = lines[i]
      /\ Append(lines, l)[Len(lines) + 1] = l
  BY Zenon, <1>4, ListGrows
<1>6. printed' = Append(lines, l)
  BY Zenon, <1>1, <1>3
<1>7. Listed(printed)'
  BY Zenon, <1>5, <1>6 DEF Listed
<1>8. LinesStay
  BY SMTT(40), <1>2, <1>3, <1>4, <1>5, <1>6, <1>7 DEF LinesStay, RunInvariant
<1>9. QED
  BY <1>2, <1>3, <1>4, <1>5, <1>6, <1>8, NothingRead

\* The spool thread copies.
LEMMA CopyingKeeps ==
  ASSUME RunInvariant, SpoolCopies
  PROVE  RunInvariant'
<1>1. UNCHANGED <<agent, printed, consumed, activity, recorded, outcome, step>>
  BY Zenon DEF SpoolCopies, fileVars, readVars
<1>2. copied' \in Nat /\ copied <= copied' /\ copied' <= Len(printed')
  BY <1>1 DEF SpoolCopies, RunInvariant, Listed
<1>3. QED
  BY Zenon, <1>1, <1>2, SameLines, NothingRead

\* Everything but the provider's output and the reader.
LEMMA OthersKeep ==
  ASSUME RunInvariant,
         \/ Replace \/ SwitchAdapter \/ SubmitRun \/ CaptureVersion \/ CaptureHelp
         \/ TakeDigest \/ PlanLaunch \/ Launch \/ ProviderExits
         \/ \E id \in {"initialize", "authenticate", "session/new"} : Ask(id)
         \/ \E id \in {"initialize", "authenticate"} : Greet(id)
         \/ SessionStarts
         \/ \E id \in {"initialize", "session/new"} : GreetingFails(id)
         \/ StillRuns
  PROVE  RunInvariant'
<1>1. UNCHANGED <<agent, printed, copied, consumed, activity, recorded>>
  BY Zenon DEF Replace, SwitchAdapter, SubmitRun, CaptureVersion, CaptureHelp, TakeDigest, PlanLaunch,
     Launch, ProviderExits, Ask, Greet, SessionStarts, GreetingFails, StillRuns,
     fileVars, spoolVars, readVars
<1>2. \/ UNCHANGED <<outcome, step>>
      \/ step # "done" /\ outcome'.by # "frame"
      \/ step # "done" /\ UNCHANGED outcome
  <2>1. CASE Replace \/ SwitchAdapter \/ ProviderExits
    BY Zenon, <2>1 DEF Replace, SwitchAdapter, ProviderExits, readVars
  <2>9. CASE SubmitRun \/ CaptureVersion \/ CaptureHelp
    BY Zenon, <2>9 DEF SubmitRun, CaptureVersion, CaptureHelp, AtStep
  <2>10. CASE \E id \in {"initialize", "authenticate", "session/new"} : Ask(id)
    BY Zenon, <2>10 DEF Ask, AtStep
  <2>11. CASE \E id \in {"initialize", "authenticate"} : Greet(id)
    BY Zenon, <2>11 DEF Greet, AtStep
  <2>2. CASE TakeDigest
    <3>1. \/ UNCHANGED outcome
          \/ Decide("FAILED", "admission")
      <4>1. /\ record'.id # bound \/ record'.id = bound
            /\ record'.status # "ENABLED" \/ record'.status = "ENABLED"
        BY Zenon
      <4>2. QED
        BY Zenon, <2>2, <4>1 DEF TakeDigest
    <3>2. QED
      BY <2>2, <3>1 DEF TakeDigest, AtStep, Decide
  <2>3. CASE PlanLaunch
    BY SMTT(40), <2>3 DEF PlanLaunch, AtStep, Decide
  <2>4. CASE Launch
    BY SMTT(40), <2>4 DEF Launch, AtStep, Decide
  <2>5. CASE SessionStarts
    BY SMTT(40), <2>5 DEF SessionStarts, AtStep, Decide
  <2>6. CASE \E id \in {"initialize", "session/new"} : GreetingFails(id)
    BY <2>6 DEF GreetingFails, AtStep, Decide
  <2>7. CASE StillRuns
    BY SMTT(40), <2>7 DEF StillRuns, AtStep, Decide
  <2>8. QED
    BY ZenonT(60), <2>1, <2>2, <2>3, <2>4, <2>5, <2>6, <2>7, <2>9, <2>10, <2>11
<1>3. copied' \in Nat /\ copied <= copied' /\ copied' <= Len(printed')
  BY SMTT(40), <1>1 DEF RunInvariant
<1>4. QED
  BY Zenon, <1>1, <1>2, <1>3, SameLines, NothingRead

\* A read of the spool file.
LEMMA ReadingKeeps ==
  ASSUME RunInvariant, step # "done", UNCHANGED <<agent, printed, copied>>,
         consumed' = Taken, NEW o, o = PersistNewFrames(consumed, copied),
         activity' = o.activity, recorded' = o.recorded,
         \/ o.verdict # "none" /\ Decide(o.verdict, "frame")
         \/ o.verdict = "none" /\ outcome'.by # "frame"
  PROVE  RunInvariant'
<1>1. outcome.by # "frame"
  BY Zenon DEF RunInvariant
<1>2. ReadTo(o, copied) /\ o.activity = NoActivity
  BY Zenon, <1>1, LinesAreRead
<1>3. LinesStay
  BY Zenon, SameLines
<1>4. PICK n \in Nat : n = copied /\ n <= Len(printed)
  BY Zenon DEF RunInvariant
<1>5. consumed' = n /\ Buffered(o) /\ ReadTo(o, n)
  BY Zenon, <1>2, <1>4 DEF Taken, ReadTo
<1>6. Listed(recorded)' /\ activity' = NoActivity
  BY ZenonT(60), <1>2, <1>5 DEF Buffered, Listed
<1>7. CASE o.verdict # "none" /\ Decide(o.verdict, "frame")
  <2>1. outcome'.by = "frame" /\ outcome'.state = o.verdict /\ step' = "done"
    BY Zenon, <1>7 DEF Decide
  <2>0. PICK v : v = o.verdict
    BY Zenon
  <2>2. PICK m \in Nat : v = o.verdict /\ m = Len(printed)
    BY Zenon, <2>0 DEF RunInvariant, Listed
  <2>3. DecidedAs(v, m)
    BY ZenonT(60), <1>4, <1>5, <1>7, <2>2, DecidedStays DEF ReadTo
  <2>4. DecidedAs(v, m)'
    BY <1>3, <2>2, <2>3, DecisionStays
  <2>5. DecidedAs(outcome.state, Len(printed))'
    BY ZenonT(60), <2>1, <2>2, <2>4 DEF DecidedAs
  <2>6. agent' \in Agents /\ \A i \in 1 .. Len(printed') : printed'[i] \in Lines[agent']
    BY Zenon, <1>3 DEF RunInvariant, LinesStay
  <2>7. consumed' \in Nat /\ copied' \in Nat /\ consumed' <= copied' /\ copied' <= Len(printed')
    BY <1>4, <1>5
  <2>8. QED
    BY Zenon, <1>3, <1>6, <2>1, <2>5, <2>6, <2>7 DEF RunInvariant, LinesStay
<1>8. CASE o.verdict = "none" /\ outcome'.by # "frame"
  <2>1. NothingDecides(n) /\ AllKept(o, n)
    BY Zenon, <1>5, <1>8 DEF ReadTo
  <2>2. NothingDecides(n)'
    BY ZenonT(60), <1>3, <1>4, <2>1, DecisionStays
  <2>3. ASSUME NEW c, NEW t, c # "none", Kept(o, c, t) PROVE RecordedOn(c, t)'
    BY ZenonT(60), <1>2, <2>3, NoActivityIsEmpty DEF Kept, RecordedOn
  <2>4. ASSUME NEW i \in 1 .. n, NEW j \in DOMAIN KindsOf(i)'
        PROVE  /\ KindsOf(i)[j]'.kind = "text" => RecordedOn("text_delta", KindsOf(i)[j].of)'
               /\ KindsOf(i)[j]'.kind = "thinking" => RecordedOn("warning", KindsOf(i)[j].of)'
    <3>1. PICK k : k = KindsOf(i)[j]
      BY Zenon
    <3>2. KindsOf(i)' = KindsOf(i)
      BY Zenon DEF KindsOf
    <3>3. PieceKept(o, k)
      BY Zenon, <2>1, <3>1, <3>2 DEF AllKept
    <3>4. /\ k.kind = "text" => RecordedOn("text_delta", k.of)'
          /\ k.kind = "thinking" => RecordedOn("warning", k.of)'
      BY Zenon, <2>3, <3>3 DEF PieceKept
    <3>5. KindsOf(i)[j]' = k
      BY Zenon, <3>1, <3>2
    <3>6. QED
      BY ZenonT(60), <3>4, <3>5 DEF RecordedOn
  <2>5. AllRecorded(n)'
    BY Zenon, <2>4 DEF AllRecorded
  <2>6. (NothingDecides(consumed) /\ AllRecorded(consumed))'
    BY Zenon, <1>5, <2>2, <2>5 DEF NothingDecides, AllRecorded
  <2>7. QED
    BY SMTT(40), <1>3, <1>4, <1>5, <1>6, <1>8, <2>6 DEF RunInvariant, LinesStay
<1>9. QED
  BY Zenon, <1>7, <1>8

\* The two reads: while the process runs, and after it has gone.
LEMMA ReaderKeeps ==
  ASSUME RunInvariant, PollSpool \/ AfterExit
  PROVE  RunInvariant'
<1>1. UNCHANGED <<agent, printed, copied>> /\ step # "done" /\ outcome.by # "frame"
  BY Zenon DEF PollSpool, AfterExit, AtStep, fileVars, spoolVars, RunInvariant
<1>2. PICK o : o = PersistNewFrames(consumed, copied)
  BY Zenon
<1>3. \/ /\ consumed' = Taken /\ activity' = o.activity /\ recorded' = o.recorded
         /\ \/ o.verdict # "none" /\ Decide(o.verdict, "frame")
            \/ o.verdict = "none" /\ outcome'.by # "frame"
      \/ outcome'.by # "frame" /\ UNCHANGED <<consumed, activity, recorded>>
  <2>1. CASE PollSpool
    BY Zenon, <1>1, <1>2, <2>1 DEF PollSpool, Read, readVars
  <2>2. CASE AfterExit
    <3>1. PICK state : Read(Decide(state, "exit"))
      BY Zenon, <2>2 DEF AfterExit
    <3>2. Decide(state, "exit") => outcome'.by # "frame"
      BY DEF Decide
    <3>3. QED
      BY Zenon, <1>2, <3>1, <3>2 DEF Read, readVars
  <2>3. QED
    BY Zenon, <2>1, <2>2
<1>4. copied' \in Nat /\ copied <= copied' /\ copied' <= Len(printed')
  BY <1>1 DEF RunInvariant
<1>5. QED
  BY ZenonT(60), <1>1, <1>2, <1>3, <1>4, ReadingKeeps, SameLines, NothingRead

\* Every step of a run keeps it.
LEMMA RunStep ==
  ASSUME RunInvariant, [RunNext]_runVars
  PROVE  RunInvariant'
<1>1. CASE UNCHANGED runVars
  <2>1. UNCHANGED <<agent, printed, copied, consumed, activity, recorded, outcome, step>>
    BY Zenon, <1>1 DEF runVars, fileVars, spoolVars, readVars
  <2>2. copied' \in Nat /\ copied <= copied' /\ copied' <= Len(printed')
    BY SMTT(40), <2>1 DEF RunInvariant
  <2>3. QED
    BY Zenon, <2>1, <2>2, SameLines, NothingRead
<1>2. CASE RunNext
  BY ZenonT(60), <1>2, OthersKeep, PrintingKeeps, CopyingKeeps, ReaderKeeps DEF RunNext
<1>3. QED
  BY Zenon, <1>1, <1>2

\* It holds of a run that is about to be submitted.
LEMMA RunStarts ==
  ASSUME RunInit
  PROVE  RunInvariant
<1>1. <<>> \in Seq(Nat) /\ Len(<<>>) = 0
  OBVIOUS
<1>2. Listed(<<>>)
  BY Zenon, <1>1, SequenceIsListed
<1>3. NothingDecides(0) /\ AllRecorded(0)
  BY SMTT(40) DEF NothingDecides, AllRecorded
<1>4. outcome.by = "none" /\ agent \in Agents /\ printed = <<>> /\ copied = 0 /\ consumed = 0
      /\ activity = NoActivity /\ recorded = <<>>
  BY Zenon DEF RunInit, Undecided
<1>5. QED
  BY SMTT(40), <1>1, <1>2, <1>3, <1>4 DEF RunInvariant

\* For any providers, lines and decodings: everything read so far is recorded
\* and decides nothing, or the run is over by the first line that does
\* (dispatcher.rs, persist_new_frames).
THEOREM ReaderIsSound == RunSpec => []RunInvariant
<1>1. RunInit => RunInvariant
  BY Zenon, RunStarts
<1>2. RunInvariant /\ [RunNext]_runVars => RunInvariant'
  BY Zenon, RunStep
<1>3. QED
  BY <1>1, <1>2, PTL DEF RunSpec

\* A run that a frame ended has the verdict of the first deciding frame of its
\* output, and a run that ended otherwise had read none (dispatcher.rs).
THEOREM FirstFrameDecides == RunSpec => []DecidedByFirstFrame
<1>1. RunInvariant => DecidedByFirstFrame
  BY Zenon DEF RunInvariant, DecidedByFirstFrame, DecidedAs
<1>2. QED
  BY <1>1, ReaderIsSound, PTL

\* Between two reads and at the end, every piece of text and of thinking that
\* was read is in an event of its own channel, and the buffer is empty
\* (dispatcher.rs, ActivityBuffer).
THEOREM NoPieceIsLost == RunSpec => []EveryPieceIsRecorded
<1>1. RunInvariant => EveryPieceIsRecorded
  BY Zenon DEF RunInvariant, EveryPieceIsRecorded, AllRecorded
<1>2. QED
  BY <1>1, ReaderIsSound, PTL

-----------------------------------------------------------------------------
(* Scheduler: the limits and the picks.                                    *)

\* saturating_sub does not wrap.
LEMMA LeftType ==
    ASSUME NEW limit \in Nat, NEW used \in Nat
    PROVE  Left(limit, used) \in Nat
  BY DEF Left

LEMMA LimitsType ==
    ASSUME NEW g \in Setting, NEW p \in Setting
    PROVE  LimitsFromSettings(g, p)
             \in [global : 1..MaxGlobal, per_adapter : 1..MaxPerAdapter]
  BY Zenon, BoundAssumption DEF LimitsFromSettings

LEMMA CandidateType ==
    ASSUME NEW c \in Candidate
    PROVE  /\ c.priority \in Nat /\ c.created_at \in Nat
           /\ c.adapter \in Adapters \cup {Unassigned}
           /\ c.pending \in BOOLEAN
<1>1. PICK a \in {Adapters, {Unassigned}}, b \in {BOOLEAN, {FALSE}} :
        c \in [priority : 0..MaxPriority, created_at : 0..MaxCreatedAt,
              adapter : a, pending : b]
  BY Zenon DEF Candidate
<1>2. /\ c.priority \in 0..MaxPriority /\ c.created_at \in 0..MaxCreatedAt
      /\ c.adapter \in a /\ c.pending \in b
  BY Zenon, <1>1
<1>3. c.priority \in Nat /\ c.created_at \in Nat
  BY <1>2, BoundAssumption
<1> QED
  BY Zenon, <1>2, <1>3

\* The sort's order is strict and total.
LEMMA OrderIsTotal ==
    ASSUME candidates \in [Tasks -> Candidate], NEW t \in Tasks, NEW u \in Tasks
    PROVE  /\ t # u => Before(t, u) \/ Before(u, t)
           /\ ~(Before(t, u) /\ Before(u, t))
<1> DEFINE c == candidates[t]  d == candidates[u]
<1>1. /\ c.priority \in Nat /\ c.created_at \in Nat
      /\ d.priority \in Nat /\ d.created_at \in Nat
  BY Zenon, CandidateType
<1>2. t \in Nat /\ u \in Nat
  BY Zenon, TaskAssumption
<1> QED
  BY SMTT(40), <1>1, <1>2 DEF Before

\* Every counter and verdict keeps its type.
LEMMA TypePreserved ==
    ASSUME TypeOK, [Next]_vars
    PROVE  TypeOK'
<1> USE DEF TypeOK
<1>1. ASSUME NEW t \in Tasks, Skip(t) PROVE TypeOK'
  BY Zenon, <1>1 DEF Skip, inputs
<1>2. ASSUME NEW t \in Tasks, Bypass(t) PROVE TypeOK'
  BY SMTT(40), <1>2 DEF Bypass, inputs
<1>3. ASSUME NEW t \in Tasks, Exhausted(t) PROVE TypeOK'
  BY Zenon, <1>3 DEF Exhausted, inputs
<1>4. ASSUME NEW t \in Tasks, Dispatch(t) PROVE TypeOK'
  <2>1. candidates[t].adapter \in Adapters
    BY Zenon, <1>4, CandidateType DEF Dispatch, Dispatchable
  <2>2. /\ remaining_global - 1 \in Nat
        /\ remaining_adapter[candidates[t].adapter] - 1 \in Nat
    BY SMTT(40), <1>4, <2>1 DEF Dispatch
  <2> QED
    BY Zenon, <1>4, <2>1, <2>2 DEF Dispatch, inputs
<1>5. Finish => TypeOK'
  BY Zenon DEF Finish, inputs
<1>6. UNCHANGED vars => TypeOK'
  BY Zenon DEF vars, inputs
<1> QED
  BY Zenon, <1>1, <1>2, <1>3, <1>4, <1>5, <1>6 DEF Next

LEMMA TypeInitial == Init => TypeOK
<1> SUFFICES ASSUME Init PROVE TypeOK
  BY Zenon
<1>1. limits \in [global : 1..MaxGlobal, per_adapter : 1..MaxPerAdapter]
  <2>1. PICK g \in Setting, p \in Setting : limits = LimitsFromSettings(g, p)
    BY DEF Init
  <2> QED
    BY Zenon, <2>1, LimitsType
<1>2. limits.global \in Nat /\ limits.per_adapter \in Nat
  BY <1>1, BoundAssumption
<1>3. occupied_global \in Nat /\ \A a \in Adapters : occupied[a] \in Nat
  BY SMTT(40), BoundAssumption DEF Init
<1>4. remaining_global \in Nat
  BY Zenon, <1>2, <1>3, LeftType DEF Init
<1>5. remaining_adapter \in [Adapters -> Nat]
  <2>1. \A a \in Adapters : Left(limits.per_adapter, occupied[a]) \in Nat
    BY Zenon, <1>2, <1>3, LeftType
  <2> QED
    BY Zenon, <2>1 DEF Init
<1> QED
  BY SMTT(40), <1>1, <1>4, <1>5 DEF Init, TypeOK

\* No counter of a plan wraps (plan_dispatch).
THEOREM TypeCorrect == Spec => []TypeOK
<1>1. TypeOK /\ [Next]_vars => TypeOK'
  BY Zenon, TypePreserved
<1> QED
  BY <1>1, TypeInitial, PTL DEF Spec

-----------------------------------------------------------------------------
(* The scan. *)

\* A step gives one new task its verdict.
LEMMA OneVerdict ==
    ASSUME TypeOK, NEW t \in Tasks, NEW v, verdict' = [verdict EXCEPT ![t] = v]
    PROVE  /\ verdict'[t] = v
           /\ \A u \in Tasks : u # t => verdict'[u] = verdict[u]
  BY Zenon DEF TypeOK

\* The scan stays a prefix.
LEMMA PrefixPreserved ==
    ASSUME TypeOK, ScanIsPrefix, [Next]_vars
    PROVE  ScanIsPrefix'
<1>1. candidates' = candidates
  BY Zenon DEF Next, Skip, Bypass, Exhausted, Dispatch, Finish, vars, inputs
<1>2. CASE verdict' = verdict
  BY Zenon, <1>1, <1>2 DEF ScanIsPrefix, Before
<1>3. ASSUME NEW t \in Tasks, Current(t), NEW v, v # "none",
             verdict' = [verdict EXCEPT ![t] = v]
      PROVE  ScanIsPrefix'
  <2>1. /\ verdict'[t] = v
        /\ \A u \in Tasks : u # t => verdict'[u] = verdict[u]
    BY Zenon, <1>3, OneVerdict
  <2>2. \A u \in Tasks : Before(u, t) => verdict[u] # "none"
    BY Zenon, <1>3 DEF Current
  <2>3. ASSUME NEW x \in Tasks, NEW u \in Tasks, Before(u, x), verdict'[x] # "none"
        PROVE  verdict'[u] # "none"
    BY Zenon, <1>3, <2>1, <2>2, <2>3 DEF ScanIsPrefix
  <2>4. \A x, u \in Tasks : Before(u, x)' <=> Before(u, x)
    BY Zenon, <1>1 DEF Before
  <2> QED
    BY Zenon, <2>3, <2>4 DEF ScanIsPrefix
<1>4. ASSUME NEW t \in Tasks, Skip(t) \/ Bypass(t) \/ Exhausted(t) \/ Dispatch(t)
      PROVE  ScanIsPrefix'
  <2>1. \E v : v # "none" /\ Current(t) /\ verdict' = [verdict EXCEPT ![t] = v]
    BY Zenon, <1>4 DEF Skip, Bypass, Exhausted, Dispatch
  <2> QED
    BY Zenon, <1>3, <2>1
<1> QED
  BY Zenon, <1>2, <1>4 DEF Next, Finish, vars

\* Slots are only taken, never given back, so that the reasons hold.
LEMMA VerdictsPreserved ==
    ASSUME TypeOK, VerdictsHold, [Next]_vars
    PROVE  VerdictsHold'
<1>0. /\ candidates' = candidates
      /\ \A x \in Tasks : Dispatchable(x)' <=> Dispatchable(x)
  BY Zenon DEF Next, Skip, Bypass, Exhausted, Dispatch, Finish, vars, inputs,
     Dispatchable
<1>1. ASSUME NEW t \in Tasks, Skip(t) PROVE VerdictsHold'
  BY Zenon, <1>0, <1>1 DEF Skip, VerdictsHold, TypeOK
<1>2. ASSUME NEW t \in Tasks, Bypass(t) PROVE VerdictsHold'
  BY Zenon, <1>0, <1>2 DEF Bypass, Current, VerdictsHold, TypeOK
<1>3. ASSUME NEW t \in Tasks, Exhausted(t) PROVE VerdictsHold'
  BY ZenonT(60), <1>0, <1>3 DEF Exhausted, Current, VerdictsHold, TypeOK
<1>4. ASSUME NEW t \in Tasks, Dispatch(t) PROVE VerdictsHold'
  <2>1. candidates[t].adapter \in Adapters
    BY Zenon, <1>4, CandidateType DEF Dispatch, Dispatchable, TypeOK
  <2> QED
    BY SMTT(40), <1>0, <1>4, <2>1 DEF Dispatch, Current, VerdictsHold, TypeOK
<1>5. Finish \/ UNCHANGED vars => VerdictsHold'
  BY Zenon, <1>0 DEF Finish, VerdictsHold, vars
<1> QED
  BY Zenon, <1>1, <1>2, <1>3, <1>4, <1>5 DEF Next

\* A task is dispatched only after every ready task of its adapter before it.
LEMMA OvertakingPreserved ==
    ASSUME SchedulerInvariant, [Next]_vars
    PROVE  NoOvertaking'
<1> USE DEF SchedulerInvariant
<1>0. /\ candidates' = candidates
      /\ \A x \in Tasks : Dispatchable(x)' <=> Dispatchable(x)
      /\ \A x, u \in Tasks : Before(u, x)' <=> Before(u, x)
  BY Zenon DEF Next, Skip, Bypass, Exhausted, Dispatch, Finish, vars, inputs,
     Dispatchable, Before
<1>1. CASE Dispatched' = Dispatched
  <2> SUFFICES ASSUME NEW x \in Dispatched, NEW u \in Tasks, Before(u, x),
                      Dispatchable(u), candidates[u].adapter = candidates[x].adapter
               PROVE  u \in Dispatched
    BY Zenon, <1>0, <1>1 DEF NoOvertaking, Dispatched
  <2> QED
    BY Zenon DEF NoOvertaking
<1>2. ASSUME NEW t \in Tasks, Dispatch(t) PROVE NoOvertaking'
  <2>1. Dispatched' = Dispatched \cup {t}
    BY Zenon, <1>2 DEF Dispatch, Dispatched, TypeOK
  <2>2. ASSUME NEW u \in Tasks, Before(u, t), Dispatchable(u),
               candidates[u].adapter = candidates[t].adapter
        PROVE  u \in Dispatched
    <3>1. verdict[u] # "none"
      BY Zenon, <1>2, <2>2 DEF Dispatch, Current
    <3>2. verdict[u] # "AdapterLimit"
      BY Zenon, <1>2, <2>2 DEF Dispatch, VerdictsHold
    <3>3. verdict[u] # "GlobalLimit"
      BY Zenon, <1>2 DEF Dispatch, Current, VerdictsHold
    <3>4. verdict[u] \notin {"RetryTimerPending", "AdapterUnassigned"}
      BY Zenon, <2>2 DEF VerdictsHold
    <3> QED
      BY Zenon, <3>1, <3>2, <3>3, <3>4 DEF Dispatched, TypeOK
  <2> QED
    <3> SUFFICES ASSUME NEW x \in Dispatched \cup {t}, NEW u \in Tasks, Before(u, x),
                        Dispatchable(u), candidates[u].adapter = candidates[x].adapter
                 PROVE  u \in Dispatched
      BY Zenon, <1>0, <2>1 DEF NoOvertaking, Dispatched
    <3> QED
      BY Zenon, <2>2 DEF NoOvertaking
<1>3. ASSUME NEW t \in Tasks, Skip(t) \/ Bypass(t) \/ Exhausted(t)
      PROVE  Dispatched' = Dispatched
  BY Zenon, <1>3 DEF Skip, Bypass, Exhausted, Current, Dispatched, TypeOK
<1> QED
  BY Zenon, <1>1, <1>2, <1>3 DEF Next, Finish, vars, Dispatched

\* Adding a task to a set of tasks.
LEMMA CardinalityAdd ==
    ASSUME NEW S, S \subseteq Tasks, NEW t \in Tasks, t \notin S
    PROVE  Cardinality(S \cup {t}) = Cardinality(S) + 1 /\ Cardinality(S) \in Nat
<1>1. IsFiniteSet(S)
  BY Zenon, FS_Subset, TaskAssumption
<1> QED
  BY Zenon, <1>1, FS_AddElement, FS_CardinalityType

\* The counters follow the plan.
LEMMA CountersPreserved ==
    ASSUME SchedulerInvariant, [Next]_vars
    PROVE  CountersAgree'
<1>0. /\ TypeOK /\ CountersAgree /\ inputs' = inputs
  BY Zenon DEF SchedulerInvariant, Next, Skip, Bypass, Exhausted, Dispatch, Finish, vars,
     inputs
<1>a. /\ candidates' = candidates /\ limits' = limits /\ bypass_bound' = bypass_bound
      /\ occupied_global' = occupied_global /\ occupied' = occupied
  BY Zenon, <1>0 DEF inputs
<1>b. /\ bypassed \in Nat /\ bypass_bound \in Nat /\ remaining_global \in Nat
      /\ remaining_adapter \in [Adapters -> Nat]
  BY <1>0, BoundAssumption DEF TypeOK
<1>c. /\ Dispatched \subseteq Tasks /\ Heads \subseteq Tasks
      /\ \A a \in Adapters : DispatchedOn(a) \subseteq Tasks
  BY Zenon DEF Dispatched, Heads, DispatchedOn
<1>d. ASSUME Dispatched' = Dispatched
      PROVE  \A a \in Adapters : DispatchedOn(a)' = DispatchedOn(a)
  BY Zenon, <1>a, <1>d DEF DispatchedOn
<1>1. ASSUME NEW t \in Tasks, Skip(t) PROVE CountersAgree'
  <2>1. Dispatched' = Dispatched /\ Heads' = Heads
    BY Zenon, <1>0, <1>1 DEF Skip, Current, Dispatched, Heads, TypeOK
  <2>2. scanning /\ scanning'
    BY Zenon, <1>1 DEF Skip, Current
  <2> QED
    BY ZenonT(60), <1>0, <1>1, <1>a, <1>d, <2>1, <2>2 DEF Skip, CountersAgree
<1>2. ASSUME NEW t \in Tasks, Bypass(t) PROVE CountersAgree'
  <2>1. Dispatched' = Dispatched /\ Heads' = Heads \cup {t} /\ t \notin Heads
    BY Zenon, <1>0, <1>2 DEF Bypass, Current, Dispatched, Heads, TypeOK
  <2>2. Cardinality(Heads') = Cardinality(Heads) + 1
    BY Zenon, <1>c, <2>1, CardinalityAdd
  <2>3. /\ bypassed' = Cardinality(Heads')
        /\ scanning' => bypassed' < bypass_bound
        /\ ~scanning' => bypassed' = bypass_bound
    <3>1. /\ bypassed' = bypassed + 1 /\ bypassed < bypass_bound
          /\ bypassed = Cardinality(Heads)
      BY Zenon, <1>0, <1>2 DEF Bypass, Current, CountersAgree
    <3>2. scanning' <=> bypassed' < bypass_bound
      BY Zenon, <1>2 DEF Bypass
    <3>3. bypassed' < bypass_bound \/ bypassed' = bypass_bound
      BY <1>b, <3>1
    <3>4. bypassed' = Cardinality(Heads')
      BY Zenon, <2>2, <3>1
    <3> QED
      BY Zenon, <3>2, <3>3, <3>4
  <2> QED
    BY ZenonT(60), <1>0, <1>2, <1>a, <1>d, <2>1, <2>3 DEF Bypass, CountersAgree
<1>3. ASSUME NEW t \in Tasks, Exhausted(t) PROVE CountersAgree'
  <2>1. Dispatched' = Dispatched /\ Heads' = Heads
    BY Zenon, <1>0, <1>3 DEF Exhausted, Current, Dispatched, Heads, TypeOK
  <2> QED
    BY ZenonT(60), <1>0, <1>3, <1>a, <1>d, <2>1 DEF Exhausted, CountersAgree
<1>4. ASSUME NEW t \in Tasks, Dispatch(t) PROVE CountersAgree'
  <2> DEFINE b == candidates[t].adapter
  <2>1. b \in Adapters
    BY Zenon, <1>0, <1>4, CandidateType DEF Dispatch, Dispatchable, TypeOK
  <2>2. Dispatched' = Dispatched \cup {t} /\ Heads' = Heads /\ t \notin Dispatched
    BY Zenon, <1>0, <1>4 DEF Dispatch, Current, Dispatched, Heads, TypeOK
  <2>3. Cardinality(Dispatched') = Cardinality(Dispatched) + 1
        /\ Cardinality(Dispatched) \in Nat
    BY Zenon, <1>c, <2>2, CardinalityAdd
  <2>4. DispatchedOn(b)' = DispatchedOn(b) \cup {t} /\ t \notin DispatchedOn(b)
    BY Zenon, <1>a, <2>2 DEF DispatchedOn
  <2>5. Cardinality(DispatchedOn(b)') = Cardinality(DispatchedOn(b)) + 1
        /\ Cardinality(DispatchedOn(b)) \in Nat
    BY Zenon, <1>c, <2>1, <2>4, CardinalityAdd
  <2>6. \A a \in Adapters : a # b => DispatchedOn(a)' = DispatchedOn(a)
    BY Zenon, <1>a, <2>2 DEF DispatchedOn
  <2>7. remaining_global' = remaining_global - 1
        /\ remaining_adapter' = [remaining_adapter EXCEPT ![b] = @ - 1]
        /\ scanning /\ scanning' = scanning /\ bypassed' = bypassed
    BY ZenonT(60), <1>4 DEF Dispatch, Current
  <2>8. Cardinality(Dispatched') + remaining_global'
          = Left(limits.global, occupied_global)
    <3>1. Cardinality(Dispatched) + remaining_global = Left(limits.global, occupied_global)
      BY Zenon, <1>0 DEF CountersAgree
    <3> QED
      BY SMTT(60), <1>b, <2>3, <2>7, <3>1
  <2>9. ASSUME NEW a \in Adapters
        PROVE  Cardinality(DispatchedOn(a)') + remaining_adapter'[a]
                 = Left(limits.per_adapter, occupied[a])
    <3>1. Cardinality(DispatchedOn(a)) + remaining_adapter[a]
            = Left(limits.per_adapter, occupied[a])
      BY Zenon, <1>0 DEF CountersAgree
    <3>2. CASE a # b
      <4>1. remaining_adapter'[a] = remaining_adapter[a]
        BY ZenonT(60), <1>b, <2>7, <3>2
      <4> QED
        BY Zenon, <2>6, <3>1, <3>2, <4>1
    <3>3. CASE a = b
      <4>1. remaining_adapter'[a] = remaining_adapter[a] - 1
        BY Zenon, <1>b, <2>7, <3>3
      <4>2. remaining_adapter[a] \in Nat /\ Cardinality(DispatchedOn(a)) \in Nat
            /\ Cardinality(DispatchedOn(a)') = Cardinality(DispatchedOn(a)) + 1
        BY Zenon, <1>a, <1>b, <2>5, <3>3
      <4> QED
        BY SMTT(40), <3>1, <4>1, <4>2
    <3> QED
      BY Zenon, <3>2, <3>3
  <2> QED
    BY ZenonT(60), <1>0, <1>a, <2>2, <2>7, <2>8, <2>9 DEF CountersAgree
<1>5. Finish \/ UNCHANGED vars => CountersAgree'
  <2> SUFFICES ASSUME Finish \/ UNCHANGED vars PROVE CountersAgree'
    BY Zenon
  <2>1. verdict' = verdict /\ remaining_global' = remaining_global
        /\ remaining_adapter' = remaining_adapter /\ bypassed' = bypassed
    BY Zenon DEF Finish, vars
  <2>2. Dispatched' = Dispatched /\ Heads' = Heads
    BY Zenon, <2>1 DEF Dispatched, Heads
  <2>3. scanning' = scanning \/ (~scanning' /\ \A t \in Tasks : verdict'[t] # "none")
    BY Zenon, <2>1 DEF Finish, vars
  <2> QED
    <3>1. \A a \in Adapters : DispatchedOn(a)' = DispatchedOn(a)
      BY ZenonT(60), <1>d, <2>2
    <3>2. /\ (scanning => bypassed < bypass_bound)'
          /\ (~scanning => \/ bypassed = bypass_bound
                           \/ remaining_global = 0
                           \/ \A t \in Tasks : verdict[t] # "none")'
      <4>1. /\ scanning => bypassed < bypass_bound
            /\ ~scanning => \/ bypassed = bypass_bound
                            \/ remaining_global = 0
                            \/ \A t \in Tasks : verdict[t] # "none"
        BY Zenon, <1>0 DEF CountersAgree
      <4>. QED BY <1>0, <1>a, <2>1, <2>3, <4>1
    <3>3. /\ Left(limits.global, occupied_global)' = Left(limits.global, occupied_global)
          /\ \A a \in Adapters : Left(limits.per_adapter, occupied[a])'
                                 = Left(limits.per_adapter, occupied[a])
      BY Zenon, <1>a
    <3>4. /\ Cardinality(Dispatched)' = Cardinality(Dispatched)
          /\ Cardinality(Heads)' = Cardinality(Heads)
          /\ \A a \in Adapters : Cardinality(DispatchedOn(a))' = Cardinality(DispatchedOn(a))
      BY Zenon, <2>2, <3>1
    <3> QED
      BY ZenonT(60), <1>0, <2>1, <3>2, <3>3, <3>4 DEF CountersAgree
<1> QED
  BY Zenon, <1>1, <1>2, <1>3, <1>4, <1>5 DEF Next

\* The scan starts with an empty plan.
LEMMA SchedulerInitial == Init => SchedulerInvariant
<1> SUFFICES ASSUME Init PROVE SchedulerInvariant
  BY Zenon
<1>1. TypeOK
  BY Zenon, TypeInitial
<1>2. ScanIsPrefix /\ VerdictsHold
  BY Zenon DEF Init, ScanIsPrefix, VerdictsHold
<1>3. Dispatched = {} /\ Heads = {}
  BY Zenon DEF Init, Dispatched, Heads
<1>4. \A a \in Adapters : DispatchedOn(a) = {}
  BY Zenon, <1>3 DEF DispatchedOn
<1>5. Cardinality({}) = 0
  BY Zenon, FS_EmptySet
<1>6. CountersAgree
  <2>1. bypassed < bypass_bound
    BY <1>1, BoundAssumption DEF Init, TypeOK
  <2>2. 0 + remaining_global = remaining_global
        /\ \A a \in Adapters : 0 + remaining_adapter[a] = remaining_adapter[a]
    BY <1>1 DEF TypeOK
  <2> QED
    BY ZenonT(60), <1>3, <1>4, <1>5, <2>1, <2>2 DEF Init, CountersAgree
<1>7. NoOvertaking
  BY Zenon, <1>3 DEF NoOvertaking
<1> QED
  BY Zenon, <1>1, <1>2, <1>6, <1>7 DEF SchedulerInvariant

-----------------------------------------------------------------------------
(* The theorems. *)

\* The scan keeps its invariant.
THEOREM ScanIsSound == Spec => []SchedulerInvariant
<1>1. ASSUME SchedulerInvariant, [Next]_vars
      PROVE  SchedulerInvariant'
  <2>1. TypeOK /\ ScanIsPrefix /\ VerdictsHold
    BY Zenon, <1>1 DEF SchedulerInvariant
  <2> QED
    BY Zenon, <1>1, <2>1, TypePreserved, PrefixPreserved, VerdictsPreserved,
       CountersPreserved, OvertakingPreserved DEF SchedulerInvariant
<1> QED
  BY <1>1, SchedulerInitial, PTL DEF Spec

\* No plan exceeds a limit (plan_dispatch).
THEOREM PlansFit == Spec => []PlanFits
<1>1. SchedulerInvariant => PlanFits
  <2> SUFFICES ASSUME SchedulerInvariant PROVE PlanFits
    BY Zenon
  <2>0. TypeOK /\ CountersAgree /\ VerdictsHold
    BY Zenon DEF SchedulerInvariant
  <2>1. ASSUME NEW S, S \subseteq Tasks
        PROVE  Cardinality(S) \in Nat
    BY Zenon, <2>1, FS_Subset, FS_CardinalityType, TaskAssumption
  <2>2. Cardinality(Dispatched) \in Nat /\ remaining_global \in Nat
    BY ZenonT(60), <2>0, <2>1 DEF Dispatched, TypeOK
  <2>a. ASSUME NEW S, S \subseteq Tasks, S # {}
        PROVE  Cardinality(S) # 0
    <3>1. IsFiniteSet(S)
      BY Zenon, <2>a, FS_Subset, TaskAssumption
    <3> QED
      BY Zenon, <2>a, <3>1, FS_EmptySet
  <2>b. ASSUME NEW c \in Nat, c # 0, NEW rest \in Nat, NEW limit \in Nat, NEW used \in Nat,
               c + rest = Left(limit, used)
        PROVE  c + used <= limit
    BY SMTT(60), <2>b DEF Left
  <2>c. /\ limits.global \in Nat /\ limits.per_adapter \in Nat /\ occupied_global \in Nat
        /\ \A a \in Adapters : occupied[a] \in Nat
    BY SMTT(60), <2>0, BoundAssumption DEF TypeOK
  <2>3. ASSUME Dispatched # {}
        PROVE  Cardinality(Dispatched) + occupied_global <= limits.global
    <3>1. Cardinality(Dispatched) # 0
      BY Zenon, <2>3, <2>a DEF Dispatched
    <3>2. Cardinality(Dispatched) + remaining_global = Left(limits.global, occupied_global)
      BY Zenon, <2>0 DEF CountersAgree
    <3> QED
      BY Zenon, <2>2, <2>b, <2>c, <3>1, <3>2
  <2>4. ASSUME NEW a \in Adapters, DispatchedOn(a) # {}
        PROVE  Cardinality(DispatchedOn(a)) + occupied[a] <= limits.per_adapter
    <3>1. Cardinality(DispatchedOn(a)) \in Nat /\ remaining_adapter[a] \in Nat
      BY Zenon, <2>0, <2>1 DEF DispatchedOn, Dispatched, TypeOK
    <3>2. Cardinality(DispatchedOn(a)) + remaining_adapter[a]
            = Left(limits.per_adapter, occupied[a])
      BY Zenon, <2>0 DEF CountersAgree
    <3>3. Cardinality(DispatchedOn(a)) # 0
      BY Zenon, <2>4, <2>a DEF DispatchedOn, Dispatched
    <3> QED
      BY Zenon, <2>b, <2>c, <3>1, <3>2, <3>3
  <2>5. \A t \in Dispatched : Dispatchable(t)
    BY Zenon, <2>0 DEF Dispatched, VerdictsHold
  <2> QED
    BY Zenon, <2>3, <2>4, <2>5 DEF PlanFits
<1> QED
  BY <1>1, ScanIsSound, PTL

\* The tasks of an adapter are planned in the order of priority and age.
THEOREM PlansAreFifo == Spec => []FifoOnAdapter
<1>1. SchedulerInvariant => FifoOnAdapter
  <2> SUFFICES ASSUME SchedulerInvariant, NEW t \in Dispatched, NEW u \in Tasks,
                      Dispatchable(u), candidates[u].adapter = candidates[t].adapter,
                      \/ candidates[u].priority > candidates[t].priority
                      \/ /\ candidates[u].priority = candidates[t].priority
                         /\ candidates[u].created_at < candidates[t].created_at
               PROVE  u \in Dispatched
    BY Zenon DEF FifoOnAdapter
  <2>1. Before(u, t)
    BY Zenon DEF Before
  <2> QED
    BY Zenon, <2>1 DEF SchedulerInvariant, NoOvertaking
<1> QED
  BY <1>1, ScanIsSound, PTL

\* What is not used up leaves something (plan_dispatch's counters).
LEMMA SomeIsLeft ==
  ASSUME NEW used \in Nat, NEW left \in Nat, NEW all, used + left = all, used < all
  PROVE  left # 0
  OBVIOUS

\* A task that has room waits only behind bypass_bound blocked tasks.
THEOREM WaitsAreBounded == Spec => []NoNeedlessWait
<1>1. SchedulerInvariant => NoNeedlessWait
  <2> SUFFICES ASSUME SchedulerInvariant, ~scanning, NEW t \in Tasks \ Dispatched,
                      HasRoom(t)
               PROVE  /\ Cardinality(Heads) = bypass_bound
                      /\ \A u \in Heads : Before(u, t)
    BY Zenon DEF NoNeedlessWait
  <2>0. TypeOK /\ CountersAgree /\ VerdictsHold /\ ScanIsPrefix
    BY Zenon DEF SchedulerInvariant
  <2>1. ASSUME NEW S, S \subseteq Tasks
        PROVE  Cardinality(S) \in Nat
    BY ZenonT(60), <2>1, FS_Subset, FS_CardinalityType, TaskAssumption
  <2>2. remaining_global # 0
    <3>1. Cardinality(Dispatched) \in Nat /\ remaining_global \in Nat
      BY ZenonT(60), <2>0, <2>1 DEF Dispatched, TypeOK
    <3> QED
      BY Zenon, <2>0, <3>1, SomeIsLeft DEF CountersAgree, HasRoom
  <2>3. remaining_adapter[candidates[t].adapter] # 0
    <3> DEFINE a == candidates[t].adapter
    <3>1. a \in Adapters
      BY Zenon, <2>0, CandidateType DEF HasRoom, Dispatchable, TypeOK
    <3>2. Cardinality(DispatchedOn(a)) \in Nat /\ remaining_adapter[a] \in Nat
      BY Zenon, <2>0, <2>1, <3>1 DEF DispatchedOn, Dispatched, TypeOK
    <3>3. Cardinality(DispatchedOn(a)) + remaining_adapter[a]
            = Left(limits.per_adapter, occupied[a])
      BY Zenon, <2>0, <3>1 DEF CountersAgree
    <3>4. Cardinality(DispatchedOn(a)) < Left(limits.per_adapter, occupied[a])
      BY Zenon DEF HasRoom
    <3> HIDE DEF a
    <3>5. remaining_adapter[a] # 0
      BY SomeIsLeft, <3>2, <3>3, <3>4
    <3> QED
      BY Zenon, <3>5 DEF a
  <2>4. verdict[t] = "none"
    <3>1. verdict[t] \notin {"AdapterLimit", "GlobalLimit", "RetryTimerPending",
                             "AdapterUnassigned"}
      BY Zenon, <2>0, <2>2, <2>3 DEF VerdictsHold, HasRoom
    <3> QED
      BY Zenon, <2>0, <3>1 DEF Dispatched, TypeOK
  <2>5. Cardinality(Heads) = bypass_bound
    BY Zenon, <2>0, <2>2, <2>4 DEF CountersAgree
  <2>6. ASSUME NEW u \in Heads PROVE Before(u, t)
    <3>1. u \in Tasks /\ verdict[u] # "none" /\ u # t
      BY Zenon, <2>4, <2>6 DEF Heads
    <3>2. ~Before(t, u)
      BY ZenonT(60), <2>0, <2>4, <3>1 DEF ScanIsPrefix
    <3> QED
      BY Zenon, <2>0, <3>1, <3>2, OrderIsTotal DEF TypeOK
  <2> QED
    BY Zenon, <2>5, <2>6
<1> QED
  BY <1>1, ScanIsSound, PTL

-----------------------------------------------------------------------------
(* Worktrees: the administrative lock of a repository.                     *)

\* Whoever holds a strong reference holds the object that the registry names, so
\* two attempts on one repository hold the same one; and the mutex of an object
\* has one owner.
LocksAreShared ==
  /\ slot \in [Repos -> Int \cup {NoLock}]
  /\ arc \in [Attempts -> Int \cup {NoLock}]
  /\ drawn \in Int
  /\ inside \subseteq Attempts
  /\ \A w \in Attempts : arc[w] # NoLock => arc[w] = slot[RepoOf[w]]
  /\ \A w \in inside : arc[w] # NoLock
  /\ \A v, w \in inside : arc[v] = arc[w] => v = w

\* The registry of weak references keeps one lock object per repository while
\* anybody uses it (AdminLockRegistry::acquire, with_admin_lock).
THEOREM RegistryKeepsOneLock == WorktreesSpec => []LocksAreShared
<1>1. WorktreesInit => LocksAreShared
  BY SMTT(40), RepoAssumption DEF WorktreesInit, LocksAreShared
<1>2. LocksAreShared /\ [WorktreesNext]_worktreeVars => LocksAreShared'
  <2> SUFFICES ASSUME LocksAreShared, [WorktreesNext]_worktreeVars
               PROVE  LocksAreShared'
    BY Zenon
  <2> USE RepoAssumption DEF LocksAreShared
  <2>1. ASSUME NEW w \in Attempts, AcquireLock(w)
        PROVE  LocksAreShared'
    <3> DEFINE r == RepoOf[w]
    <3>1. r \in Repos /\ w \notin inside
      BY ZenonT(60), <2>1 DEF AcquireLock
    <3>2. CASE Alive(slot[r])
      BY SMTT(40), <2>1, <3>1, <3>2 DEF AcquireLock, Alive
    <3>3. CASE ~Alive(slot[r])
      <4>1. \A v \in Attempts : RepoOf[v] = r => arc[v] = NoLock
        BY <3>3 DEF Alive
      <4>2. /\ slot' = [slot EXCEPT ![r] = drawn] /\ arc' = [arc EXCEPT ![w] = drawn]
            /\ drawn' = drawn + 1 /\ UNCHANGED inside
        BY Zenon, <2>1, <3>3 DEF AcquireLock
      <4>3. QED
        BY SMTT(40), <3>1, <4>1, <4>2
    <3>4. QED
      BY Zenon, <3>2, <3>3
  <2>2. ASSUME NEW w \in Attempts, EnterLock(w)
        PROVE  LocksAreShared'
    BY <2>2 DEF EnterLock
  <2>3. ASSUME NEW w \in Attempts, LeaveLock(w)
        PROVE  LocksAreShared'
    BY SMTT(40), <2>3 DEF LeaveLock
  <2>4. ASSUME NEW w \in Attempts,
               \/ Reverify(w) \/ AddWorktree(w) \/ RegisterRow(w) \/ UndoAdd(w)
               \/ BeginRemove(w) \/ VerifyIntact(w) \/ DeleteWorktree(w) \/ Converge(w)
        PROVE  LocksAreShared'
    <3>1. UNCHANGED <<slot, arc, drawn, inside>>
      BY Zenon, <2>4 DEF Reverify, AddWorktree, RegisterRow, UndoAdd, BeginRemove, VerifyIntact,
                  DeleteWorktree, Converge
    <3>2. QED
      BY Zenon, <3>1
  <2>5. CASE UserInterferes
    BY Zenon, <2>5 DEF UserInterferes
  <2>6. CASE StopManager
    BY Zenon, <2>6 DEF StopManager
  <2>7. CASE UNCHANGED worktreeVars
    BY Zenon, <2>7 DEF worktreeVars
  <2>8. QED
    BY ZenonT(60), <2>1, <2>2, <2>3, <2>4, <2>5, <2>6, <2>7 DEF WorktreesNext
<1>3. QED
  BY <1>1, <1>2, PTL DEF WorktreesSpec

\* Mesh-owned add and remove operations of one repository never overlap,
\* although its lock object is dropped and made anew.
THEOREM AdminOperationsNeverOverlap == WorktreesSpec => []AdminOperationsExclude
<1>1. LocksAreShared => AdminOperationsExclude
  BY RepoAssumption DEF LocksAreShared, AdminOperationsExclude
<1>2. QED
  BY <1>1, RegistryKeepsOneLock, PTL

=============================================================================
