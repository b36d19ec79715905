------------------------------ MODULE Streaming ------------------------------
(***************************************************************************)
(* One streamed answer of POST /v1/chat/completions on its way from the    *)
(* upstream to the client: the buffered SSE filter (src/src/proxy/sse.rs), *)
(* the output filter and the streaming de-anonymiser on the text of each   *)
(* event (src/src/guard/sse_deanon.rs), the streaming tool gate            *)
(* (src/src/guard/sse_tool_gate.rs), and the loop that drives them         *)
(* (src/src/proxy/mod.rs).                                                 *)
(*                                                                         *)
(* The wire.  An event is cut into pieces: two halves of its data line and *)
(* the two line ends that terminate it.  A chunk is any run of pieces, so  *)
(* chunks split events and pack them.  The filter buffers pieces; the gate *)
(* and the usage extraction look at each chunk by itself.  One step is one *)
(* iteration of the loop.                                                  *)
(***************************************************************************)
EXTENDS Placeholders, FiniteSets, TLC

CONSTANTS
  Answers,     \* [cfg, events]: what is enabled, the events the upstream sends
  ChoiceIds,   \* values of choices[].index
  Entries,     \* the vault's entries: sequence of [token, value]
  MaxPending,  \* MAX_PLACEHOLDER_LEN, in atoms
  Denied,      \* names of tools that the gate denies
  ValidArgs,   \* argument strings, as sequences of deltas, that parse
  NoCall       \* an event without tool_calls

NoUsage == -1
NoName == ""

\* A `data:` event, the [DONE] sentinel or a comment.  wide: its halves meet
\* inside a character of several bytes.
Event ==
  [kind : {"data", "done", "comment"}, wide : BOOLEAN, choice : ChoiceIds,
   text : Seq(Atoms), call : {NoCall} \cup [index : Nat, name : STRING, args : STRING],
   finish : BOOLEAN, usage : Nat \cup {NoUsage}]

Switches == [output : BOOLEAN, reversible : BOOLEAN, gate : BOOLEAN]

ASSUME ConstantsAssumption ==
  /\ Answers \subseteq [cfg : Switches, events : Seq(Event)]
  /\ Entries \in Seq([token : Seq(Atoms), value : Seq(Atoms)])
  /\ MaxPending \in Nat \ {0, 1}

\* The sentinel and the comments say nothing else.
ASSUME SilenceAssumption ==
  \A a \in Answers : \A e \in DOMAIN a.events :
    a.events[e].kind # "data" =>
      /\ a.events[e].text = <<>>
      /\ a.events[e].call = NoCall
      /\ ~a.events[e].finish
      /\ a.events[e].usage = NoUsage

VARIABLES
  cfg,        \* what is enabled
  events,     \* the events the upstream sends
  pos,        \* pieces received
  status,     \* open, ended, failed, denied, dropped
  buffer,     \* SseFilter.buffer
  pending,    \* DeanonymizeStream.pending; not empty inside a window
  partials,   \* StreamingToolGate.partials
  lastUsage,  \* last_usage
  recorded,   \* tokens recorded in the budget once the stream has ended
  forwarded,  \* pieces the client has received
  shown,      \* text the client has received, per choice
  \* What the properties remember:
  discarded,  \* window text thrown away at the end
  verbatim,   \* events that flush passed on unfiltered
  missed,     \* events that no chunk held whole
  crowded     \* a chunk held two usage events

textVars == <<buffer, pending, forwarded, shown, discarded, verbatim>>
gateVars == <<partials, lastUsage, missed, crowded>>
vars == <<cfg, events, pos, status, recorded, textVars, gateVars>>

Parts == <<"head", "tail", "nl", "nl">>

Wire(evs) ==
  [i \in 1..4 * Len(evs) |-> <<1 + (i - 1) \div 4, Parts[1 + ((i - 1) % 4)]>>]

Init ==
  /\ \E a \in Answers : cfg = a.cfg /\ events = a.events
  /\ pos = 0
  /\ status = "open"
  /\ buffer = <<>>
  /\ pending = <<>>
  /\ partials = <<>>
  /\ lastUsage = NoUsage
  /\ recorded = NoUsage
  /\ forwarded = <<>>
  /\ shown = [c \in ChoiceIds |-> <<>>]
  /\ discarded = <<>>
  /\ verbatim = {}
  /\ missed = {}
  /\ crowded = FALSE

\* What op makes of start and the events in S, in the order of the stream.
Through(op(_, _), start, S) ==
  FoldLeftDomain(LAMBDA x, e : IF e \in S THEN op(x, e) ELSE x, start, events)

-----------------------------------------------------------------------------
(* What a chunk shows by itself                                            *)

EventsWith(pieces, part) == {p[1] : p \in {q \in Range(pieces) : q[2] = part}}

\* from_utf8 of a chunk fails when the chunk cuts a character.
Utf8(chunk) ==
  /\ chunk[1][2] = "tail" => ~events[chunk[1][1]].wide
  /\ chunk[Len(chunk)][2] = "head" => ~events[chunk[Len(chunk)][1]].wide

\* The events whose data line parses: both halves are in this chunk.
Visible(chunk) ==
  IF Utf8(chunk)
  THEN {e \in EventsWith(chunk, "head") \cap EventsWith(chunk, "tail") : events[e].kind = "data"}
  ELSE {}

UsageIn(chunk) == {e \in Visible(chunk) : events[e].usage # NoUsage}

\* Seeded fault: a chunk without usage forgets the usage seen before.
MutUsageAfter(chunk) ==
  IF UsageIn(chunk) = {} THEN NoUsage ELSE events[Min(UsageIn(chunk))].usage

\* try_extract_usage returns the first usage line of the chunk; the last
\* chunk that has one wins.
UsageAfter(chunk) ==
  IF UsageIn(chunk) = {} THEN lastUsage ELSE events[Min(UsageIn(chunk))].usage

-----------------------------------------------------------------------------
(* The streaming tool gate.  Arguments that never arrived count as `{}`.   *)

\* merge_delta: a name replaces the name, arguments are appended.
MergeDelta(parts, call) ==
  LET old == IF call.index \in DOMAIN parts
             THEN parts[call.index] ELSE [name |-> NoName, args |-> <<>>]
      new == [name |-> IF call.name # NoName THEN call.name ELSE old.name,
              args |-> IF call.args # "" THEN Append(old.args, call.args) ELSE old.args]
  IN  [i \in DOMAIN parts \cup {call.index} |-> IF i = call.index THEN new ELSE parts[i]]

\* Seeded fault: only the call with the lowest index is evaluated.
MutDenies(parts) ==
  \E i \in DOMAIN parts :
    /\ \A j \in DOMAIN parts : i <= j
    /\ parts[i].name # NoName
    /\ parts[i].name \in Denied \/ parts[i].args \notin ValidArgs \cup {<<>>}

\* evaluate_collected: calls without a name are skipped; sanitising counts
\* as allowing.
Denies(parts) ==
  \E i \in DOMAIN parts :
    /\ parts[i].name # NoName
    /\ parts[i].name \in Denied \/ parts[i].args \notin ValidArgs \cup {<<>>}

\* observe one event, unless an earlier one of the chunk was denied.
Observe(g, e) ==
  LET ev == events[e]
      parts == IF ev.call = NoCall THEN g.parts ELSE MergeDelta(g.parts, ev.call)
  IN  IF g.denied THEN g
      ELSE IF ev.finish THEN [parts |-> <<>>, denied |-> Denies(parts)]
      ELSE [parts |-> parts, denied |-> FALSE]

GateAfter(chunk) ==
  LET start == [parts |-> partials, denied |-> FALSE]
  IN  IF cfg.gate
      THEN Through(Observe, start, Visible(chunk))
      ELSE start

-----------------------------------------------------------------------------
(* The SSE filter and the de-anonymiser                                    *)

\* find_event_end: places where a blank line starts.  A terminator \r\n\r\n is
\* found like \n\n (an "nl" is either) and handed on as \n\n.
Ends(buf) == {i \in 1..Len(buf) - 1 : buf[i][2] = "nl" /\ buf[i + 1][2] = "nl"}

\* Seeded fault: an event split by a chunk boundary is not waited for.
MutComplete(buf) == Len(buf)

\* How much of the buffer is complete events, terminators included.
Complete(buf) == IF Ends(buf) = {} THEN 0 ELSE Max(Ends(buf)) + 1

Reversible == cfg.reversible /\ Entries # <<>>

\* Seeded fault: a window is never given up.
MutPushAtom(d, a) ==
  LET window == Append(d.pending, a)
  IN  IF d.pending = <<>>
      THEN IF a = Open THEN [d EXCEPT !.pending = window]
           ELSE [d EXCEPT !.out = Append(@, a)]
      ELSE IF a = Close
      THEN [pending |-> <<>>, out |-> d.out \o Restore(window, Entries)]
      ELSE [d EXCEPT !.pending = window]

\* DeanonymizeStream::push, one character class at a time: [ opens a window,
\* ] closes it and the vault is consulted, a window that grows too long was
\* ordinary text.
PushAtom(d, a) ==
  LET window == Append(d.pending, a)
  IN  IF d.pending = <<>>
      THEN IF a = Open THEN [d EXCEPT !.pending = window]
           ELSE [d EXCEPT !.out = Append(@, a)]
      ELSE IF a = Close
      THEN [pending |-> <<>>, out |-> d.out \o Restore(window, Entries)]
      ELSE IF Len(window) >= MaxPending
      THEN [pending |-> <<>>, out |-> d.out \o window]
      ELSE [d EXCEPT !.pending = window]

\* [DONE] stands in the text of event e.
DoneMark == <<Open, "DONE", Close>>
SaysDone(e) == \E i \in DOMAIN events[e].text : Occurs(events[e].text, DoneMark, i)

\* Seeded fault: a window does not outlive its event.
MutProcessEvent(f, e) ==
  LET ev == events[e]
      text == FilterOutput(ev.text)
      d == FoldLeft(PushAtom, [pending |-> <<>>, out |-> <<>>], text)
  IN  IF ev.kind # "data" THEN f
      ELSE [pending |-> <<>>,
            shown |-> [f.shown EXCEPT ![ev.choice] = @ \o IF Reversible THEN d.out \o d.pending ELSE text]]

\* process_event: filter, then de-anonymise, the text of a data event.  An
\* event that holds [DONE] anywhere is taken for the sentinel: it goes out as
\* it is, past both.
ProcessEvent(f, e) ==
  LET ev == events[e]
      text == FilterOutput(ev.text)
      d == IF Reversible
           THEN FoldLeft(PushAtom, [pending |-> f.pending, out |-> <<>>], text)
           ELSE [pending |-> f.pending, out |-> text]
  IN  IF ev.kind # "data" THEN f
      ELSE IF SaysDone(e) THEN [f EXCEPT !.shown[ev.choice] = @ \o ev.text]
      ELSE [pending |-> d.pending, shown |-> [f.shown EXCEPT ![ev.choice] = @ \o d.out]]

\* The text of events handed on as they are.
ShowRaw(evs) ==
  Through(LAMBDA s, e : [s EXCEPT ![events[e].choice] = @ \o events[e].text], shown, evs)

\* SseFilter::push, or nothing at all when the output guard is off.
PushChunk(chunk) ==
  IF cfg.output
  THEN LET buf == buffer \o chunk
           n == Complete(buf)
           f == Through(ProcessEvent, [pending |-> pending, shown |-> shown],
                        EventsWith(SubSeq(buf, 1, n), "tail"))
       IN  /\ buffer' = SubSeq(buf, n + 1, Len(buf))
           /\ forwarded' = forwarded \o SubSeq(buf, 1, n)
           /\ pending' = f.pending
           /\ shown' = f.shown
  ELSE /\ forwarded' = forwarded \o chunk
       /\ shown' = ShowRaw(EventsWith(chunk, "tail"))
       /\ UNCHANGED <<buffer, pending>>

-----------------------------------------------------------------------------
(* The loop                                                                *)

\* A chunk of n pieces arrives: usage, tool gate, filter.  A denial replaces
\* the chunk by the error event and ends the stream.
Chunk(n) ==
  LET chunk == SubSeq(Wire(events), pos + 1, pos + n)
      g == GateAfter(chunk)
  IN
  /\ status = "open"
  /\ pos + n <= Len(Wire(events))
  /\ pos' = pos + n
  /\ lastUsage' = UsageAfter(chunk)
  /\ partials' = g.parts
  /\ missed' = missed \cup
       {e \in EventsWith(chunk, "tail") : events[e].kind = "data" /\ e \notin Visible(chunk)}
  /\ crowded' = (crowded \/ Cardinality(UsageIn(chunk)) > 1)
  /\ IF g.denied
     THEN status' = "denied" /\ UNCHANGED <<buffer, pending, forwarded, shown>>
     ELSE PushChunk(chunk) /\ UNCHANGED status
  /\ UNCHANGED <<cfg, events, recorded, discarded, verbatim>>

\* The upstream closes, after the last event or before: the buffer is flushed
\* as it is, an open window is thrown away, the usage seen is recorded.
StreamEnd ==
  /\ status = "open"
  /\ status' = "ended"
  /\ forwarded' = forwarded \o buffer
  /\ shown' = ShowRaw(EventsWith(buffer, "tail"))
  /\ verbatim' = EventsWith(buffer, "head")
  /\ buffer' = <<>>
  /\ discarded' = pending
  /\ pending' = <<>>
  /\ recorded' = lastUsage
  /\ UNCHANGED <<cfg, events, pos, gateVars>>

\* The upstream breaks off, or the client is gone: nothing more happens.
StreamStop(s) ==
  /\ status = "open"
  /\ status' = s
  /\ UNCHANGED <<cfg, events, pos, recorded, textVars, gateVars>>

Next ==
  \/ \E n \in 1..Len(Wire(events)) : Chunk(n)
  \/ StreamEnd
  \/ \E s \in {"failed", "dropped"} : StreamStop(s)

Spec == Init /\ [][Next]_vars

-----------------------------------------------------------------------------
(* Properties                                                              *)

Statuses == {"open", "ended", "failed", "denied", "dropped"}

\* Every variable of one stream has its type; a window is shorter than
\* MAX_PLACEHOLDER_LEN, starts with its bracket and is not closed.
TypeOK ==
  /\ [cfg |-> cfg, events |-> events] \in Answers
  /\ pos \in 0..4 * Len(events)
  /\ status \in Statuses
  /\ {buffer, forwarded} \subseteq Seq((1..Len(events)) \X Range(Parts))
  /\ {pending, discarded} \subseteq Seq(Atoms)
  /\ pending # <<>> => pending[1] = Open /\ Close \notin Range(pending)
  /\ Len(pending) < MaxPending
  /\ DOMAIN partials \subseteq Nat
  /\ {lastUsage, recorded} \subseteq Nat \cup {NoUsage}
  /\ shown \in [ChoiceIds -> Seq(Atoms)]
  /\ verbatim \cup missed \subseteq 1..Len(events)
  /\ crowded \in BOOLEAN

\* However the upstream cuts its answer into chunks (sse.rs push and flush),
\* no byte is lost, repeated or reordered: what the client has, followed by
\* what the filter holds, is what the upstream sent, up to the chunk that a
\* denial drops; and until the end the filter hands on whole events only.
FramingKept ==
  LET held == forwarded \o buffer
      sent == SubSeq(Wire(events), 1, pos)
  IN  /\ IF status = "denied" THEN IsPrefix(held, sent) ELSE held = sent
      /\ cfg.output /\ status # "ended" => Len(forwarded) % 4 = 0

\* The events in D about call i, those that name it, those that give arguments.
About(D, i) == {e \in D : events[e].call # NoCall /\ events[e].call.index = i}
Naming(D, i) == {e \in About(D, i) : events[e].call.name # NoName}
Giving(D, i) == {e \in About(D, i) : events[e].call.args # ""}

Indexes(D) == {events[e].call.index : e \in {d \in D : events[d].call # NoCall}}

\* What those up to event f give, in the order of the stream.
ArgsOf(D, i, f) ==
  FlattenSeq([e \in 1..f |-> IF e \in Giving(D, i) THEN <<events[e].call.args>> ELSE <<>>])

\* The events since the finish before event f, and the calls that the client
\* has at f: the last name and all the arguments of each index.
Since(f) == {e \in 1..f : \A p \in e..f - 1 : ~events[p].finish}

CallsAt(f) ==
  [i \in {j \in Indexes(Since(f)) : Naming(Since(f), j) # {}} |->
     [name |-> events[Max(Naming(Since(f), i))].call.name,
      args |-> ArgsOf(Since(f), i, f)]]

\* A finish event after which the client holds a call that the policy denies.
MustWithhold(f) ==
  LET calls == CallsAt(f)
  IN  /\ events[f].kind = "data" /\ events[f].finish
      /\ \E i \in DOMAIN calls :
           calls[i].name \in Denied \/ calls[i].args \notin ValidArgs \cup {<<>>}

\* Only one choice of the answer calls tools.
OneCaller == \A d, e \in DOMAIN events :
  (events[d].call # NoCall \/ events[d].finish) /\ (events[e].call # NoCall \/ events[e].finish)
    => events[d].choice = events[e].choice

\* The tool gate (sse_tool_gate.rs, the loop of proxy/mod.rs): the event that
\* completes a denied call never reaches the client, whatever calls were
\* allowed before it, in whatever order the deltas of several calls came,
\* provided that each event of the answer was whole in some chunk.
DeniedCallWithheld ==
  cfg.gate /\ OneCaller =>
    \A f \in DOMAIN events :
      MustWithhold(f) /\ (\A e \in missed : e > f) => <<f, "tail">> \notin Range(forwarded)

\* The same without the proviso: what the module comment of sse_tool_gate.rs
\* says, "so the client doesn't execute a denied tool".
DeniedCallNeverSent ==
  cfg.gate /\ OneCaller =>
    \A f \in DOMAIN events : MustWithhold(f) => <<f, "tail">> \notin Range(forwarded)

\* The texts of the events the client has had, and the whole they make up.
Passed == {e \in EventsWith(forwarded, "nl") : events[e].kind = "data"}

TextOf(evs) ==
  FlattenSeq([e \in DOMAIN events |-> IF e \in evs THEN events[e].text ELSE <<>>])

\* A phrase of event e starts inside brackets in its own event if and only if
\* it does in the text as a whole.
ContextInEvent ==
  \A e \in Passed : \A i \in DOMAIN events[e].text :
    PhrasesAt(events[e].text, i) # {} =>
      (InsideBrackets(events[e].text, i) <=>
       InsideBrackets(TextOf({d \in Passed : d <= e}),
                      i + Len(TextOf({d \in Passed : d < e}))))

\* No phrase starts before the beginning or the end of an event and ends after it.
PhrasesWhole ==
  \A e \in Passed :
    \A c \in {Len(TextOf({d \in Passed : d < e})), Len(TextOf({d \in Passed : d <= e}))} :
      \A j \in 1..c : \A p \in PhrasesAt(TextOf(Passed), j) : j + Len(p) - 1 <= c

\* No bracket stays open for MaxPending atoms.
WindowsShort ==
  LET t == TextOf(Passed)
  IN  \A i \in DOMAIN t :
        t[i] = Open => \E j \in i..i + MaxPending - 1 : j > Len(t) \/ t[j] = Close

OneSpeaker == \A d, e \in DOMAIN events :
  events[d].text # <<>> /\ events[e].text # <<>> => events[d].choice = events[e].choice

\* The names and the indices of the vault's placeholders.
Inner == {Entries[k].token[i] : k \in DOMAIN Entries, i \in {2, 3}}

\* They are not brackets, and no value of the vault has an opening bracket in
\* it or is made of nothing but them.
Legible ==
  /\ {Open, Close} \cap Inner = {}
  /\ \A k \in DOMAIN Entries :
       LET e == Entries[k]
       IN  /\ e.token = Token(e.token[2], e.token[3])
           /\ Open \notin Range(e.value)
           /\ ~(Range(e.value) \subseteq Inner)

\* Each choice reads as its text masked and restored in one piece, up to the
\* open window that is held back, or thrown away at the end.
ReadsAsWhole ==
  LET masked == FilterOutput(TextOf(Passed))
  IN  \A c \in {events[e].choice : e \in {d \in Passed : events[d].text # <<>>}} :
        shown[c] \o pending \o discarded =
          IF Reversible THEN Restore(masked, Entries) ELSE masked

\* What the client reads (sse_deanon.rs under the filter of sse.rs) is what it
\* would have read had the answer come in one piece, with placeholders that lie
\* across any number of events or chunks.  The filter is event-local, so this is
\* said of answers whose phrases, and the brackets around them, are not cut by
\* the boundaries of events (docs/design/streaming.md has that limit) and which do
\* not say [DONE].
TextAsIfWhole ==
  (cfg.output /\ verbatim = {} /\ PhrasesWhole /\ ContextInEvent /\ WindowsShort /\ OneSpeaker
   /\ \A e \in Passed : ~SaysDone(e)) => ReadsAsWhole

\* The budget is charged what the answer reported last (the usage extraction
\* and the end of the loop in proxy/mod.rs), if every report was whole in some
\* chunk and no chunk held two of them.
UsageRecorded ==
  LET reports == {e \in EventsWith(forwarded, "tail") :
                    events[e].kind = "data" /\ events[e].usage # NoUsage}
  IN  status = "ended" /\ reports \cap missed = {} /\ ~crowded =>
        recorded = IF reports = {} THEN NoUsage ELSE events[Max(reports)].usage
=============================================================================
